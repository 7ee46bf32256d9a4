----------------------------- MODULE Reference -----------------------------
(***************************************************************************)
(* What a query means: its program run from scratch on the inputs, without *)
(* caches, revisions or other tasks.  The reference the incremental engine *)
(* is compared with.                                                       *)
(***************************************************************************)
EXTENDS Sequences

CONSTANTS Input, Program(_, _), Cycle

\* Run q on the inputs ins after it has read seen, the queries in path being
\* under way: asking for one of those is a cycle.
RECURSIVE Run(_, _, _, _)
Run(q, seen, ins, path) ==
    LET p == Program(q, seen)
        read == IF p.dep \in Input THEN ins[p.dep]
                ELSE IF p.dep \in path THEN Cycle
                ELSE Run(p.dep, <<>>, ins, path \union {p.dep}).val
    IN  IF p.do = "get" THEN Run(q, Append(seen, read), ins, path)
        ELSE [ok |-> p.do = "ok", val |-> p.val]

Meaning(q, ins) == Run(q, <<>>, ins, {q})
=============================================================================
