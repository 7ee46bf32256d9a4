---------------------------- MODULE QueryService ----------------------------
(***************************************************************************)
(* What a database family promises to those who use it.  Each view has one *)
(* current contents; a write changes the contents of one view only, a      *)
(* snapshot starts from the contents the database has at one instant, and  *)
(* a query is answered with its meaning on the contents its view has at    *)
(* the instant it is answered.  Caches, revisions, flights and their       *)
(* sharing between views are not visible.                                  *)
(***************************************************************************)
CONSTANTS
    View, Live, Task, Query,
    Valuation, Empty,   \* contents of a view, and the first
    Truth(_, _),        \* the meaning of a query on a contents
    NoContents, NoAsk, NoAnswer

VARIABLES
    contents,  \* of each view that exists
    asked,     \* the query each task is waiting for
    answer     \* what each task was last told

vars == <<contents, asked, answer>>

Init ==
    /\ contents = [v \in View |-> IF v = Live THEN Empty ELSE NoContents]
    /\ asked = [t \in Task |-> NoAsk]
    /\ answer = [t \in Task |-> NoAnswer]

Write(v) ==
    /\ contents[v] # NoContents
    /\ \E c \in Valuation : contents' = [contents EXCEPT ![v] = c]
    /\ UNCHANGED <<asked, answer>>

Fork(s) ==
    /\ contents[s] = NoContents
    /\ contents' = [contents EXCEPT ![s] = contents[Live]]
    /\ UNCHANGED <<asked, answer>>

Ask(t, v, q) ==
    /\ asked[t] = NoAsk
    /\ contents[v] # NoContents
    /\ asked' = [asked EXCEPT ![t] = [view |-> v, query |-> q]]
    /\ answer' = [answer EXCEPT ![t] = NoAnswer]
    /\ UNCHANGED contents

Answer(t) ==
    /\ asked[t] # NoAsk
    /\ LET v == asked[t].view
           q == asked[t].query
           r == Truth(q, contents[v])
       IN  answer' = [answer EXCEPT ![t] =
                        [view |-> v, query |-> q, ok |-> r.ok, val |-> r.val]]
    /\ asked' = [asked EXCEPT ![t] = NoAsk]
    /\ UNCHANGED contents

GiveUp(t) ==
    /\ asked[t] # NoAsk
    /\ asked' = [asked EXCEPT ![t] = NoAsk]
    /\ UNCHANGED <<contents, answer>>

Next ==
    \/ \E v \in View : Write(v) \/ Fork(v)
    \/ \E t \in Task : Answer(t) \/ GiveUp(t) \/ \E v \in View, q \in Query : Ask(t, v, q)

Spec == Init /\ [][Next]_vars
=============================================================================
