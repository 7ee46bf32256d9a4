----------------------------- MODULE MCStores ------------------------------
(***************************************************************************)
(* An instance for TLC of the stores beside the query engine: the          *)
(* dependency graph with its reports, the eviction order of the shared      *)
(* cache, an interned table, the collector of traces, the size limits of a  *)
(* save, and the equality of values.  They do not call one another, so a    *)
(* behaviour is one of a single store, which is chosen at the start.        *)
(***************************************************************************)
EXTENDS DebugGraph, SharedCache, Interned, TraceCollector, CacheLimits, ValueEq

CONSTANTS
    i, j, q1, q2, q3, t1, t2,             \* the graph
    inputs, cells, moreCells, interns     \* the sections of a file

VARIABLE store

\* The graph can have cycles, two ways from q1 to q2, and a query that reads
\* nothing.
MCSource == {i, j}
MCComputed == {q1, q2, q3}
MCDepChoices == q1 :> {{i}, {q2, q3}} @@ q2 :> {{j}, {q1}} @@ q3 :> {{}, {q2}}
MCCaller == {t1, t2}
\* q1 reads q3 again after q2; the others read each key once.
MCDepList == [q \in MCComputed |-> [ds \in SUBSET (MCSource \union MCComputed) |->
    IF q = q1 /\ ds = {q2, q3} THEN <<q3, q2, q3>> ELSE SetToSeq(ds)]]

\* Two sections of cells, equal lengths among the records, a long record at
\* any place of a section, and sections without records.
MCSections == {inputs, cells, moreCells, interns}
MCTypes ==
    inputs :> "Input" @@ cells :> "Derived" @@ moreCells :> "Derived" @@ interns :> "Interned"
Rec(name, len) == [name |-> name, len |-> len]
MCSaved ==
    {inputs :> in @@ cells :> c @@ moreCells :> m @@ interns :> w :
        in \in {<<Rec("in1", 3)>>, <<Rec("in1", 3), Rec("in2", 1)>>},
        c \in {<<>>, <<Rec("c1", 2), Rec("c2", 4), Rec("c3", 1)>>},
        m \in {<<>>, <<Rec("m1", 3)>>},
        w \in {<<>>, <<Rec("w1", 2)>>}}
MCRefers ==
    "in1" :> {} @@ "in2" :> {"w1"} @@ "c1" :> {"in1", "in2"} @@ "c2" :> {"in1", "w1"}
    @@ "c3" :> {} @@ "m1" :> {"in2"} @@ "w1" :> {}
\* From 3 on a length takes a second byte, as it does from 128 on in the code.
MCLengthBytes == [n \in 0..4 |-> IF n < 3 THEN 1 ELSE 2]

\* Types whose values differ in what is nested, in metadata only, in the order
\* of an iteration, in length, and in a leaf that equals nothing.
Atom(x) == [def |-> "leaf", of |-> x]
Product(t, ps) == [def |-> "product", tag |-> t, parts |-> ps, meta |-> <<>>]
Tagged(x, n) == [def |-> "product", tag |-> "Tagged", parts |-> <<x>>, meta |-> <<n>>]
Atoms == {Atom("x"), Atom("y")}
Lists(vs) == {Product("list", s) : s \in {<<>>} \union [1..1 -> vs] \union [1..2 -> vs]}
Maps(vs) ==
    {[def |-> "map", entries |-> s] :
        s \in {t \in {<<>>} \union UNION {[1..n -> [key : Atoms, val : vs]] : n \in 1..2} :
            \A k, l \in DOMAIN t : k # l => t[k].key # t[l].key}}
MCValueSet == [
    atom |-> Atoms,
    number |-> {Atom("x"), Atom("NaN")},
    floats |-> Lists({Atom("x"), Atom("NaN")}),
    list |-> Lists(Atoms),
    optional |-> {Product("None", <<>>)} \union {Product("Some", <<v>>) : v \in Lists(Atoms)},
    result |-> {Product(t, <<v>>) : t \in {"Ok", "Err"}, v \in Atoms},
    tagged |-> {Tagged(x, n) : x \in Atoms, n \in {1, 2}},
    tags |-> Lists({Tagged(x, n) : x \in Atoms, n \in {1, 2}}),
    row |-> Lists({Atom("x")}),
    table |-> Maps(Lists({Atom("x")})),
    map |-> Maps(Atoms),
    nested |-> {Product("Index", <<v, m>>) : v \in Atoms, m \in Maps(Atoms)},
    sets |-> {[def |-> "set", elems |-> s] :
                s \in {<<>>, <<Atom("x")>>, <<Atom("y")>>, <<Atom("x"), Atom("y")>>,
                        <<Atom("y"), Atom("x")>>}}]
RECURSIVE HeightOf(_)
HeightOf(v) ==
    LET parts == CASE v.def = "product" -> ToSet(v.parts)
                   [] v.def = "map" -> {e.val : e \in ToSet(v.entries)}
                   [] OTHER -> {}
    IN  IF parts = {} THEN 0 ELSE 1 + Max({HeightOf(w) : w \in parts})
MCHeight == [v \in Value |-> HeightOf(v)]

\* A store that is not chosen is given one initial state.
AtRest ==
    /\ store = "graph" \/ (store # "graph" /\ parallel = FALSE)
    /\ store = "cache" \/ (store # "cache" /\ maxEntries = 0)
    /\ store = "values" \/ (store # "values" /\ entry = Product("None", <<>>))
    /\ \/ store = "save"
       \/ /\ store # "save"
          /\ options = [recordBytes |-> NoLimit, perSection |-> NoLimit, bytes |-> NoLimit]
          /\ collected = CHOOSE c \in Saved : TRUE

MCInit ==
    /\ store \in {"graph", "cache", "interned", "trace", "save", "values"}
    /\ AtRest
    /\ DepsInit /\ CacheInit /\ InternInit /\ TraceInit /\ LimitsInit /\ ValueInit

Is(s) == store = s /\ UNCHANGED store

\* A store that has come to a bound, or to its end, stays as it is.
Stopped ==
    /\ store \in {"cache", "trace", "save"}
    /\ UNCHANGED <<depsVars, cacheVars, internVars, traceVars, limitVars, valueVars, store>>

MCNext ==
    \/ Is("graph") /\ DepsNext /\ UNCHANGED <<cacheVars, internVars, traceVars, limitVars, valueVars>>
    \/ Is("cache") /\ CacheNext /\ UNCHANGED <<depsVars, internVars, traceVars, limitVars, valueVars>>
    \/ Is("interned") /\ InternNext /\ UNCHANGED <<depsVars, cacheVars, traceVars, limitVars, valueVars>>
    \/ Is("trace") /\ TraceNext /\ UNCHANGED <<depsVars, cacheVars, internVars, limitVars, valueVars>>
    \/ Is("save") /\ LimitsNext /\ UNCHANGED <<depsVars, cacheVars, internVars, traceVars, valueVars>>
    \/ Is("values") /\ ValueNext /\ UNCHANGED <<depsVars, cacheVars, internVars, traceVars, limitVars>>
    \/ Stopped

MCSpec ==
    /\ MCInit
    /\ [][MCNext]_<<depsVars, cacheVars, internVars, traceVars, limitVars, valueVars, store>>
    /\ DepsFairness /\ TraceFairness
=============================================================================
