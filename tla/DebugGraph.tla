----------------------------- MODULE DebugGraph -----------------------------
(***************************************************************************)
(* The reports of crates/picante/src/debug.rs on the dependency graph of a *)
(* Runtime: DependencyGraph and CacheStats.  They are functions of the     *)
(* snapshot of the two maps.  The list of what a query has read, which     *)
(* RuntimeDeps knows as a set, matters here: a key that was read twice is   *)
(* in it twice (frame.rs:110-117).                                         *)
(***************************************************************************)
EXTENDS RuntimeDeps, FiniteSetsExt, Functions

CONSTANTS
    DepList,   \* for each query and set of dependencies, the list it reads them in
    MaxReads,  \* bound on the length of these
    MaxDepth   \* of find_paths; 1000 in the code

ASSUME DepthIsPositive == MaxDepth \in Nat \ {0}
ASSUME ListsAreOfDeps ==
    /\ MaxReads \in Nat
    /\ DepList \in [Computed -> [SUBSET Node -> SeqOf(Node, MaxReads)]]
    /\ \A q \in Computed, ds \in SUBSET Node : ToSet(DepList[q][ds]) = ds

\* DependencyGraph::from_runtime: empty sets have no entry in reverse_deps.
ForwardDeps == [q \in known |-> DepList[q][forward[q]]]
ReverseDeps == [n \in {m \in Node : reverse[m] # {}} |-> reverse[n]]

RootQueries == {q \in DOMAIN ForwardDeps : ForwardDeps[q] = <<>>}

\* Mutant: the keys of the map instead of its values.
DependedOn == DOMAIN ReverseDeps

\* What depends on something, by the reverse map: what leaf_queries removes from
\* all queries, so that it gives the same as root_queries.
Dependents == UNION {ReverseDeps[n] : n \in DOMAIN ReverseDeps}

\* Mutant: what was visited on one path is not visited on another.
StillVisited(visited, n) == visited

\* visited.remove(current) on the way back; the set is the caller's again.
Unvisited(visited, n) == visited \ {n}

\* find_paths_recursive at n, having come by path: the paths found, and the set
\* of visited nodes as it is left, when over does the same at a list of nodes.
PathsAt(over, n, end, path, visited) ==
    IF Len(path) >= MaxDepth THEN [found |-> {}, visited |-> visited]
    ELSE IF n = end THEN [found |-> {path}, visited |-> visited]
    ELSE IF n \in visited THEN [found |-> {}, visited |-> visited]
    ELSE LET deps == IF n \in DOMAIN ForwardDeps THEN ForwardDeps[n] ELSE <<>>
             below == over[[todo |-> deps, end |-> end, path |-> path,
                            visited |-> visited \union {n}]]
         IN  [found |-> below.found, visited |-> Unvisited(below.visited, n)]

\* The dependencies of a node, one after the other.
Search == [todo : SeqOf(Node, MaxReads), end : Node,
           path : SeqOf(Node, MaxDepth - 1), visited : SUBSET Node]
PathsOverOf(over, s) ==
    IF s.todo = <<>> THEN [found |-> {}, visited |-> s.visited]
    ELSE LET n == Head(s.todo)
             first == PathsAt(over, n, s.end, Append(s.path, n), s.visited)
             others == over[[s EXCEPT !.todo = Tail(@), !.visited = first.visited]]
         IN  [found |-> first.found \union others.found, visited |-> others.visited]
PathsOver[s \in Search] == PathsOverOf(PathsOver, s)

FindPaths(start, end) == PathsAt(PathsOver, start, end, <<>>, {}).found

\* The reads of all queries, each at its place in a list.
Reads == UNION {{q} \X DOMAIN ForwardDeps[q] : q \in DOMAIN ForwardDeps}
ReverseEdges == UNION {ReverseDeps[n] \X {n} : n \in DOMAIN ReverseDeps}

CacheStats == [
    forwardDepsCount |-> Cardinality(DOMAIN ForwardDeps),
    reverseDepsCount |-> Cardinality(DOMAIN ReverseDeps),
    totalDependencyEdges |-> Cardinality(Reads),
    rootQueryCount |-> Cardinality(RootQueries)]

-----------------------------------------------------------------------------
\* The lists of different nodes: what a path without a cycle can be.
DistinctLists == UNION {{s \in [1..k -> Node] : IsInjective(s)} : k \in 1..Cardinality(Node)}

SimplePaths ==
    {s \in DistinctLists :
        \A k \in 1..(Len(s) - 1) : s[k] \in known /\ s[k + 1] \in forward[s[k]]}

Reportable == ~parallel /\ AllIdle

(* find_paths finds every path without a cycle and no other, though it      *)
(* shares one set of visited nodes among all of them, and also on graphs     *)
(* with cycles, from or to keys that are not in the graph, and where a key   *)
(* is read twice; paths that are too long are left out (debug.rs:160-212).  *)
PathsAreTheSimpleOnes ==
    Reportable /\ known # {} =>
        LET paths == {s \in SimplePaths : Len(s) <= MaxDepth}
        IN  \A start, end \in Node :
                FindPaths(start, end) =
                    {Tail(s) : s \in {p \in paths : p[1] = start /\ Last(p) = end}}

NothingReadTwice == \A q \in DOMAIN ForwardDeps : IsInjective(ForwardDeps[q])

(* The counts, taken from the lists of the forward map, against the reverse *)
(* map, which has an edge once: total_dependency_edges (debug.rs:237) counts *)
(* every edge, and is the number of edges exactly if no query has read a key *)
(* twice; and a query that is not a root depends on something by the reverse *)
(* map too.  An edge that update_query_deps lost or left behind would show. *)
ReportsAgree ==
    Reportable =>
        /\ CacheStats.totalDependencyEdges >= Cardinality(ReverseEdges)
        /\ CacheStats.totalDependencyEdges = Cardinality(ReverseEdges) <=> NothingReadTwice
        /\ CacheStats.rootQueryCount + Cardinality(Dependents) = CacheStats.forwardDepsCount
=============================================================================
