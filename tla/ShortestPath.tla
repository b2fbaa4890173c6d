---------------------------- MODULE ShortestPath ----------------------------
(***************************************************************************)
(* WeightedGraph.shortest_path of utils/graph.py: Dijkstra's algorithm with*)
(* a heap that keeps stale entries, multipliers that inflate the cost of   *)
(* entering a zone, inaccessible edges and excluded zones, and a stop as   *)
(* soon as the target is settled.                                          *)
(*                                                                         *)
(* A behaviour is one call.  The query is fixed when it starts; source and *)
(* target are nodes of the graph (the code raises ValueError otherwise).   *)
(* Each action is one round of a loop: a heap pop, an edge, a step back.   *)
(* The heap breaks ties and the adjacency list orders edges in some way;   *)
(* here any order may happen.  An entry is pushed only when it improves    *)
(* dist, so no two entries are equal and the heap is a set.                *)
(***************************************************************************)
EXTENDS Integers, Sequences, FiniteSets

CONSTANTS
    Nodes,         \* zone ids
    Graphs,        \* graphs to search: sets of edges
    Multipliers,   \* density multipliers: functions of the zones, in tenths
    Exclusions,    \* sets of zones to treat as impassable
    MaxHops,       \* bound on the walks a result is compared with
    Infinity,      \* math.inf
    NoNode         \* None

Edge == [from : Nodes, to : Nodes, weight : Nat, accessible : BOOLEAN]

ASSUME GraphAssumption ==
    /\ Graphs \subseteq SUBSET Edge
    /\ Multipliers \subseteq [Nodes -> Nat]
    /\ Exclusions \subseteq SUBSET Nodes
    /\ MaxHops \in Nat
    /\ Infinity \notin Nat
    /\ NoNode \notin Nodes

VARIABLES
    query,     \* the graph and the arguments of the call
    dist,      \* best known cost of every node
    prev,      \* its predecessor
    heap,      \* heap entries, stale ones included
    visited,   \* settled nodes
    current,   \* the entry popped last, NoNode before the first pop
    pending,   \* edges of current's node that the inner loop has left
    cursor,    \* next node of the walk back, NoNode when it is over
    path,      \* nodes of the route found so far, from the target back
    phase      \* "search", "trace" or "done"

searchVars == <<query, dist, prev, heap, visited, current, pending, cursor, path, phase>>

Query == [edges : Graphs, source : Nodes, target : Nodes, multiplier : Multipliers,
          accessibleOnly : BOOLEAN, excluded : Exclusions]
HeapNode == [cost : Nat, node : Nodes]

TypeOK ==
    /\ query \in Query
    /\ dist \in [Nodes -> Nat \cup {Infinity}]
    /\ prev \in [Nodes -> Nodes \cup {NoNode}]
    /\ heap \in SUBSET HeapNode
    /\ visited \in SUBSET Nodes
    /\ current \in HeapNode \cup {NoNode}
    /\ pending \in SUBSET query.edges
    /\ cursor \in Nodes \cup {NoNode}
    /\ path \in Seq(Nodes)
    /\ phase \in {"search", "trace", "done"}

Init ==
    /\ query \in Query
    /\ dist = [n \in Nodes |-> IF n = query.source THEN 0 ELSE Infinity]
    /\ prev = [n \in Nodes |-> NoNode]
    /\ heap = {[cost |-> 0, node |-> query.source]}
    /\ visited = {}
    /\ current = NoNode
    /\ pending = {}
    /\ cursor = NoNode
    /\ path = <<>>
    /\ phase = "search"

-----------------------------------------------------------------------------

Usable(e) ==
    /\ e.to \notin query.excluded
    /\ query.accessibleOnly => e.accessible

\* Mutant: the multiplier of the zone that is left, as the method's docstring has it.
CostOfLeaving(e) == e.weight * query.multiplier[e.from]

\* The multiplier of the zone that is entered inflates the edge.
Cost(e) == e.weight * query.multiplier[e.to]

Better(c, n) == dist[n] = Infinity \/ c < dist[n]

Popped(h) ==
    /\ phase = "search" /\ pending = {}
    /\ h \in heap
    /\ \A g \in heap : h.cost <= g.cost
    /\ heap' = heap \ {h}
    /\ current' = h

\* Mutant: the entry of a settled node is looked at and left in the heap.
PeekStale(h) ==
    /\ phase = "search" /\ pending = {}
    /\ h \in heap
    /\ \A g \in heap : h.cost <= g.cost
    /\ current' = h
    /\ h.node \in visited
    /\ UNCHANGED <<query, dist, prev, heap, visited, pending, cursor, path, phase>>

\* A heap entry whose node was settled meanwhile.
SkipStale(h) ==
    /\ Popped(h)
    /\ h.node \in visited
    /\ UNCHANGED <<query, dist, prev, visited, pending, cursor, path, phase>>

\* A node is settled and its edges are looked at.
Expand(h) ==
    /\ Popped(h)
    /\ h.node \notin visited /\ h.node # query.target
    /\ visited' = visited \cup {h.node}
    /\ pending' = {e \in query.edges : e.from = h.node}
    /\ UNCHANGED <<query, dist, prev, cursor, path, phase>>

\* The loop is over: ([], inf), or the route is read back from the target.
LeaveLoop ==
    /\ phase' = IF dist[query.target] = Infinity THEN "done" ELSE "trace"
    /\ cursor' = query.target
    /\ UNCHANGED <<query, dist, prev, pending, path>>

\* The target is settled: break.
Arrive(h) ==
    /\ Popped(h)
    /\ h.node \notin visited /\ h.node = query.target
    /\ visited' = visited \cup {h.node}
    /\ LeaveLoop

\* Mutant: an edge into an excluded zone is followed.
RelaxExcluded(e) ==
    LET c == current.cost + Cost(e)
    IN  /\ e \in pending
        /\ pending' = pending \ {e}
        /\ IF (query.accessibleOnly => e.accessible) /\ Better(c, e.to)
           THEN /\ dist' = [dist EXCEPT ![e.to] = c]
                /\ prev' = [prev EXCEPT ![e.to] = current.node]
                /\ heap' = heap \cup {[cost |-> c, node |-> e.to]}
           ELSE UNCHANGED <<dist, prev, heap>>
        /\ UNCHANGED <<query, visited, current, cursor, path, phase>>

\* Mutant: the comparison is not strict, so that equal costs replace each other.
RelaxEqual(e) ==
    LET c == current.cost + Cost(e)
    IN  /\ e \in pending
        /\ pending' = pending \ {e}
        /\ IF Usable(e) /\ (dist[e.to] = Infinity \/ c <= dist[e.to])
           THEN /\ dist' = [dist EXCEPT ![e.to] = c]
                /\ prev' = [prev EXCEPT ![e.to] = current.node]
                /\ heap' = heap \cup {[cost |-> c, node |-> e.to]}
           ELSE UNCHANGED <<dist, prev, heap>>
        /\ UNCHANGED <<query, visited, current, cursor, path, phase>>

\* One edge of the settled node.
Relax(e) ==
    LET c == current.cost + Cost(e)
    IN  /\ e \in pending
        /\ pending' = pending \ {e}
        /\ IF Usable(e) /\ Better(c, e.to)
           THEN /\ dist' = [dist EXCEPT ![e.to] = c]
                /\ prev' = [prev EXCEPT ![e.to] = current.node]
                /\ heap' = heap \cup {[cost |-> c, node |-> e.to]}
           ELSE UNCHANGED <<dist, prev, heap>>
        /\ UNCHANGED <<query, visited, current, cursor, path, phase>>

\* The heap ran empty.
HeapEmpty ==
    /\ phase = "search" /\ pending = {} /\ heap = {}
    /\ LeaveLoop
    /\ UNCHANGED <<heap, visited, current>>

\* Mutant: the step back is taken before the node is appended.
TraceAhead ==
    /\ phase = "trace" /\ cursor # NoNode
    /\ path' = <<prev[cursor]>> \o path
    /\ cursor' = prev[cursor]
    /\ UNCHANGED <<query, dist, prev, heap, visited, current, pending, phase>>

\* One step back along prev.
TraceBack ==
    /\ phase = "trace" /\ cursor # NoNode
    /\ path' = <<cursor>> \o path
    /\ cursor' = prev[cursor]
    /\ UNCHANGED <<query, dist, prev, heap, visited, current, pending, phase>>

Return ==
    /\ phase = "trace" /\ cursor = NoNode
    /\ phase' = "done"
    /\ UNCHANGED <<query, dist, prev, heap, visited, current, pending, cursor, path>>

Next ==
    \/ \E h \in heap : SkipStale(h) \/ Expand(h) \/ Arrive(h)
    \/ \E e \in pending : Relax(e)
    \/ HeapEmpty \/ TraceBack \/ Return

Spec == Init /\ [][Next]_searchVars

-----------------------------------------------------------------------------
(* Walks of the graph, independently of the search.                         *)

\* The walks of n edges from the source to the target that the query allows.
Walks(n) ==
    {w \in [1 .. n -> query.edges] :
        /\ \A i \in 1 .. n : Usable(w[i])
        /\ \A i \in 1 .. n - 1 : w[i].to = w[i + 1].from
        /\ IF n = 0 THEN query.source = query.target
                    ELSE w[1].from = query.source /\ w[n].to = query.target}

\* An edge costs its weight times the multiplier of the zone it enters.
StepCost(e) == e.weight * query.multiplier[e.to]

\* Cost of the first i edges of a walk.
CostUpTo(n, w) ==
    LET sum[i \in 0 .. n] == IF i = 0 THEN 0 ELSE sum[i - 1] + StepCost(w[i])
    IN  sum

Found == phase = "done" /\ path # <<>>

(* graph.py:184-186, :210-212.  The early stop is sound: when the call      *)
(* returns, no walk the query allows is cheaper than the cost returned, and *)
(* when it returns ([], inf) there is no such walk.                         *)
Optimal ==
    phase = "done" =>
        \A n \in 0 .. MaxHops : \A w \in Walks(n) :
            Found /\ dist[query.target] <= CostUpTo(n, w)[n]

(* graph.py:214-222.  The route returned is a walk of the graph from source *)
(* to target that the query allows, enters no excluded zone, visits no zone *)
(* twice, and costs what the call says it costs.                            *)
RouteIsReal ==
    Found =>
        /\ path[1] = query.source /\ path[Len(path)] = query.target
        /\ \A i, j \in 1 .. Len(path) : path[i] = path[j] => i = j
        /\ \A i \in 1 .. Len(path) - 1 : \E e \in query.edges :
              /\ e.from = path[i] /\ e.to = path[i + 1]
              /\ Usable(e)
              /\ dist[path[i + 1]] = dist[path[i]] + StepCost(e)
        /\ dist[query.source] = 0

(* graph.py:177-182.  A settled node is never improved: the stale heap      *)
(* entries that are skipped carry no cheaper cost.                          *)
SettledIsFinal ==
    [][\A n \in visited : dist'[n] = dist[n] /\ prev'[n] = prev[n]]_searchVars

(* graph.py:174-222.  Every call returns: the heap drains although nodes    *)
(* are pushed again, and prev leads back to the source without a cycle.     *)
Terminates == <>(phase = "done")
=============================================================================
