---------------------------- MODULE GraphRouter ----------------------------
(***************************************************************************)
(* GraphRouter.find_route of domain/services/graph_router.py, the search of*)
(* the domain stack.  It is the search of ShortestPath with one difference *)
(* in its inner loop: an edge to a settled node is skipped before its cost *)
(* is computed.  A call from a zone to itself returns before it searches;  *)
(* the behaviours here are the other calls.                                *)
(***************************************************************************)
EXTENDS ShortestPath

RouterInit == Init /\ query.source # query.target

SkipSettled(e) ==
    /\ e \in pending
    /\ e.to \in visited
    /\ pending' = pending \ {e}
    /\ UNCHANGED <<query, dist, prev, heap, visited, current, cursor, path, phase>>

RelaxOpen(e) == e.to \notin visited /\ Relax(e)

RouterNext ==
    \/ \E h \in heap : SkipStale(h) \/ Expand(h) \/ Arrive(h)
    \/ \E e \in pending : SkipSettled(e) \/ RelaxOpen(e)
    \/ HeapEmpty \/ TraceBack \/ Return

RouterSpec == RouterInit /\ [][RouterNext]_searchVars
=============================================================================
