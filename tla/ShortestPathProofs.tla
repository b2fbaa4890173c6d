------------------------- MODULE ShortestPathProofs -------------------------
(***************************************************************************)
(* Proofs about ShortestPath and GraphRouter, for every graph with weights *)
(* in Nat.                                                                 *)
(*                                                                         *)
(* Inv is inductive.  Its heart is Ordered: the settled nodes cost no more *)
(* than what the heap holds, and no more than the entry whose edges are    *)
(* being relaxed.  With Covered, which says that the best entry of every   *)
(* open node is in the heap, it makes a settled node final; with Relaxed,  *)
(* which says that no edge of a settled node can improve anything, it      *)
(* bounds every walk from below when the search stops.                     *)
(***************************************************************************)
EXTENDS GraphRouter, WellFoundedInduction, TLAPS

(* Least elements and induction, stated with sets in place of predicates.   *)

NatLess == {p \in Nat \X Nat : p[1] < p[2]}

(* Less-than on the naturals is well founded.                               *)
LEMMA NatLessWF == IsWellFoundedOn(NatLess, Nat)
<1>1. NatLess = OpToRel(<, Nat)
  BY DEF NatLess, OpToRel
<1> QED BY <1>1, NatLessThanWellFounded

(* Every nonempty set of naturals has a least element.                     *)
LEMMA LeastNat ==
  ASSUME NEW T \in SUBSET Nat, T # {}
  PROVE  \E x \in T : \A y \in T : x <= y
<1>1. PICK x \in T : \A y \in T : ~ (<<y, x>> \in NatLess)
  BY NatLessWF, WFMin
<1>2. ASSUME NEW y \in T PROVE x <= y
  <2>1. x \in Nat /\ y \in Nat /\ ~ (<<y, x>> \in NatLess)
    BY <1>1
  <2>2. ~(y < x)
    BY <2>1 DEF NatLess
  <2> QED BY <2>1, <2>2
<1> QED BY <1>2

(* Induction, stated on the set of the numbers that have the property.      *)
LEMMA SetInduction ==
  ASSUME NEW S \in SUBSET Nat, 0 \in S, \A n \in S : n + 1 \in S
  PROVE S = Nat
<1> SUFFICES ASSUME Nat \ S # {} PROVE FALSE
  OBVIOUS
<1>1. PICK x \in Nat \ S : \A y \in Nat \ S : x <= y
  BY LeastNat
<1>2. x # 0 /\ x - 1 \in Nat /\ ~(x <= x - 1)
  OBVIOUS
<1>3. x - 1 \in S
  BY <1>1, <1>2
<1> QED BY <1>2, <1>3

-----------------------------------------------------------------------------

Known(n) == dist[n] # Infinity

\* The source costs nothing.
SourceIsZero == dist[query.source] = 0

\* The edges still to be looked at leave the node of the entry popped last.
Focused ==
    pending # {} =>
        /\ phase = "search"
        /\ current \in HeapNode
        /\ current.node \in visited /\ current.node # query.target
        /\ current.cost = dist[current.node]
        /\ \A e \in pending : e.from = current.node
        /\ \A v \in visited : Known(v) /\ dist[v] <= current.cost

\* Settled nodes cost no more than any entry of the heap.
Ordered ==
    /\ \A v \in visited : Known(v)
    /\ \A v \in visited, h \in heap : dist[v] <= h.cost

\* The best entry of an open node is in the heap ...
Covered ==
    \A u \in Nodes \ visited :
        Known(u) => [cost |-> dist[u], node |-> u] \in heap

\* ... and no entry promises more than is known.
Honest == \A h \in heap : Known(h.node) /\ dist[h.node] <= h.cost

\* An edge of a settled node improves nothing any more.
Relaxed ==
    \A e \in query.edges :
        /\ e.from \in visited /\ e.from # query.target
        /\ Usable(e) /\ e \notin pending
        => Known(e.to) /\ dist[e.to] <= dist[e.from] + Cost(e)

\* How the search ends.
Ended ==
    /\ phase = "search" => query.target \notin visited
    /\ phase # "search" /\ Known(query.target) => query.target \in visited
    /\ phase # "search" /\ ~ Known(query.target) => heap = {}
    /\ phase = "trace" => cursor # NoNode \/ path # <<>>
    /\ phase = "trace" => Known(query.target)
    /\ phase = "done" /\ Known(query.target) => path # <<>>

Inv ==
    /\ TypeOK
    /\ SourceIsZero
    /\ Focused
    /\ Ordered
    /\ Covered
    /\ Honest
    /\ Relaxed
    /\ Ended
-----------------------------------------------------------------------------

(* What the type of the query says of its parts.                            *)
LEMMA QueryTypes ==
  ASSUME query \in Query
  PROVE  /\ query.edges \subseteq Edge
         /\ query.source \in Nodes /\ query.target \in Nodes
         /\ query.multiplier \in [Nodes -> Nat]
         /\ query.edges \in Graphs
<1>1. /\ query.edges \in Graphs /\ query.multiplier \in Multipliers
      /\ query.source \in Nodes /\ query.target \in Nodes
  BY DEF Query
<1> QED BY <1>1, GraphAssumption

(* An edge has its ends in the graph and a cost in Nat.                     *)
LEMMA EdgeTypes ==
  ASSUME query \in Query, NEW e \in query.edges
  PROVE  e.from \in Nodes /\ e.to \in Nodes /\ Cost(e) \in Nat /\ StepCost(e) = Cost(e)
<1>1. e \in Edge
  BY QueryTypes
<1>2. e.from \in Nodes /\ e.to \in Nodes /\ e.weight \in Nat
  BY <1>1 DEF Edge
<1>3. query.multiplier[e.to] \in Nat
  BY <1>2, QueryTypes
<1>4. \A x, y \in Nat : x * y \in Nat
  OBVIOUS
<1> QED BY <1>2, <1>3, <1>4 DEF Cost, StepCost

LEMMA InitInv == Init => Inv
<1> SUFFICES ASSUME Init PROVE Inv
  OBVIOUS
<1>1. query \in Query /\ query.source \in Nodes /\ query.target \in Nodes
  BY QueryTypes DEF Init
<1>2. TypeOK
  <2>1. [cost |-> 0, node |-> query.source] \in HeapNode
    BY <1>1 DEF HeapNode
  <2>2. <<>> \in Seq(Nodes)
    OBVIOUS
  <2> QED BY <1>1, <2>1, <2>2 DEF Init, TypeOK
<1>3. SourceIsZero /\ Focused /\ Relaxed /\ Ended
  BY <1>1, GraphAssumption DEF Init, SourceIsZero, Focused, Relaxed, Ended
<1>4. Ordered /\ Covered /\ Honest
  BY <1>1, GraphAssumption DEF Init, Ordered, Covered, Honest, Known
<1> QED BY <1>2, <1>3, <1>4 DEF Inv

(* The cheapest entry of an open node carries the best cost known.          *)
LEMMA PoppedIsBest ==
  ASSUME Inv, NEW h \in heap, \A g \in heap : h.cost <= g.cost, h.node \notin visited
  PROVE  Known(h.node) /\ h.cost = dist[h.node]
<1>1. h.cost \in Nat /\ h.node \in Nodes
  BY DEF Inv, TypeOK, HeapNode
<1>2. Known(h.node) /\ dist[h.node] <= h.cost
  BY DEF Inv, Honest
<1>3. [cost |-> dist[h.node], node |-> h.node] \in heap
  BY <1>1, <1>2 DEF Inv, Covered
<1>4. h.cost <= dist[h.node]
  BY <1>3
<1>5. dist[h.node] \in Nat
  BY <1>1, <1>2 DEF Inv, TypeOK, Known
<1> QED BY <1>1, <1>2, <1>4, <1>5

LEMMA SkipStaleInv ==
  ASSUME Inv, NEW h \in heap, SkipStale(h)
  PROVE  Inv'
<1>1. TypeOK'
  BY DEF Inv, TypeOK, SkipStale, Popped
<1>2. SourceIsZero' /\ Relaxed' /\ Ordered' /\ Honest'
  BY DEF Inv, SourceIsZero, Relaxed, Ordered, Honest, Known, SkipStale, Popped,
         Usable, Cost
<1>3. Focused' /\ Ended'
  BY DEF Inv, Focused, Ended, Known, SkipStale, Popped
<1>4. Covered'
  <2> SUFFICES ASSUME NEW u \in Nodes \ visited, Known(u)
               PROVE  [cost |-> dist[u], node |-> u] \in heap \ {h}
    BY DEF Covered, Known, SkipStale, Popped
  <2>1. [cost |-> dist[u], node |-> u] \in heap
    BY DEF Inv, Covered
  <2>2. [cost |-> dist[u], node |-> u] # h
    BY DEF SkipStale
  <2> QED BY <2>1, <2>2
<1> QED BY <1>1, <1>2, <1>3, <1>4 DEF Inv

(* What settling a node preserves, whether it is the target or not.         *)
LEMMA Settling ==
  ASSUME Inv, NEW h \in heap, Popped(h), h.node \notin visited,
         visited' = visited \cup {h.node}, UNCHANGED <<query, dist, prev>>
  PROVE  /\ h \in HeapNode /\ h.cost = dist[h.node]
         /\ SourceIsZero' /\ Ordered' /\ Covered' /\ Honest'
         /\ \A v \in visited' : Known(v) /\ dist[v] <= h.cost
<1>1. Known(h.node) /\ h.cost = dist[h.node]
  BY PoppedIsBest DEF Popped
<1>2. h \in HeapNode /\ h.cost \in Nat
  BY DEF Inv, TypeOK, HeapNode
<1>3. \A v \in visited' : Known(v) /\ dist[v] <= h.cost
  BY <1>1, <1>2 DEF Inv, Ordered
<1>4. Ordered'
  <2>1. \A v \in visited' : Known(v)'
    BY <1>3 DEF Known
  <2>2. ASSUME NEW v \in visited', NEW g \in heap'
        PROVE  dist'[v] <= g.cost
    <3>1. g \in heap /\ h.cost <= g.cost
      BY DEF Popped
    <3>2. CASE v = h.node
      BY <1>1, <3>1, <3>2
    <3>3. CASE v \in visited
      BY <3>1, <3>3 DEF Inv, Ordered
    <3> QED BY <3>2, <3>3
  <2> QED BY <2>1, <2>2 DEF Ordered
<1>5. Covered'
  <2> SUFFICES ASSUME NEW u \in Nodes \ visited', Known(u)
               PROVE  [cost |-> dist[u], node |-> u] \in heap \ {h}
    BY DEF Covered, Known, Popped
  <2>1. [cost |-> dist[u], node |-> u] \in heap
    BY DEF Inv, Covered
  <2>2. [cost |-> dist[u], node |-> u] # h
    OBVIOUS
  <2> QED BY <2>1, <2>2
<1>6. SourceIsZero' /\ Honest'
  BY DEF Inv, SourceIsZero, Honest, Known, Popped
<1> QED BY <1>1, <1>2, <1>3, <1>4, <1>5, <1>6

LEMMA ExpandInv ==
  ASSUME Inv, NEW h \in heap, Expand(h)
  PROVE  Inv'
<1>0. Popped(h) /\ h.node \notin visited /\ UNCHANGED <<query, dist, prev>>
      /\ visited' = visited \cup {h.node}
  BY DEF Expand
<1>1. h \in HeapNode /\ h.cost = dist[h.node]
      /\ SourceIsZero' /\ Ordered' /\ Covered' /\ Honest'
      /\ \A v \in visited' : Known(v) /\ dist[v] <= h.cost
  BY <1>0, Settling
<1>2. TypeOK'
  <2>1. h.node \in Nodes
    BY <1>1 DEF HeapNode
  <2> QED BY <1>0, <1>1, <2>1 DEF Inv, TypeOK, Expand, Popped
<1>3. Focused'
  <2>1. phase' = "search" /\ current' = h /\ \A e \in pending' : e.from = h.node
    BY DEF Expand, Popped
  <2>2. h.node \in visited' /\ h.node # query.target /\ query' = query /\ dist' = dist
    BY DEF Expand
  <2> QED BY <1>1, <2>1, <2>2 DEF Focused, Known
<1>4. Relaxed'
  <2> SUFFICES ASSUME NEW e \in query.edges, e.from \in visited', e.from # query.target,
                      Usable(e), e \notin pending'
               PROVE  Known(e.to) /\ dist[e.to] <= dist[e.from] + Cost(e)
    BY <1>0 DEF Relaxed, Known, Usable, Cost
  <2>1. e.from # h.node /\ e \notin pending
    BY DEF Expand, Popped
  <2> QED BY <1>0, <2>1 DEF Inv, Relaxed
<1>5. Ended'
  BY DEF Inv, Ended, Known, Expand, Popped
<1> QED BY <1>1, <1>2, <1>3, <1>4, <1>5 DEF Inv

LEMMA ArriveInv ==
  ASSUME Inv, NEW h \in heap, Arrive(h)
  PROVE  Inv'
<1>0. Popped(h) /\ h.node \notin visited /\ UNCHANGED <<query, dist, prev, pending, path>>
      /\ visited' = visited \cup {h.node} /\ h.node = query.target
  BY DEF Arrive, LeaveLoop
<1>1. h \in HeapNode /\ h.cost = dist[h.node]
      /\ SourceIsZero' /\ Ordered' /\ Covered' /\ Honest'
      /\ \A v \in visited' : Known(v) /\ dist[v] <= h.cost
  BY <1>0, Settling
<1>2. phase' = "trace" /\ cursor' = query.target /\ pending = {}
  BY <1>0, <1>1 DEF Arrive, LeaveLoop, Popped, Known
<1>3. TypeOK'
  <2>1. h.node \in Nodes
    BY <1>1 DEF HeapNode
  <2> QED BY <1>0, <1>1, <1>2, <2>1 DEF Inv, TypeOK, Popped
<1>4. Focused'
  BY <1>0, <1>2 DEF Focused
<1>5. Relaxed'
  <2> SUFFICES ASSUME NEW e \in query.edges, e.from \in visited', e.from # query.target,
                      Usable(e), e \notin pending
               PROVE  Known(e.to) /\ dist[e.to] <= dist[e.from] + Cost(e)
    BY <1>0 DEF Relaxed, Known, Usable, Cost
  <2> QED BY <1>0 DEF Inv, Relaxed
<1>6. Ended'
  <2>1. Known(query.target) /\ query.target \in visited' /\ cursor' # NoNode
    BY <1>0, <1>1, <1>2, QueryTypes, GraphAssumption DEF Inv, TypeOK
  <2> QED BY <1>0, <1>2, <2>1 DEF Ended, Known
<1> QED BY <1>1, <1>3, <1>4, <1>5, <1>6 DEF Inv

(* An improvement only ever reaches an open node other than the source.     *)
LEMMA OnlyOpenImproves ==
  ASSUME Inv, NEW e \in pending, Better(current.cost + Cost(e), e.to)
  PROVE  e.to \notin visited /\ e.to # query.source
<1> DEFINE c == current.cost + Cost(e)
<1>1. e \in query.edges /\ e.to \in Nodes /\ Cost(e) \in Nat
  BY EdgeTypes DEF Inv, TypeOK
<1>2. current.cost \in Nat /\ \A v \in visited : Known(v) /\ dist[v] <= current.cost
  BY DEF Inv, Focused, HeapNode
<1>3. c \in Nat /\ current.cost <= c
  BY <1>1, <1>2
<1>4. e.to \notin visited
  <2> SUFFICES ASSUME e.to \in visited PROVE FALSE
    OBVIOUS
  <2>1. Known(e.to) /\ dist[e.to] <= current.cost /\ dist[e.to] \in Nat
    BY <1>1, <1>2 DEF Inv, TypeOK, Known
  <2>2. c < dist[e.to]
    BY <2>1 DEF Better, Known
  <2> QED BY <1>2, <1>3, <2>1, <2>2
<1>5. e.to # query.source
  <2> SUFFICES ASSUME e.to = query.source PROVE FALSE
    OBVIOUS
  <2>1. dist[e.to] = 0 /\ Infinity # 0
    BY GraphAssumption DEF Inv, SourceIsZero
  <2>2. c < 0
    BY <2>1 DEF Better
  <2> QED BY <1>3, <2>2
<1> QED BY <1>4, <1>5

LEMMA RelaxInv ==
  ASSUME Inv, NEW e \in pending, Relax(e)
  PROVE  Inv'
<1> DEFINE c == current.cost + Cost(e)
           better == Usable(e) /\ Better(c, e.to)
<1>0. /\ e \in query.edges /\ e.to \in Nodes /\ e.from \in Nodes /\ Cost(e) \in Nat
      /\ query \in Query /\ phase = "search"
      /\ current \in HeapNode /\ current.cost \in Nat /\ current.node \in Nodes
      /\ e.from = current.node /\ current.cost = dist[current.node]
      /\ \A v \in visited : Known(v) /\ dist[v] <= current.cost
  BY EdgeTypes DEF Inv, TypeOK, Focused, HeapNode
<1>1. c \in Nat /\ current.cost <= c
  BY <1>0
<1>2. UNCHANGED <<query, visited, current, cursor, path, phase>> /\ pending' = pending \ {e}
  BY DEF Relax
<1>3. CASE ~ better
  <2>1. UNCHANGED <<dist, prev, heap>>
    BY <1>3 DEF Relax
  <2>2. Usable(e) => Known(e.to) /\ dist[e.to] <= dist[e.from] + Cost(e)
    <3> SUFFICES ASSUME Usable(e)
                 PROVE  Known(e.to) /\ dist[e.to] <= c
      BY <1>0
    <3>1. Known(e.to) /\ ~ (c < dist[e.to])
      BY <1>3 DEF Better, Known
    <3>2. dist[e.to] \in Nat
      BY <1>0, <3>1 DEF Inv, TypeOK, Known
    <3> QED BY <1>1, <3>1, <3>2
  <2>3. Relaxed'
    BY <1>2, <2>1, <2>2 DEF Inv, Relaxed, Known, Usable, Cost
  <2>4. TypeOK' /\ SourceIsZero' /\ Focused'
    BY <1>2, <2>1 DEF Inv, TypeOK, SourceIsZero, Focused, Known
  <2>5. Ordered' /\ Covered' /\ Honest' /\ Ended'
    BY <1>2, <2>1 DEF Inv, Ordered, Covered, Honest, Ended, Known
  <2> QED BY <2>3, <2>4, <2>5 DEF Inv
<1>4. CASE better
  <2> DEFINE entry == [cost |-> c, node |-> e.to]
  <2>1. /\ dist' = [dist EXCEPT ![e.to] = c]
        /\ prev' = [prev EXCEPT ![e.to] = current.node]
        /\ heap' = heap \cup {entry}
    BY <1>4 DEF Relax
  <2>2. entry \in HeapNode
    BY <1>0, <1>1 DEF HeapNode
  <2>3. dist \in [Nodes -> Nat \cup {Infinity}] /\ visited \in SUBSET Nodes
    BY DEF Inv, TypeOK
  <2>4. e.to \notin visited /\ e.to # query.source
    BY <1>4, OnlyOpenImproves
  <2>5. dist'[e.to] = c /\ \A n \in Nodes \ {e.to} : dist'[n] = dist[n]
    BY <1>0, <2>1, <2>3
  <2>6. \A v \in visited : dist'[v] = dist[v]
    BY <2>3, <2>4, <2>5
  <2>7. TypeOK'
    <3>1. dist' \in [Nodes -> Nat \cup {Infinity}]
      BY <1>0, <1>1, <2>1, <2>3
    <3>2. prev' \in [Nodes -> Nodes \cup {NoNode}]
      BY <1>0, <2>1 DEF Inv, TypeOK
    <3>3. heap' \in SUBSET HeapNode
      BY <2>1, <2>2 DEF Inv, TypeOK
    <3> QED BY <1>2, <3>1, <3>2, <3>3 DEF Inv, TypeOK
  <2>8. SourceIsZero'
    BY <1>0, <1>2, <2>4, <2>5, QueryTypes DEF Inv, SourceIsZero
  <2>9. Focused'
    <3>1. \A v \in visited : Known(v)' /\ dist'[v] <= current.cost
      BY <1>0, <2>6 DEF Known
    <3>2. current.node \in visited /\ current.node # query.target
      BY DEF Inv, Focused
    <3>3. current.cost = dist'[current.node]
      BY <1>0, <2>6, <3>2
    <3>4. \A f \in pending' : f.from = current.node
      BY <1>2 DEF Inv, Focused
    <3> QED BY <1>0, <1>2, <3>1, <3>2, <3>3, <3>4 DEF Focused
  <2>10. Ordered'
    <3>1. \A v \in visited : Known(v)'
      BY <1>0, <2>6 DEF Known
    <3>2. \A v \in visited : dist'[v] <= c
      <4> SUFFICES ASSUME NEW v \in visited PROVE dist[v] <= c
        BY <2>6
      <4>1. dist[v] \in Nat /\ dist[v] <= current.cost
        BY <1>0, <2>3 DEF Known
      <4> QED BY <1>0, <1>1, <4>1
    <3>3. \A v \in visited, g \in heap : dist'[v] <= g.cost
      BY <2>6 DEF Inv, Ordered
    <3>4. entry.cost = c
      OBVIOUS
    <3>5. \A v \in visited', g \in heap' : dist'[v] <= g.cost
      BY <1>2, <2>1, <3>2, <3>3, <3>4
    <3> QED BY <1>2, <3>1, <3>5 DEF Ordered
  <2>11. Covered'
    <3> SUFFICES ASSUME NEW u \in Nodes \ visited, Known(u)'
                 PROVE  [cost |-> dist'[u], node |-> u] \in heap'
      BY <1>2 DEF Covered
    <3>1. CASE u = e.to
      BY <2>1, <2>5, <3>1
    <3>2. CASE u # e.to
      <4>1. dist'[u] = dist[u] /\ Known(u)
        BY <2>5, <3>2 DEF Known
      <4> QED BY <2>1, <4>1 DEF Inv, Covered
    <3> QED BY <3>1, <3>2
  <2>12. Honest'
    <3> SUFFICES ASSUME NEW g \in heap' PROVE Known(g.node)' /\ dist'[g.node] <= g.cost
      BY DEF Honest
    <3>1. c # Infinity
      BY <1>1, GraphAssumption
    <3>2. CASE g = entry
      BY <1>1, <2>5, <3>1, <3>2 DEF Known
    <3>3. CASE g \in heap
      <4>1. Known(g.node) /\ dist[g.node] <= g.cost /\ g.node \in Nodes /\ g.cost \in Nat
        BY <3>3 DEF Inv, TypeOK, Honest, HeapNode
      <4>2. CASE g.node # e.to
        BY <2>5, <4>1, <4>2 DEF Known
      <4>3. CASE g.node = e.to
        <5>1. c < dist[e.to] /\ dist[e.to] \in Nat
          BY <1>4, <2>3, <4>1, <4>3 DEF Better, Known
        <5>2. c <= g.cost
          BY <1>1, <4>1, <4>3, <5>1
        <5> QED BY <2>5, <3>1, <4>3, <5>2 DEF Known
      <4> QED BY <4>2, <4>3
    <3> QED BY <2>1, <3>2, <3>3
  <2>13. Relaxed'
    <3> SUFFICES ASSUME NEW f \in query.edges, f.from \in visited, f.from # query.target,
                        Usable(f), f \notin pending \ {e}
                 PROVE  Known(f.to)' /\ dist'[f.to] <= dist'[f.from] + Cost(f)
      BY <1>2 DEF Relaxed, Usable, Cost
    <3>1. /\ f.from \in Nodes /\ f.to \in Nodes /\ Cost(f) \in Nat
          /\ dist'[f.from] = dist[f.from] /\ dist[f.from] \in Nat
      BY <1>0, <2>3, <2>6, EdgeTypes DEF Known
    <3>2. CASE f = e
      BY <1>0, <1>1, <2>5, <3>1, <3>2, GraphAssumption DEF Known
    <3>3. CASE f # e
      <4>1. Known(f.to) /\ dist[f.to] <= dist[f.from] + Cost(f) /\ dist[f.to] \in Nat
        BY <2>3, <3>1, <3>3 DEF Inv, Relaxed, Known
      <4>2. CASE f.to # e.to
        BY <2>5, <3>1, <4>1, <4>2 DEF Known
      <4>3. CASE f.to = e.to
        <5>1. c < dist[e.to]
          BY <1>4, <4>1, <4>3 DEF Better, Known
        <5>2. c <= dist[f.from] + Cost(f)
          BY <1>1, <3>1, <4>1, <4>3, <5>1
        <5> QED BY <1>1, <2>5, <3>1, <4>3, <5>2, GraphAssumption DEF Known
      <4> QED BY <4>2, <4>3
    <3> QED BY <3>2, <3>3
  <2>14. Ended'
    BY <1>0, <1>2 DEF Inv, Ended
  <2> QED BY <2>7, <2>8, <2>9, <2>10, <2>11, <2>12, <2>13, <2>14 DEF Inv
<1> QED BY <1>3, <1>4

LEMMA HeapEmptyInv ==
  ASSUME Inv, HeapEmpty
  PROVE  Inv'
<1>0. /\ UNCHANGED <<query, dist, prev, heap, visited, current, pending, path>>
      /\ cursor' = query.target /\ heap = {} /\ pending = {} /\ phase = "search"
  BY DEF HeapEmpty, LeaveLoop
<1>1. query.target \in Nodes
  BY QueryTypes DEF Inv, TypeOK
<1>2. ~ Known(query.target) /\ phase' = "done"
  <2>1. query.target \notin visited
    BY <1>0 DEF Inv, Ended
  <2>2. ~ Known(query.target)
    BY <1>0, <1>1, <2>1 DEF Inv, Covered
  <2> QED BY <2>2 DEF HeapEmpty, LeaveLoop, Known
<1>3. TypeOK' /\ SourceIsZero' /\ Focused'
  BY <1>0, <1>1, <1>2 DEF Inv, TypeOK, SourceIsZero, Focused
<1>4. Ordered' /\ Covered' /\ Honest' /\ Relaxed'
  BY <1>0 DEF Inv, Ordered, Covered, Honest, Relaxed, Known, Usable, Cost
<1>5. Ended'
  BY <1>0, <1>2 DEF Ended, Known
<1> QED BY <1>3, <1>4, <1>5 DEF Inv

LEMMA TracingInv ==
  ASSUME Inv, TraceBack \/ Return
  PROVE  Inv'
<1>0. /\ UNCHANGED <<query, dist, prev, heap, visited, current, pending>>
      /\ phase = "trace" /\ phase' \in {"trace", "done"} /\ pending = {}
  BY DEF TraceBack, Return, Inv, Focused
<1>1. SourceIsZero' /\ Focused' /\ Ordered' /\ Covered' /\ Honest' /\ Relaxed'
  BY <1>0 DEF Inv, SourceIsZero, Focused, Ordered, Covered, Honest, Relaxed,
              Known, Usable, Cost
<1>2. CASE TraceBack
  <2>1. cursor \in Nodes /\ prev[cursor] \in Nodes \cup {NoNode}
    BY <1>2 DEF TraceBack, Inv, TypeOK
  <2>2. path' \in Seq(Nodes) /\ path' # <<>>
    <3>1. path \in Seq(Nodes) /\ path' = <<cursor>> \o path
      BY <1>2 DEF TraceBack, Inv, TypeOK
    <3>2. path' \in Seq(Nodes) /\ Len(path') = 1 + Len(path)
      BY <2>1, <3>1
    <3>3. Len(path) \in Nat /\ Len(<<>>) = 0
      BY <3>1
    <3> QED BY <3>2, <3>3
  <2>3. TypeOK'
    BY <1>0, <1>2, <2>1, <2>2 DEF TraceBack, Inv, TypeOK
  <2>4. Ended'
    BY <1>0, <1>2, <2>2 DEF TraceBack, Inv, Ended, Known
  <2> QED BY <1>1, <2>3, <2>4 DEF Inv
<1>3. CASE Return
  <2>1. TypeOK'
    BY <1>0, <1>3 DEF Return, Inv, TypeOK
  <2>2. Ended'
    BY <1>0, <1>3 DEF Return, Inv, Ended, Known
  <2> QED BY <1>1, <2>1, <2>2 DEF Inv
<1> QED BY <1>2, <1>3

LEMMA NextInv == Inv /\ [Next]_searchVars => Inv'
<1> SUFFICES ASSUME Inv, [Next]_searchVars PROVE Inv'
  OBVIOUS
<1>1. ASSUME NEW h \in heap, SkipStale(h) \/ Expand(h) \/ Arrive(h) PROVE Inv'
  BY <1>1, SkipStaleInv, ExpandInv, ArriveInv
<1>2. ASSUME NEW e \in pending, Relax(e) PROVE Inv'
  BY <1>2, RelaxInv
<1>3. CASE HeapEmpty
  BY <1>3, HeapEmptyInv
<1>4. CASE TraceBack \/ Return
  BY <1>4, TracingInv
<1>5. CASE UNCHANGED searchVars
  BY <1>5 DEF searchVars, Inv, TypeOK, SourceIsZero, Focused, Ordered, Covered, Honest,
              Relaxed, Ended, Known, Usable, Cost
<1> QED BY <1>1, <1>2, <1>3, <1>4, <1>5 DEF Next

(* Inv holds in every state of every search.                                *)
THEOREM Invariance == Spec => []Inv
<1>1. QED BY InitInv, NextInv, PTL DEF Spec

(* graph.py:160-222.  Every variable of a search keeps its type, for every *)
(* graph and every query.                                                   *)
THEOREM TypeCorrect == Spec => []TypeOK
<1>1. Inv => TypeOK
  BY DEF Inv
<1> QED BY <1>1, Invariance, PTL

-----------------------------------------------------------------------------

(* graph.py:177-182.  Once a node is settled no step changes its cost or    *)
(* its predecessor, so that skipping its stale heap entries loses nothing.  *)
THEOREM SettledStaysFinal == Spec => SettledIsFinal
<1> DEFINE Kept == \A n \in visited : dist'[n] = dist[n] /\ prev'[n] = prev[n]
<1>1. Inv /\ [Next]_searchVars => [Kept]_searchVars
  <2> SUFFICES ASSUME Inv, Next PROVE Kept
    BY DEF searchVars
  <2>1. ASSUME NEW e \in pending, Relax(e) PROVE Kept
    <3> DEFINE c == current.cost + Cost(e)
    <3>1. CASE Usable(e) /\ Better(c, e.to)
      <4>1. e.to \notin visited
        BY <3>1, OnlyOpenImproves
      <4>2. /\ dist' = [dist EXCEPT ![e.to] = c]
            /\ prev' = [prev EXCEPT ![e.to] = current.node]
        BY <2>1, <3>1 DEF Relax
      <4> QED BY <4>1, <4>2 DEF Inv, TypeOK
    <3>2. CASE ~ (Usable(e) /\ Better(c, e.to))
      BY <2>1, <3>2 DEF Relax
    <3> QED BY <3>1, <3>2
  <2>2. ASSUME NEW h \in heap, SkipStale(h) \/ Expand(h) \/ Arrive(h) PROVE Kept
    BY <2>2 DEF SkipStale, Expand, Arrive, LeaveLoop
  <2>3. CASE HeapEmpty \/ TraceBack \/ Return
    BY <2>3 DEF HeapEmpty, LeaveLoop, TraceBack, Return
  <2> QED BY <2>1, <2>2, <2>3 DEF Next
<1>2. [][Next]_searchVars /\ []Inv => [][Kept]_searchVars
  BY <1>1, PTL
<1> QED BY <1>2, Invariance DEF Spec, SettledIsFinal

(* What CostUpTo computes.                                                  *)
LEMMA WalkCost ==
  ASSUME query \in Query, NEW n \in Nat, NEW w \in [1 .. n -> query.edges]
  PROVE  /\ CostUpTo(n, w)[0] = 0
         /\ \A i \in 1 .. n : /\ CostUpTo(n, w)[i - 1] \in Nat
                              /\ CostUpTo(n, w)[i] = CostUpTo(n, w)[i - 1] + StepCost(w[i])
         /\ CostUpTo(n, w)[n] \in Nat
<1> DEFINE Sums(g, k) == [i \in 0 .. k |-> IF i = 0 THEN 0 ELSE g[i - 1] + StepCost(w[i])]
           HasSums(k) == \E g \in [0 .. k -> Nat] : g = Sums(g, k)
           S == {k \in Nat : k <= n => HasSums(k)}
           f == CostUpTo(n, w)
<1>0. \A i \in 1 .. n : StepCost(w[i]) \in Nat
  BY EdgeTypes
<1>1. 0 \in S
  <2>1. [i \in 0 .. 0 |-> 0] \in [0 .. 0 -> Nat]
    OBVIOUS
  <2>2. \A i \in 0 .. 0 : i = 0
    OBVIOUS
  <2>3. [i \in 0 .. 0 |-> 0] = Sums([i \in 0 .. 0 |-> 0], 0)
    BY <2>2
  <2> QED BY <2>1, <2>3
<1>2. \A k \in S : k + 1 \in S
  <2> HIDE DEF HasSums
  <2> SUFFICES ASSUME NEW k \in Nat, k + 1 <= n, HasSums(k) PROVE HasSums(k + 1)
    BY Z3
  <2> USE DEF HasSums
  <2>1. PICK g \in [0 .. k -> Nat] : g = Sums(g, k)
    OBVIOUS
  <2> DEFINE x == g[k] + StepCost(w[k + 1])
             h == [i \in 0 .. k + 1 |-> IF i = k + 1 THEN x ELSE g[i]]
  <2>2. x \in Nat
    <3>1. g[k] \in Nat /\ StepCost(w[k + 1]) \in Nat
      BY <1>0
    <3> HIDE DEF Sums
    <3> QED BY <3>1
  <2>3. h \in [0 .. k + 1 -> Nat]
    BY <2>2
  <2>4. ASSUME NEW i \in 0 .. k + 1
        PROVE  h[i] = IF i = 0 THEN 0 ELSE h[i - 1] + StepCost(w[i])
    <3>1. CASE i = k + 1
      <4>1. i # 0 /\ i - 1 = k /\ k \in 0 .. k + 1 /\ k # k + 1
        BY <3>1
      <4>2. h[i] = x /\ h[i - 1] = g[k]
        BY <3>1, <4>1
      <4> QED BY <3>1, <4>1, <4>2
    <3>2. CASE i # k + 1
      <4>1. i \in 0 .. k /\ h[i] = g[i]
        BY <3>2
      <4>2. g[i] = IF i = 0 THEN 0 ELSE g[i - 1] + StepCost(w[i])
        BY <2>1, <4>1
      <4>3. i # 0 => h[i - 1] = g[i - 1]
        BY <4>1
      <4> QED BY <4>1, <4>2, <4>3
    <3> QED BY <3>1, <3>2
  <2>5. h = Sums(h, k + 1)
    BY <2>4
  <2> QED BY <2>3, <2>5
<1>3. S = Nat
  <2>1. S \in SUBSET Nat
    OBVIOUS
  <2> HIDE DEF S
  <2> QED BY <1>1, <1>2, <2>1, SetInduction
<1>4. \E g : g = Sums(g, n)
  <2>1. n \in S
    BY <1>3
  <2> QED BY <2>1
<1>5. f = Sums(f, n)
  <2>1. f = CHOOSE g : g = Sums(g, n)
    BY DEF CostUpTo
  <2> HIDE DEF f, Sums
  <2> QED BY <1>4, <2>1
<1>6. f[0] = 0 /\ \A i \in 1 .. n : f[i] = f[i - 1] + StepCost(w[i])
  <2> HIDE DEF f
  <2>1. \A i \in 0 .. n : f[i] = IF i = 0 THEN 0 ELSE f[i - 1] + StepCost(w[i])
    BY <1>5
  <2> QED BY <2>1
<1> DEFINE T == {k \in Nat : k <= n => f[k] \in Nat}
<1>7. T = Nat
  <2>1. 0 \in T
    BY <1>6
  <2>2. \A k \in T : k + 1 \in T
    <3> SUFFICES ASSUME NEW k \in Nat, f[k] \in Nat, k + 1 <= n PROVE f[k + 1] \in Nat
      OBVIOUS
    <3>1. k + 1 \in 1 .. n /\ (k + 1) - 1 = k
      OBVIOUS
    <3>2. f[k + 1] = f[k] + StepCost(w[k + 1])
      BY <1>6, <3>1
    <3>3. StepCost(w[k + 1]) \in Nat
      BY <1>0, <3>1
    <3> HIDE DEF f
    <3> QED BY <3>2, <3>3
  <2>3. T \in SUBSET Nat
    OBVIOUS
  <2> HIDE DEF T
  <2> QED BY <2>1, <2>2, <2>3, SetInduction
<1>8. \A k \in 0 .. n : f[k] \in Nat
  BY <1>7
<1> HIDE DEF f
<1>9. \A i \in 1 .. n : f[i - 1] \in Nat
  BY <1>8
<1> QED BY <1>6, <1>8, <1>9 DEF f

(* When the search is over, no allowed walk undercuts the cost found.  The *)
(* induction follows the walk: until the target has been undercut, each of  *)
(* its zones is settled at no more than the walk has cost so far.           *)
LEMMA WalkBound ==
  ASSUME Inv, phase = "done", NEW n \in Nat, NEW w \in Walks(n)
  PROVE  Known(query.target) /\ dist[query.target] <= CostUpTo(n, w)[n]
<1> DEFINE f == CostUpTo(n, w)
           At(i) == IF i = 0 THEN query.source ELSE w[i].to
           Beaten(i) == Known(query.target) /\ dist[query.target] <= f[i]
           Follows(i) == At(i) \in visited /\ At(i) # query.target /\ dist[At(i)] <= f[i]
           S == {i \in Nat : i <= n => f[i] \in Nat /\ At(i) \in Nodes /\ (Beaten(i) \/ Follows(i))}
<1>1. /\ query \in Query /\ query.source \in Nodes /\ query.target \in Nodes
      /\ w \in [1 .. n -> query.edges] /\ \A i \in 1 .. n : Usable(w[i])
      /\ pending = {} /\ dist \in [Nodes -> Nat \cup {Infinity}]
  BY QueryTypes DEF Inv, TypeOK, Walks, Focused
<1>2. /\ f[0] = 0
      /\ \A i \in 1 .. n : f[i - 1] \in Nat /\ f[i] = f[i - 1] + StepCost(w[i])
      /\ f[n] \in Nat
  BY <1>1, WalkCost
\* A node that is open when the search is over has not been reached, or not cheaper.
<1>3. ASSUME NEW u \in Nodes, Known(u), NEW x \in Nat, dist[u] <= x
      PROVE  (Known(query.target) /\ dist[query.target] <= x)
             \/ (u \in visited /\ u # query.target /\ dist[u] <= x)
  <2>1. dist[u] \in Nat
    BY <1>1, <1>3 DEF Known
  <2>2. CASE u \in visited
    <3>1. CASE u = query.target
      BY <1>3, <3>1
    <3>2. CASE u # query.target
      BY <1>3, <2>2, <3>2
    <3> QED BY <3>1, <3>2
  <2>3. CASE u \notin visited
    <3>1. [cost |-> dist[u], node |-> u] \in heap
      BY <1>3, <2>3 DEF Inv, Covered
    <3>2. Known(query.target) /\ query.target \in visited
      BY <3>1 DEF Inv, Ended
    <3>3. dist[query.target] <= dist[u] /\ dist[query.target] \in Nat
      BY <1>1, <3>1, <3>2 DEF Inv, Ordered, Known
    <3> QED BY <1>3, <2>1, <3>2, <3>3
  <2> QED BY <2>2, <2>3
<1> HIDE DEF f
<1>4. 0 \in S
  <2>1. Known(query.source) /\ dist[query.source] <= 0 /\ 0 \in Nat
    BY GraphAssumption DEF Inv, SourceIsZero, Known
  <2>2. Beaten(0) \/ Follows(0)
    BY <1>1, <1>2, <1>3, <2>1
  <2> QED BY <1>1, <1>2, <2>2
<1>5. \A i \in S : i + 1 \in S
  <2> SUFFICES ASSUME NEW i \in Nat, i \in S, i + 1 <= n
               PROVE  f[i + 1] \in Nat /\ At(i + 1) \in Nodes
                      /\ (Beaten(i + 1) \/ Follows(i + 1))
    OBVIOUS
  <2> DEFINE e == w[i + 1]
  <2>1. i + 1 \in 1 .. n /\ (i + 1) - 1 = i /\ i + 1 # 0
    OBVIOUS
  <2>2. /\ e \in query.edges /\ Usable(e) /\ e.to \in Nodes /\ e.from \in Nodes
        /\ Cost(e) \in Nat /\ StepCost(e) = Cost(e)
    BY <1>1, <2>1, EdgeTypes
  <2>3. f[i] \in Nat /\ f[i + 1] = f[i] + Cost(e)
    BY <1>2, <2>1, <2>2
  <2>4. f[i + 1] \in Nat /\ f[i] <= f[i + 1] /\ At(i + 1) = e.to
    BY <2>1, <2>2, <2>3
  <2>5. At(i) = e.from
    <3>1. CASE i = 0
      <4>1. n # 0
        BY <3>1
      <4>2. w[1].from = query.source
        BY <4>1 DEF Walks
      <4> QED BY <3>1, <4>2
    <3>2. CASE i # 0
      <4>1. i \in 1 .. n - 1
        BY <3>2
      <4>2. w[i].to = w[i + 1].from
        BY <4>1 DEF Walks
      <4> QED BY <3>2, <4>2
    <3> QED BY <3>1, <3>2
  <2>6. CASE Beaten(i)
    <3>1. dist[query.target] \in Nat
      BY <1>1, <2>6 DEF Known
    <3>2. Beaten(i + 1)
      BY <2>3, <2>4, <2>6, <3>1
    <3> QED BY <2>2, <2>4, <3>2
  <2>7. CASE Follows(i)
    <3>1. Known(e.to) /\ dist[e.to] <= dist[e.from] + Cost(e)
      BY <1>1, <2>2, <2>5, <2>7 DEF Inv, Relaxed
    <3>2. dist[e.to] \in Nat /\ dist[e.from] \in Nat /\ dist[e.from] <= f[i]
      BY <1>1, <2>2, <2>5, <2>7, <3>1 DEF Inv, Ordered, Known
    <3>3. dist[e.to] <= f[i + 1]
      BY <2>2, <2>3, <3>1, <3>2
    <3>4. Beaten(i + 1) \/ Follows(i + 1)
      BY <1>3, <2>2, <2>4, <3>1, <3>3
    <3> QED BY <2>2, <2>4, <3>4
  <2> QED BY <2>6, <2>7
<1>6. S = Nat
  <2>1. S \in SUBSET Nat
    OBVIOUS
  <2> HIDE DEF S
  <2> QED BY <1>4, <1>5, <2>1, SetInduction
<1>7. Beaten(n) \/ Follows(n)
  <2>1. n \in S
    BY <1>6
  <2> QED BY <2>1
<1>8. At(n) = query.target
  <2>1. CASE n = 0
    BY <2>1 DEF Walks
  <2>2. CASE n # 0
    BY <2>2 DEF Walks
  <2> QED BY <2>1, <2>2
<1> QED BY <1>7, <1>8 DEF f

(* graph.py:184-186, :210-212.  The call finds the cheapest route: stopping *)
(* when the target is settled is sound, and ([], inf) means that no walk    *)
(* the query allows exists.                                                 *)
THEOREM FindsTheBest == Spec => []Optimal
<1>1. Inv => Optimal
  <2> SUFFICES ASSUME Inv, phase = "done", NEW n \in 0 .. MaxHops, NEW w \in Walks(n)
               PROVE  Found /\ dist[query.target] <= CostUpTo(n, w)[n]
    BY DEF Optimal
  <2>1. n \in Nat
    BY GraphAssumption
  <2>2. Known(query.target) /\ dist[query.target] <= CostUpTo(n, w)[n]
    BY <2>1, WalkBound
  <2>3. path # <<>>
    BY <2>2 DEF Inv, Ended
  <2> QED BY <2>2, <2>3 DEF Found
<1> QED BY <1>1, Invariance, PTL

-----------------------------------------------------------------------------

\* A node that is known, but for the source, was last improved along an edge from
\* a settled node, whose cost has not changed since.
Linked ==
    /\ prev[query.source] = NoNode
    /\ \A n \in Nodes \ {query.source} :
          Known(n) =>
            /\ prev[n] \in visited
            /\ \E e \in query.edges :
                  /\ e.from = prev[n] /\ e.to = n /\ Usable(e)
                  /\ dist[n] = dist[prev[n]] + StepCost(e)

\* rank numbers the settled nodes below k so that each comes after its
\* predecessor.  Costs do not order them: an edge may cost nothing.
Ranks(rank, k) ==
    \A v \in visited :
        rank[v] < k /\ (v # query.source => rank[prev[v]] < rank[v])

SettledInTurn == \E rank \in [Nodes -> Nat], k \in Nat : Ranks(rank, k)

\* The route read so far follows prev to the target and goes on at the cursor.
Traced ==
    /\ phase = "search" => path = <<>>
    /\ phase = "trace" /\ path = <<>> => cursor = query.target
    /\ phase = "done" /\ path # <<>> => cursor = NoNode
    /\ path # <<>> => path[Len(path)] = query.target /\ cursor = prev[path[1]]
    /\ \A i \in 1 .. Len(path) : path[i] \in visited
    /\ \A i \in 1 .. Len(path) - 1 :
          path[i + 1] # query.source /\ path[i] = prev[path[i + 1]]

RouteInv == Linked /\ SettledInTurn /\ Traced

LEMMA InitRoute == Init => RouteInv
<1> SUFFICES ASSUME Init PROVE RouteInv
  OBVIOUS
<1>1. query.source \in Nodes
  BY QueryTypes DEF Init
<1>2. Linked
  BY <1>1 DEF Init, Linked, Known
<1>3. SettledInTurn
  <2>1. [n \in Nodes |-> 0] \in [Nodes -> Nat] /\ Ranks([n \in Nodes |-> 0], 0)
    BY DEF Ranks, Init
  <2> QED BY <2>1 DEF SettledInTurn
<1>4. Traced
  BY DEF Init, Traced
<1> QED BY <1>2, <1>3, <1>4 DEF RouteInv

(* A step that leaves costs alone leaves every link alone.                  *)
LEMMA LinkedKept ==
  ASSUME Linked, visited \subseteq visited', UNCHANGED <<query, dist, prev>>
  PROVE  Linked'
BY DEF Linked, Known, Usable, StepCost

LEMMA SettlingRoute ==
  ASSUME Inv, RouteInv, NEW h \in heap, Popped(h), h.node \notin visited,
         visited' = visited \cup {h.node}, UNCHANGED <<query, dist, prev>>
  PROVE  Linked' /\ SettledInTurn'
<1>1. Linked'
  BY LinkedKept DEF RouteInv
<1>2. PICK rank \in [Nodes -> Nat], k \in Nat : Ranks(rank, k)
  BY DEF RouteInv, SettledInTurn
<1> DEFINE m == h.node
           next == [rank EXCEPT ![m] = k]
<1>3. m \in Nodes /\ Known(m) /\ visited \subseteq Nodes
  BY PoppedIsBest DEF Popped, Inv, TypeOK, HeapNode
<1>4. next \in [Nodes -> Nat] /\ next[m] = k /\ \A v \in visited : next[v] = rank[v]
  BY <1>3
<1>5. \A v \in visited : Known(v)
  BY DEF Inv, Ordered
<1>6. ASSUME NEW v \in visited', v # query.source PROVE prev[v] \in visited
  BY <1>3, <1>5, <1>6 DEF RouteInv, Linked
<1> HIDE DEF next
<1>7. ASSUME NEW v \in visited'
      PROVE  next[v] < k + 1 /\ (v # query.source => next[prev[v]] < next[v])
  <2>1. CASE v = m
    <3>1. next[v] < k + 1
      BY <1>4, <2>1
    <3>2. ASSUME v # query.source PROVE next[prev[v]] < next[v]
      <4>1. prev[v] \in visited
        BY <1>6, <3>2
      <4>2. next[prev[v]] = rank[prev[v]] /\ rank[prev[v]] < k
        BY <1>2, <1>4, <4>1 DEF Ranks
      <4> QED BY <1>4, <2>1, <4>2
    <3> QED BY <3>1, <3>2
  <2>2. CASE v # m
    <3>1. v \in visited /\ v \in Nodes
      BY <1>3, <2>2
    <3>2. next[v] = rank[v] /\ rank[v] < k /\ rank[v] \in Nat
      BY <1>2, <1>4, <3>1 DEF Ranks
    <3>3. ASSUME v # query.source PROVE next[prev[v]] < next[v]
      <4>1. prev[v] \in visited
        BY <1>6, <3>3
      <4>2. rank[prev[v]] < rank[v]
        BY <1>2, <3>1, <3>3 DEF Ranks
      <4> QED BY <1>4, <3>2, <4>1, <4>2
    <3> QED BY <3>2, <3>3
  <2> QED BY <2>1, <2>2
<1>8. Ranks(next, k + 1)'
  BY <1>7 DEF Ranks
<1>9. k + 1 \in Nat
  OBVIOUS
<1> QED BY <1>1, <1>4, <1>8, <1>9 DEF SettledInTurn

LEMMA RelaxRoute ==
  ASSUME Inv, RouteInv, NEW e \in pending, Relax(e)
  PROVE  RouteInv'
<1> DEFINE c == current.cost + Cost(e)
<1>1. UNCHANGED <<query, visited, cursor, path, phase>>
  BY DEF Relax
<1>2. /\ e \in query.edges /\ e.from \in Nodes /\ e.to \in Nodes /\ StepCost(e) = Cost(e)
      /\ phase = "search" /\ current.node \in visited
      /\ e.from = current.node /\ current.cost = dist[current.node]
      /\ dist \in [Nodes -> Nat \cup {Infinity}] /\ prev \in [Nodes -> Nodes \cup {NoNode}]
  BY EdgeTypes DEF Inv, TypeOK, Focused
<1>3. Traced'
  BY <1>1, <1>2 DEF RouteInv, Traced
<1>4. CASE ~ (Usable(e) /\ Better(c, e.to))
  <2>1. UNCHANGED <<dist, prev>>
    BY <1>4 DEF Relax
  <2> QED BY <1>1, <1>3, <2>1, LinkedKept DEF RouteInv, SettledInTurn, Ranks
<1>5. CASE Usable(e) /\ Better(c, e.to)
  <2>1. e.to \notin visited /\ e.to # query.source
    BY <1>5, OnlyOpenImproves
  <2>2. /\ dist' = [dist EXCEPT ![e.to] = c]
        /\ prev' = [prev EXCEPT ![e.to] = current.node]
    BY <1>5 DEF Relax
  <2>3. /\ dist'[e.to] = c /\ prev'[e.to] = current.node
        /\ \A n \in Nodes : n # e.to => dist'[n] = dist[n] /\ prev'[n] = prev[n]
    BY <1>2, <2>2
  <2>4. \A v \in visited : v \in Nodes /\ dist'[v] = dist[v] /\ prev'[v] = prev[v]
    BY <2>1, <2>3 DEF Inv, TypeOK
  <2>5. query.source \in Nodes
    BY QueryTypes DEF Inv, TypeOK
  <2>6. ASSUME NEW n \in Nodes \ {query.source}, Known(n)'
        PROVE  /\ prev'[n] \in visited
               /\ \E f \in query.edges :
                     /\ f.from = prev'[n] /\ f.to = n /\ Usable(f)
                     /\ dist'[n] = dist'[prev'[n]] + StepCost(f)
    <3>1. CASE n = e.to
      <4>1. dist'[current.node] = current.cost
        BY <1>2, <2>4
      <4> QED BY <1>2, <1>5, <2>3, <3>1, <4>1
    <3>2. CASE n # e.to
      <4>1. Known(n) /\ prev'[n] = prev[n] /\ dist'[n] = dist[n]
        BY <2>3, <2>6, <3>2 DEF Known
      <4>2. prev[n] \in visited
        BY <4>1 DEF RouteInv, Linked
      <4>3. PICK f \in query.edges :
              /\ f.from = prev[n] /\ f.to = n /\ Usable(f)
              /\ dist[n] = dist[prev[n]] + StepCost(f)
        BY <4>1 DEF RouteInv, Linked
      <4>4. dist'[prev[n]] = dist[prev[n]]
        BY <2>4, <4>2
      <4> QED BY <4>1, <4>2, <4>3, <4>4
    <3> QED BY <3>1, <3>2
  <2>7. Linked'
    <3>1. prev'[query.source] = NoNode
      BY <2>1, <2>3, <2>5 DEF RouteInv, Linked
    <3> QED BY <1>1, <2>6, <3>1 DEF Linked, Usable, StepCost
  <2>8. SettledInTurn'
    <3>1. PICK rank \in [Nodes -> Nat], k \in Nat : Ranks(rank, k)
      BY DEF RouteInv, SettledInTurn
    <3>2. Ranks(rank, k)'
      BY <1>1, <2>4, <3>1 DEF Ranks
    <3> QED BY <3>2 DEF SettledInTurn
  <2> QED BY <1>3, <2>7, <2>8 DEF RouteInv
<1> QED BY <1>4, <1>5

(* A step back along prev lengthens the route by the predecessor of its head.*)
LEMMA TraceBackRoute ==
  ASSUME Inv, RouteInv, TraceBack
  PROVE  RouteInv'
<1>1. /\ UNCHANGED <<query, dist, prev, visited, phase>>
      /\ phase = "trace" /\ cursor \in Nodes /\ cursor # NoNode
      /\ path \in Seq(Nodes) /\ path' = <<cursor>> \o path /\ cursor' = prev[cursor]
      /\ visited \subseteq Nodes
  BY DEF TraceBack, Inv, TypeOK
<1>2. /\ Len(path) \in Nat /\ Len(path') = Len(path) + 1 /\ path' # <<>>
      /\ path'[1] = cursor
      /\ \A i \in 1 .. Len(path) : path'[i + 1] = path[i]
  <2>1. <<cursor>> \in Seq(Nodes) /\ Len(<<cursor>>) = 1 /\ Len(path) \in Nat
    BY <1>1
  <2>2. path' \in Seq(Nodes) /\ Len(path') = Len(path) + 1
    BY <1>1, <2>1
  <2>3. path'[1] = cursor
    BY <1>1, <2>1
  <2>4. ASSUME NEW i \in 1 .. Len(path) PROVE path'[i + 1] = path[i]
    <3>1. i + 1 \in 1 .. Len(path) + 1 /\ i + 1 > 1 /\ (i + 1) - 1 = i
      BY <2>1
    <3> QED BY <1>1, <2>1, <3>1
  <2>5. path' # <<>>
    BY <2>1, <2>2
  <2> QED BY <2>1, <2>2, <2>3, <2>4, <2>5
<1>3. cursor \in visited /\ (path # <<>> => path[1] \in visited /\ path[1] # query.source)
  <2>1. CASE path = <<>>
    BY <1>1, <2>1 DEF Inv, Ended, RouteInv, Traced
  <2>2. CASE path # <<>>
    <3>1. 1 \in 1 .. Len(path)
      BY <1>1, <2>2
    <3>2. path[1] \in visited /\ cursor = prev[path[1]]
      BY <2>2, <3>1 DEF RouteInv, Traced
    <3>3. path[1] # query.source
      BY <1>1, <3>2 DEF RouteInv, Linked
    <3>4. Known(path[1]) /\ path[1] \in Nodes
      BY <1>1, <3>2 DEF Inv, Ordered
    <3> QED BY <3>2, <3>3, <3>4 DEF RouteInv, Linked
  <2> QED BY <2>1, <2>2
<1>4. Linked' /\ SettledInTurn'
  BY <1>1, LinkedKept DEF RouteInv, SettledInTurn, Ranks
<1>5. \A i \in 1 .. Len(path') : path'[i] \in visited
  <2> SUFFICES ASSUME NEW i \in 1 .. Len(path') PROVE path'[i] \in visited
    OBVIOUS
  <2>1. CASE i = 1
    BY <1>2, <1>3, <2>1
  <2>2. CASE i # 1
    <3>1. i - 1 \in 1 .. Len(path) /\ (i - 1) + 1 = i
      BY <1>2, <2>2
    <3>2. path'[i] = path[i - 1]
      BY <1>2, <3>1
    <3> QED BY <3>1, <3>2 DEF RouteInv, Traced
  <2> QED BY <2>1, <2>2
<1>6. ASSUME NEW i \in 1 .. Len(path') - 1
      PROVE  path'[i + 1] # query.source /\ path'[i] = prev[path'[i + 1]]
  <2>1. i \in 1 .. Len(path) /\ path'[i + 1] = path[i]
    BY <1>2
  <2>2. CASE i = 1
    <3>1. path # <<>>
      BY <1>2, <2>1
    <3> QED BY <1>2, <1>3, <2>1, <2>2, <3>1 DEF RouteInv, Traced
  <2>3. CASE i # 1
    <3>1. i - 1 \in 1 .. Len(path) - 1 /\ i - 1 \in 1 .. Len(path) /\ (i - 1) + 1 = i
      BY <1>2, <2>1, <2>3
    <3>2. path'[i] = path[i - 1]
      BY <1>2, <3>1
    <3>3. path[i] # query.source /\ path[i - 1] = prev[path[i]]
      BY <3>1 DEF RouteInv, Traced
    <3> QED BY <2>1, <3>2, <3>3
  <2> QED BY <2>2, <2>3
<1>7. path'[Len(path')] = query.target
  <2>1. CASE path = <<>>
    <3>1. Len(path) = 0
      BY <2>1
    <3> QED BY <1>1, <1>2, <2>1, <3>1 DEF RouteInv, Traced
  <2>2. CASE path # <<>>
    <3>1. Len(path) \in 1 .. Len(path)
      BY <1>1, <2>2
    <3> QED BY <1>2, <2>2, <3>1 DEF RouteInv, Traced
  <2> QED BY <2>1, <2>2
<1>8. Traced'
  BY <1>1, <1>2, <1>5, <1>6, <1>7 DEF Traced
<1> QED BY <1>4, <1>8 DEF RouteInv

LEMMA NextRoute == Inv /\ RouteInv /\ [Next]_searchVars => RouteInv'
<1> SUFFICES ASSUME Inv, RouteInv, [Next]_searchVars PROVE RouteInv'
  OBVIOUS
<1>1. ASSUME NEW h \in heap, SkipStale(h) PROVE RouteInv'
  <2>1. UNCHANGED <<query, dist, prev, visited, cursor, path, phase>>
    BY <1>1 DEF SkipStale
  <2> QED BY <2>1, LinkedKept DEF RouteInv, SettledInTurn, Ranks, Traced
<1>2. ASSUME NEW h \in heap, Expand(h) PROVE RouteInv'
  <2>1. Linked' /\ SettledInTurn'
    BY <1>2, SettlingRoute DEF Expand
  <2>2. Traced'
    BY <1>2 DEF Expand, Popped, RouteInv, Traced
  <2> QED BY <2>1, <2>2 DEF RouteInv
<1>3. ASSUME NEW h \in heap, Arrive(h) PROVE RouteInv'
  <2>1. Linked' /\ SettledInTurn'
    BY <1>3, SettlingRoute DEF Arrive, LeaveLoop
  <2>2. path' = path /\ path = <<>> /\ cursor' = query.target /\ query' = query
    BY <1>3 DEF Arrive, LeaveLoop, Popped, RouteInv, Traced
  <2>3. Traced'
    BY <2>2 DEF Traced
  <2> QED BY <2>1, <2>3 DEF RouteInv
<1>4. ASSUME NEW e \in pending, Relax(e) PROVE RouteInv'
  BY <1>4, RelaxRoute
<1>5. CASE HeapEmpty
  <2>1. /\ UNCHANGED <<query, dist, prev, visited, path>>
        /\ path = <<>> /\ cursor' = query.target
    BY <1>5 DEF HeapEmpty, LeaveLoop, RouteInv, Traced
  <2>2. Linked' /\ SettledInTurn'
    BY <2>1, LinkedKept DEF RouteInv, SettledInTurn, Ranks
  <2>3. Traced'
    BY <2>1 DEF Traced
  <2> QED BY <2>2, <2>3 DEF RouteInv
<1>6. CASE TraceBack
  BY <1>6, TraceBackRoute
<1>7. CASE Return
  <2>1. UNCHANGED <<query, dist, prev, visited, path, cursor>>
        /\ cursor = NoNode /\ phase' = "done"
    BY <1>7 DEF Return
  <2>2. Linked' /\ SettledInTurn'
    BY <2>1, LinkedKept DEF RouteInv, SettledInTurn, Ranks
  <2>3. Traced'
    BY <2>1 DEF RouteInv, Traced
  <2> QED BY <2>2, <2>3 DEF RouteInv
<1>8. CASE UNCHANGED searchVars
  BY <1>8, LinkedKept DEF searchVars, RouteInv, SettledInTurn, Ranks, Traced
<1> QED BY <1>1, <1>2, <1>3, <1>4, <1>5, <1>6, <1>7, <1>8 DEF Next

(* The ranks of the settled nodes rise along the route.                     *)
LEMMA RanksRise ==
  ASSUME Inv, RouteInv, NEW rank \in [Nodes -> Nat], NEW k \in Nat, Ranks(rank, k),
         NEW i \in 1 .. Len(path), NEW j \in 1 .. Len(path), i < j
  PROVE  rank[path[i]] < rank[path[j]]
<1> DEFINE Rises(d) == i + d + 1 <= Len(path) => rank[path[i]] < rank[path[i + d + 1]]
           S == {d \in Nat : Rises(d)}
<1>1. Len(path) \in Nat /\ \A m \in 1 .. Len(path) : path[m] \in Nodes
  BY DEF Inv, TypeOK
<1>2. ASSUME NEW m \in 1 .. Len(path) - 1 PROVE rank[path[m]] < rank[path[m + 1]]
  <2>1. m + 1 \in 1 .. Len(path)
    BY <1>1
  <2>2. path[m + 1] \in visited /\ path[m + 1] # query.source /\ path[m] = prev[path[m + 1]]
    BY <2>1 DEF RouteInv, Traced
  <2> QED BY <2>2 DEF Ranks
<1>3. 0 \in S
  <2> SUFFICES ASSUME i + 0 + 1 <= Len(path)
               PROVE  rank[path[i]] < rank[path[i + 0 + 1]]
    OBVIOUS
  <2>1. i \in 1 .. Len(path) - 1 /\ i + 0 + 1 = i + 1
    BY <1>1
  <2> QED BY <1>2, <2>1
<1>4. \A d \in S : d + 1 \in S
  <2> SUFFICES ASSUME NEW d \in Nat, Rises(d), i + (d + 1) + 1 <= Len(path)
               PROVE  rank[path[i]] < rank[path[i + (d + 1) + 1]]
    OBVIOUS
  <2> DEFINE m == i + d + 1
  <2>1. m \in 1 .. Len(path) - 1 /\ m \in 1 .. Len(path) /\ i + (d + 1) + 1 = m + 1
        /\ m + 1 \in 1 .. Len(path) /\ m <= Len(path)
    BY <1>1
  <2>2. rank[path[i]] < rank[path[m]]
    BY <2>1
  <2>3. rank[path[m]] < rank[path[m + 1]]
    BY <1>2, <2>1
  <2>4. rank[path[i]] \in Nat /\ rank[path[m]] \in Nat /\ rank[path[m + 1]] \in Nat
    BY <1>1, <2>1
  <2>5. \A a, b, c \in Nat : a < b /\ b < c => a < c
    OBVIOUS
  <2>6. rank[path[i]] < rank[path[m + 1]]
    BY <2>2, <2>3, <2>4, <2>5
  <2> HIDE DEF m
  <2> QED BY <2>1, <2>6
<1>5. S = Nat
  <2>1. S \in SUBSET Nat
    OBVIOUS
  <2> HIDE DEF S
  <2> QED BY <1>3, <1>4, <2>1, SetInduction
<1>6. j - i - 1 \in Nat /\ i + (j - i - 1) + 1 = j /\ j <= Len(path)
  BY <1>1
<1>7. Rises(j - i - 1)
  BY <1>5, <1>6
<1> QED BY <1>6, <1>7

(* What is read back when the cursor runs out is the route of RouteIsReal.  *)
LEMMA RouteRead == Inv /\ RouteInv => RouteIsReal
<1> SUFFICES ASSUME Inv, RouteInv, Found
             PROVE  /\ path[1] = query.source /\ path[Len(path)] = query.target
                    /\ \A i, j \in 1 .. Len(path) : path[i] = path[j] => i = j
                    /\ \A i \in 1 .. Len(path) - 1 : \E e \in query.edges :
                          /\ e.from = path[i] /\ e.to = path[i + 1]
                          /\ Usable(e)
                          /\ dist[path[i + 1]] = dist[path[i]] + StepCost(e)
                    /\ dist[query.source] = 0
  BY DEF RouteIsReal
<1>1. /\ phase = "done" /\ path # <<>> /\ path \in Seq(Nodes) /\ Len(path) \in Nat
      /\ visited \subseteq Nodes
  BY DEF Found, Inv, TypeOK
<1>2. 1 \in 1 .. Len(path)
  BY <1>1
<1>3. \A i \in 1 .. Len(path) : path[i] \in visited /\ path[i] \in Nodes /\ Known(path[i])
  BY <1>1 DEF RouteInv, Traced, Inv, Ordered
<1>4. path[1] = query.source
  <2>1. prev[path[1]] = NoNode /\ NoNode \notin Nodes
    BY <1>1, GraphAssumption DEF RouteInv, Traced
  <2> QED BY <1>1, <1>2, <1>3, <2>1 DEF RouteInv, Linked
<1>5. path[Len(path)] = query.target
  BY <1>1 DEF RouteInv, Traced
<1>6. ASSUME NEW i \in 1 .. Len(path), NEW j \in 1 .. Len(path), path[i] = path[j]
      PROVE  i = j
  <2>1. PICK rank \in [Nodes -> Nat], k \in Nat : Ranks(rank, k)
    BY DEF RouteInv, SettledInTurn
  <2>2. ~ (i < j) /\ ~ (j < i)
    <3>1. i < j => rank[path[i]] < rank[path[j]]
      BY <2>1, RanksRise
    <3>2. j < i => rank[path[j]] < rank[path[i]]
      BY <2>1, RanksRise
    <3>3. rank[path[i]] \in Nat
      BY <1>3, <2>1
    <3> QED BY <1>6, <3>1, <3>2, <3>3
  <2> QED BY <2>2
<1>7. ASSUME NEW i \in 1 .. Len(path) - 1
      PROVE  \E e \in query.edges :
                /\ e.from = path[i] /\ e.to = path[i + 1]
                /\ Usable(e)
                /\ dist[path[i + 1]] = dist[path[i]] + StepCost(e)
  <2>1. i + 1 \in 1 .. Len(path)
    BY <1>1
  <2>2. path[i + 1] # query.source /\ path[i] = prev[path[i + 1]]
    BY DEF RouteInv, Traced
  <2> QED BY <1>3, <2>1, <2>2 DEF RouteInv, Linked
<1>8. dist[query.source] = 0
  BY DEF Inv, SourceIsZero
<1> QED BY <1>4, <1>5, <1>6, <1>7, <1>8

(* graph.py:214-222.  The route returned leads from the source to the       *)
(* target along edges the query allows, enters no zone twice although edges *)
(* may cost nothing, and each step of it costs what dist says it costs.     *)
THEOREM ReturnsARealRoute == Spec => []RouteIsReal
<1>1. Init => Inv /\ RouteInv
  BY InitInv, InitRoute
<1>2. Inv /\ RouteInv /\ [Next]_searchVars => Inv' /\ RouteInv'
  BY NextInv, NextRoute
<1>3. Inv /\ RouteInv => RouteIsReal
  BY RouteRead
<1> QED BY <1>1, <1>2, <1>3, PTL DEF Spec

-----------------------------------------------------------------------------

(* An edge to a settled node changes nothing in either search.              *)
LEMMA SkipIsRelax ==
  ASSUME Inv, NEW e \in pending, SkipSettled(e)
  PROVE  Relax(e)
<1>1. ~ Better(current.cost + Cost(e), e.to)
  BY OnlyOpenImproves DEF SkipSettled
<1> QED BY <1>1 DEF SkipSettled, Relax

LEMMA RouterNextIsNext == Inv /\ [RouterNext]_searchVars => [Next]_searchVars
<1> SUFFICES ASSUME Inv, RouterNext PROVE Next
  OBVIOUS
<1>1. CASE \E h \in heap : SkipStale(h) \/ Expand(h) \/ Arrive(h)
  BY <1>1 DEF Next
<1>2. CASE \E e \in pending : SkipSettled(e) \/ RelaxOpen(e)
  BY <1>2, SkipIsRelax DEF Next, RelaxOpen
<1>3. CASE HeapEmpty \/ TraceBack \/ Return
  BY <1>3 DEF Next
<1> QED BY <1>1, <1>2, <1>3 DEF RouterNext

(* graph_router.py:140-141.  The search of the domain stack implements the  *)
(* one of the service stack: to skip the edges to settled nodes changes no  *)
(* cost and no route, however edges and heap entries are ordered.           *)
THEOREM RouterImplementsSearch == RouterSpec => Spec
<1>1. RouterInit => Init
  BY DEF RouterInit
<1>2. Init => Inv
  BY InitInv
<1>3. Inv /\ [RouterNext]_searchVars => Inv'
  BY RouterNextIsNext, NextInv
<1>4. Inv /\ [RouterNext]_searchVars => [Next]_searchVars
  BY RouterNextIsNext
<1> QED BY <1>1, <1>2, <1>3, <1>4, PTL DEF RouterSpec, Spec

(* graph_router.py:128-130, :156-163.  The domain stack's search finds the  *)
(* cheapest route too, and returns None only when there is none.            *)
THEOREM RouterFindsTheBest == RouterSpec => []Optimal
<1> QED BY RouterImplementsSearch, FindsTheBest, PTL

(* graph_router.py:165-173.  Its route is a real one as well.               *)
THEOREM RouterReturnsARealRoute == RouterSpec => []RouteIsReal
<1> QED BY RouterImplementsSearch, ReturnsARealRoute, PTL
=============================================================================
