-------------------------- MODULE CrowdFlowProofs --------------------------
(***************************************************************************)
(* TLAPS proofs about CrowdFlow and Navigation, for every stadium, every   *)
(* capacity, every horizon and every bound.                                *)
(*                                                                         *)
(* TypeOK, which carries the bounds of the occupancies and the order of    *)
(* the timestamps, is inductive; NoUnderestimate is inductive with it.     *)
(* The two properties of a snapshot follow from TypeOK in any state: the   *)
(* work is in the lemmas on Classify, which show that it is monotone in    *)
(* the score and depends on the ratio alone.                               *)
(*                                                                         *)
(* The second half is about Navigation, which reads this crowd, for every  *)
(* graph and every request.  Its invariant Planned follows one plan through*)
(* the batches ingested meanwhile; what a sum over the edges of a route    *)
(* needs, and how routes grow, comes first.                                *)
(***************************************************************************)
EXTENDS Navigation, FiniteSetTheorems, SequenceTheorems, WellFoundedInduction,
        TLAPS

(* Least and greatest elements, and induction, stated with sets in place of *)
(* predicates.                                                              *)

NatLess == {p \in Nat \X Nat : p[1] < p[2]}

(* Less-than on the naturals is well founded.                               *)
LEMMA NatLessWF == IsWellFoundedOn(NatLess, Nat)
<1>1. NatLess = OpToRel(<, Nat)
  BY DEF NatLess, OpToRel
<1> QED BY <1>1, NatLessThanWellFounded

(* Every nonempty set of naturals has a least element.                     *)
LEMMA LeastNat ==
  ASSUME NEW T \in SUBSET Nat, T # {}
  PROVE  \E x \in T : \A y \in T : x <= y
<1>1. PICK x \in T : \A y \in T : ~ (<<y, x>> \in NatLess)
  BY NatLessWF, WFMin
<1>2. ASSUME NEW y \in T PROVE x <= y
  <2>1. x \in Nat /\ y \in Nat /\ ~ (<<y, x>> \in NatLess)
    BY <1>1
  <2>2. ~(y < x)
    BY <2>1 DEF NatLess
  <2> QED BY <2>1, <2>2
<1> QED BY <1>2

(* Induction, stated on the set of the numbers that have the property.      *)
LEMMA SetInduction ==
  ASSUME NEW S \in SUBSET Nat, 0 \in S, \A n \in S : n + 1 \in S
  PROVE S = Nat
<1> SUFFICES ASSUME Nat \ S # {} PROVE FALSE
  OBVIOUS
<1>1. PICK x \in Nat \ S : \A y \in Nat \ S : x <= y
  BY LeastNat
<1>2. x # 0 /\ x - 1 \in Nat /\ ~(x <= x - 1)
  OBVIOUS
<1>3. x - 1 \in S
  BY <1>1, <1>2
<1> QED BY <1>2, <1>3

(* The Max of FiniteSetsExt is the greatest element of a bounded set.      *)
LEMMA MaxIsMax ==
  ASSUME NEW k \in Nat, NEW T \in SUBSET (0 .. k), T # {}
  PROVE  Max(T) \in T /\ \A y \in T : y <= Max(T)
<1> DEFINE U == {k - n : n \in T}
<1>1. U \in SUBSET Nat /\ U # {}
  <2>1. \A n \in T : k - n \in Nat
    OBVIOUS
  <2>2. U \subseteq Nat
    BY <2>1
  <2>3. PICK n \in T : TRUE
    OBVIOUS
  <2>4. k - n \in U
    OBVIOUS
  <2> QED BY <2>2, <2>4
<1>2. PICK u \in U : \A y \in U : u <= y
  BY <1>1, LeastNat
<1>3. PICK x \in T : u = k - x
  BY <1>2
<1>4. \A y \in T : x >= y
  <2> SUFFICES ASSUME NEW y \in T PROVE x >= y
    OBVIOUS
  <2>1. k - x <= k - y
    BY <1>2, <1>3
  <2>2. x \in Int /\ y \in Int
    OBVIOUS
  <2> QED BY <2>1, <2>2
<1>5. Max(T) \in T /\ \A y \in T : Max(T) >= y
  BY <1>4, Zenon DEF Max
<1>6. ASSUME NEW m \in T, \A y \in T : m >= y
      PROVE  \A y \in T : y <= m
  BY <1>6
<1> QED BY <1>5, <1>6, Zenon

-----------------------------------------------------------------------------

LEMMA ClassifyType ==
    ASSUME NEW n \in Int, NEW d \in Int
    PROVE  Classify(n, d) \in Levels
BY DEF Classify, Levels, Low, Medium, High, Critical

(* A higher score is never a lower level.                                   *)
LEMMA ClassifyMonotone ==
    ASSUME NEW n \in Int, NEW m \in Int, NEW d \in Nat, n <= m
    PROVE  Classify(n, d) <= Classify(m, d)
BY DEF Classify, Low, Medium, High, Critical

LEMMA Scaled ==
    ASSUME NEW x \in Int, NEW y \in Int, NEW e \in Nat \ {0}
    PROVE  /\ x < y <=> x * e < y * e
           /\ x <= y <=> x * e <= y * e
           /\ x * e \in Int
OBVIOUS

(* The level depends on the ratio alone.                                    *)
LEMMA ClassifyScale ==
    ASSUME NEW n \in Nat, NEW d \in Nat, NEW e \in Nat \ {0}
    PROVE  Classify(n * e, d * e) = Classify(n, d)
<1> DEFINE N == n * e
           D == d * e
<1>1. N \in Int /\ D \in Int
  BY Scaled
<1>2. /\ 2 * n < d <=> 2 * N < D
      /\ 4 * n < 3 * d <=> 4 * N < 3 * D
      /\ 25 * n < 23 * d <=> 25 * N < 23 * D
  <2>1. /\ (2 * n) * e = 2 * N /\ (4 * n) * e = 4 * N /\ (25 * n) * e = 25 * N
        /\ (3 * d) * e = 3 * D /\ (23 * d) * e = 23 * D
    OBVIOUS
  <2>2. /\ 2 * n < d <=> (2 * n) * e < d * e
        /\ 4 * n < 3 * d <=> (4 * n) * e < (3 * d) * e
        /\ 25 * n < 23 * d <=> (25 * n) * e < (23 * d) * e
    <3>1. /\ 2 * n \in Int /\ 4 * n \in Int /\ 25 * n \in Int
          /\ 3 * d \in Int /\ 23 * d \in Int /\ d \in Int
      OBVIOUS
    <3> QED BY <3>1, Scaled
  <2> QED BY <2>1, <2>2, Zenon
<1> HIDE DEF N, D
<1>3. Classify(N, D) = Classify(n, d)
  BY <1>1, <1>2 DEF Classify
<1> QED BY <1>3 DEF N, D

(* Clamped into [0, d], a score that is at least (at most) n0 <= d keeps    *)
(* its side.                                                                *)
LEMMA ClampSides ==
    ASSUME NEW n \in Int, NEW d \in Nat, NEW n0 \in 0 .. d
    PROVE  LET clamped == IF n < 0 THEN 0 ELSE IF n > d THEN d ELSE n
           IN  /\ n >= n0 => clamped >= n0
               /\ n <= n0 => clamped <= n0
               /\ clamped \in Int
OBVIOUS

-----------------------------------------------------------------------------

(* The counts a batch reports for a zone it names have a greatest one.      *)
LEMMA CountsOfBatch ==
    ASSUME NEW batch \in SUBSET Reading, NEW z \in Zones,
           z \in {r.zone : r \in batch}
    PROVE  /\ CountsFor(batch, z) \in SUBSET Counts
           /\ CountsFor(batch, z) # {}
           /\ MaxByZone(batch, z) \in CountsFor(batch, z)
           /\ \A n \in CountsFor(batch, z) : n <= MaxByZone(batch, z)
           /\ CountsFor(batch, z) \subseteq Nat
           /\ MaxByZone(batch, z) \in Nat
<1>1. CountsFor(batch, z) \in SUBSET Counts /\ CountsFor(batch, z) # {}
  BY DEF CountsFor, Reading
<1>2. CountsFor(batch, z) \in SUBSET (0 .. MaxCount)
  BY <1>1, CountsAssumption
<1>3. /\ MaxByZone(batch, z) \in CountsFor(batch, z)
      /\ \A n \in CountsFor(batch, z) : n <= MaxByZone(batch, z)
  BY <1>1, <1>2, MaxIsMax, CountsAssumption DEF MaxByZone
<1>4. CountsFor(batch, z) \subseteq Nat
  <2>1. \A k \in 0 .. MaxCount : k \in Nat
    BY CountsAssumption
  <2> QED BY <2>1, <1>2
<1> QED BY <1>1, <1>3, <1>4

LEMMA MinOfTwo ==
    ASSUME NEW a \in Nat, NEW b \in Nat
    PROVE  Min({a, b}) = IF a <= b THEN a ELSE b
<1> DEFINE m == IF a <= b THEN a ELSE b
<1>1. /\ m \in {a, b} /\ \A y \in {a, b} : m <= y
      /\ \A x \in {a, b} : (\A y \in {a, b} : x <= y) => x = m
  OBVIOUS
<1> HIDE DEF m
<1>2. Min({a, b}) = m
  BY <1>1 DEF Min
<1> QED BY <1>2 DEF m

(* What ingest stores for a zone: the largest count, capped, beside what it *)
(* held before.                                                             *)
LEMMA UpdatedZone ==
    ASSUME TypeOK, NEW batch \in SUBSET Reading, NEW z \in Zones,
           z \in {r.zone : r \in batch}
    PROVE  LET top == MaxByZone(batch, z)
               u == Updated(batch, z)
           IN  /\ u \in ZoneState
               /\ u.current = IF top <= CapacityOf[z] THEN top ELSE CapacityOf[z]
               /\ u.prev = zone[z].current
               /\ u.last = now /\ u.prevTime = zone[z].last
<1> DEFINE top == MaxByZone(batch, z)
<1>1. top \in Nat /\ CapacityOf[z] \in Nat
  BY CountsOfBatch, ZonesAssumption
<1>2. Min({top, CapacityOf[z]}) = IF top <= CapacityOf[z] THEN top ELSE CapacityOf[z]
  BY <1>1, MinOfTwo
<1>3. zone[z] \in ZoneState /\ now \in Nat
  BY DEF TypeOK
<1> HIDE DEF top
<1> QED BY <1>1, <1>2, <1>3 DEF Updated, ZoneState, top

LEMMA InitTypeOK == Init => TypeOK
<1> SUFFICES ASSUME Init PROVE TypeOK
  OBVIOUS
<1>1. now = 0 /\ now \in 0 .. MaxTime
  BY TimeAssumption DEF Init
<1>2. reported \in [Zones -> SUBSET Counts]
  BY DEF Init
<1>3. ASSUME NEW z \in Zones
      PROVE  /\ SeedCounts(z) \subseteq 0 .. CapacityOf[z]
             /\ CapacityOf[z] \in Nat
  <2>1. CapacityOf[z] \in Nat
    BY ZonesAssumption
  <2>2. \A c \in Nat : (c * 5) \div 100 <= c /\ (c * 5) \div 100 \in Nat
    OBVIOUS
  <2> QED BY <2>1, <2>2 DEF SeedCounts
<1>4. ASSUME NEW z \in Zones
      PROVE  /\ zone[z] \in ZoneState
             /\ zone[z].current <= CapacityOf[z] /\ zone[z].prev <= CapacityOf[z]
             /\ zone[z].prevTime <= zone[z].last /\ zone[z].last <= now
  <2>1. /\ zone[z].prev = 0 /\ zone[z].last = 0 /\ zone[z].prevTime = 0
        /\ zone[z] = [current |-> zone[z].current, prev |-> 0, last |-> 0, prevTime |-> 0]
    BY DEF Init
  <2>2. zone[z].current \in 0 .. CapacityOf[z] /\ CapacityOf[z] \in Nat
    BY <1>3 DEF Init
  <2>3. zone[z] \in ZoneState
    BY <2>1, <2>2 DEF ZoneState
  <2> QED BY <2>1, <2>2, <2>3, <1>1
<1>5. zone = [z \in Zones |-> zone[z]]
  BY DEF Init
<1>6. zone \in [Zones -> ZoneState]
  BY <1>4, <1>5
<1> QED BY <1>1, <1>2, <1>4, <1>6 DEF TypeOK

LEMMA NextTypeOK == TypeOK /\ [Next]_crowdVars => TypeOK'
<1> SUFFICES ASSUME TypeOK, [Next]_crowdVars PROVE TypeOK'
  OBVIOUS
<1>1. CASE Tick
  <2>1. now \in Nat /\ now' = now + 1 /\ now' \in 0 .. MaxTime
    BY <1>1, TimeAssumption DEF Tick, TypeOK
  <2>2. zone' = zone /\ reported' = reported
    BY <1>1 DEF Tick
  <2>3. ASSUME NEW z \in Zones PROVE zone[z].last <= now'
    <3>1. zone[z].last \in Nat /\ zone[z].last <= now
      BY DEF TypeOK, ZoneState
    <3> QED BY <3>1, <2>1
  <2> QED BY <2>1, <2>2, <2>3 DEF TypeOK
<1>2. ASSUME NEW batch \in Batches, Ingest(batch) PROVE TypeOK'
  <2> DEFINE named == {r.zone : r \in batch} \cap Zones
  <2>0. batch \in SUBSET Reading
    BY DEF Batches, kSubset
  <2>1. /\ now' = now /\ now \in 0 .. MaxTime /\ now \in Nat
        /\ zone' = [z \in Zones |-> IF z \in named THEN Updated(batch, z) ELSE zone[z]]
        /\ reported' = [z \in Zones |->
               IF z \in named THEN CountsFor(batch, z) ELSE reported[z]]
    BY <1>2 DEF Ingest, TypeOK
  <2>2. reported' \in [Zones -> SUBSET Counts]
    BY <2>0, <2>1, CountsOfBatch DEF TypeOK
  <2>3. ASSUME NEW z \in Zones
        PROVE  /\ zone'[z] \in ZoneState
               /\ zone'[z].current <= CapacityOf[z] /\ zone'[z].prev <= CapacityOf[z]
               /\ zone'[z].prevTime <= zone'[z].last /\ zone'[z].last <= now'
    <3>1. /\ zone[z] \in ZoneState
          /\ zone[z].current <= CapacityOf[z] /\ zone[z].prev <= CapacityOf[z]
          /\ zone[z].prevTime <= zone[z].last /\ zone[z].last <= now
          /\ CapacityOf[z] \in Nat
      BY ZonesAssumption DEF TypeOK
    <3>2. CASE z \in named
      <4>1. zone'[z] = Updated(batch, z)
        BY <2>1, <3>2
      <4>2. MaxByZone(batch, z) \in Nat
        <5>1. z \in {r.zone : r \in batch}
          BY <3>2
        <5> HIDE DEF named
        <5> QED BY <2>0, <5>1, CountsOfBatch
      <4>3. LET top == MaxByZone(batch, z)
                u == Updated(batch, z)
            IN  /\ u \in ZoneState
                /\ u.current = IF top <= CapacityOf[z] THEN top ELSE CapacityOf[z]
                /\ u.prev = zone[z].current
                /\ u.last = now /\ u.prevTime = zone[z].last
        BY <2>0, <3>2, UpdatedZone
      <4> QED BY <2>1, <3>1, <4>1, <4>2, <4>3
    <3>3. CASE z \notin named
      BY <2>1, <3>1, <3>3
    <3> QED BY <3>2, <3>3
  <2>4. zone' \in [Zones -> ZoneState]
    BY <2>1, <2>3
  <2> QED BY <2>1, <2>2, <2>3, <2>4 DEF TypeOK
<1>3. CASE UNCHANGED crowdVars
  BY <1>3 DEF crowdVars, TypeOK
<1> QED BY <1>1, <1>2, <1>3 DEF Next

(* The occupancy of a zone stays within its capacity, so that building the  *)
(* snapshot never raises (models/crowd.py:97-105), and no zone was updated  *)
(* before its previous update.                                              *)
THEOREM TypeCorrect == Spec => []TypeOK
BY InitTypeOK, NextTypeOK, PTL DEF Spec

(* crowd_flow.py:133-135: no sensor of the last batch saw more people than  *)
(* the zone shows, up to its capacity.                                      *)
THEOREM NeverUnderestimates == Spec => []NoUnderestimate
<1>1. Init => NoUnderestimate
  BY DEF Init, NoUnderestimate
<1>2. TypeOK /\ NoUnderestimate /\ [Next]_crowdVars => NoUnderestimate'
  <2> SUFFICES ASSUME TypeOK, NoUnderestimate, [Next]_crowdVars PROVE NoUnderestimate'
    OBVIOUS
  <2>1. ASSUME NEW batch \in Batches, Ingest(batch) PROVE NoUnderestimate'
    <3> DEFINE named == {r.zone : r \in batch} \cap Zones
    <3>0. batch \in SUBSET Reading
      BY DEF Batches, kSubset
    <3> SUFFICES ASSUME NEW z \in Zones, reported'[z] # {}
                 PROVE  /\ \A n \in reported'[z] :
                              n <= zone'[z].current \/ zone'[z].current = CapacityOf[z]
                        /\ \E n \in reported'[z] : zone'[z].current <= n
      BY DEF NoUnderestimate
    <3>1. CASE z \in named
      <4> DEFINE top == MaxByZone(batch, z)
      <4>1. zone'[z] = Updated(batch, z) /\ reported'[z] = CountsFor(batch, z)
        BY <2>1, <3>1 DEF Ingest
      <4>2. /\ top \in CountsFor(batch, z) /\ CountsFor(batch, z) \subseteq Nat
            /\ \A n \in CountsFor(batch, z) : n <= top
            /\ CapacityOf[z] \in Nat
        <5>1. z \in {r.zone : r \in batch}
          BY <3>1
        <5> HIDE DEF named
        <5> QED BY <3>0, <5>1, CountsOfBatch, ZonesAssumption
      <4>3. zone'[z].current = IF top <= CapacityOf[z] THEN top ELSE CapacityOf[z]
        BY <3>0, <3>1, <4>1, UpdatedZone
      <4> HIDE DEF top
      <4> QED BY <4>1, <4>2, <4>3
    <3>2. CASE z \notin named
      <4>1. zone'[z] = zone[z] /\ reported'[z] = reported[z]
        BY <2>1, <3>2 DEF Ingest
      <4> QED BY <4>1 DEF NoUnderestimate
    <3> QED BY <3>1, <3>2
  <2>2. CASE Tick
    BY <2>2 DEF Tick, NoUnderestimate
  <2>3. CASE UNCHANGED crowdVars
    BY <2>3 DEF crowdVars, NoUnderestimate
  <2> QED BY <2>1, <2>2, <2>3 DEF Next
<1> QED BY <1>1, <1>2, TypeCorrect, PTL DEF Spec

-----------------------------------------------------------------------------
(* In any state that is type correct the prediction is on the side of the   *)
(* trend.                                                                   *)
LEMMA TrendFromType == TypeOK => PredictionFollowsTrend
<1> SUFFICES ASSUME TypeOK, NEW z \in Zones
             PROVE  /\ zone[z].current >= zone[z].prev => Predicted(z) >= Density(z)
                    /\ zone[z].current <= zone[z].prev => Predicted(z) <= Density(z)
  BY DEF PredictionFollowsTrend
<1> DEFINE c == zone[z].current
           p == zone[z].prev
           cap == CapacityOf[z]
           e == zone[z].last - zone[z].prevTime
           d == cap * e
           n == c * e + (c - p) * Horizon
           clamped == IF n < 0 THEN 0 ELSE IF n > d THEN d ELSE n
<1>0. /\ c \in Nat /\ p \in Nat /\ cap \in Nat /\ c <= cap /\ e \in Nat
      /\ Horizon \in Nat /\ TicksPerSecond \in Nat \ {0}
  BY ZonesAssumption, TimeAssumption DEF TypeOK, ZoneState
<1>1. Density(z) = Classify(c, cap) /\ Density(z) \in Int
  <2>1. Density(z) = Classify(c, cap)
    BY DEF Density
  <2> QED BY <2>1, <1>0, ClassifyType DEF Levels, Low, Critical
<1>2. CASE e < TicksPerSecond
  <2>1. Predicted(z) = Density(z)
    BY <1>2 DEF Predicted
  <2> QED BY <2>1, <1>1
<1>3. CASE ~(e < TicksPerSecond)
  <2>1. Predicted(z) = Classify(clamped, d)
    BY <1>3 DEF Predicted
  <2>2. e \in Nat \ {0}
    BY <1>0, <1>3
  <2>3. Density(z) = Classify(c * e, d)
    BY <1>0, <1>1, <2>2, ClassifyScale
  <2>4. c * e \in 0 .. d /\ d \in Nat /\ (c - p) * Horizon \in Int
    <3>1. \A x, y, m \in Nat : x <= y => x * m <= y * m /\ x * m \in Nat /\ y * m \in Nat
      OBVIOUS
    <3>2. \A x \in Int, m \in Nat : x * m \in Int
      OBVIOUS
    <3> HIDE DEF c, p, cap, e
    <3> QED BY <3>1, <3>2, <1>0
  <2>5. /\ c >= p => (c - p) * Horizon >= 0
        /\ c <= p => (c - p) * Horizon <= 0
    <3>1. \A x \in Int, m \in Nat : (x >= 0 => x * m >= 0) /\ (x <= 0 => x * m <= 0)
      OBVIOUS
    <3>2. c - p \in Int /\ (c >= p => c - p >= 0) /\ (c <= p => c - p <= 0)
      BY <1>0
    <3> QED BY <3>1, <3>2, <1>0
  <2>6. n \in Int /\ (c >= p => n >= c * e) /\ (c <= p => n <= c * e)
    <3>1. ASSUME NEW a \in Int, NEW b \in Int
          PROVE  a + b \in Int /\ (b >= 0 => a + b >= a) /\ (b <= 0 => a + b <= a)
      OBVIOUS
    <3>2. c * e \in Int
      BY <2>4
    <3> QED BY <3>1, <3>2, <2>4, <2>5
  <2>7. /\ n >= c * e => clamped >= c * e
        /\ n <= c * e => clamped <= c * e
        /\ clamped \in Int
    BY <2>4, <2>6, ClampSides
  <2>8. /\ clamped >= c * e => Classify(clamped, d) >= Classify(c * e, d)
        /\ clamped <= c * e => Classify(clamped, d) <= Classify(c * e, d)
    <3>1. \A x, y \in Int : x >= y <=> y <= x
      OBVIOUS
    <3>2. c * e \in Int
      BY <2>4
    <3>3. Classify(clamped, d) \in Int /\ Classify(c * e, d) \in Int
      BY <2>4, <2>7, <3>2, ClassifyType DEF Levels, Low, Critical
    <3> HIDE DEF clamped, d, c, e
    <3> QED BY <3>1, <3>2, <3>3, <2>4, <2>7, ClassifyMonotone
  <2> HIDE DEF clamped, n, d, c, p, e
  <2> QED BY <2>1, <2>3, <2>6, <2>7, <2>8 DEF c, p
<1> QED BY <1>2, <1>3

(* crowd_flow.py:174-201: the extrapolation never contradicts the trend it  *)
(* is computed from.                                                        *)
THEOREM PredictionIsSound == Spec => []PredictionFollowsTrend
BY TypeCorrect, TrendFromType, PTL

(* crowd_flow.py:233-251: a bottleneck that is not emptying is one for both *)
(* alarms of the snapshot.                                                  *)
THEOREM AlarmsAreConsistent == Spec => []AlarmsAgree
<1>1. TypeOK => AlarmsAgree
  <2> SUFFICES ASSUME TypeOK, NEW z \in Zones
               PROVE  /\ Bottleneck(z) <= 10 * CapacityOf[z]
                      /\ z \in Bottlenecks /\ zone[z].current >= zone[z].prev
                             => Bottleneck(z) > 8 * CapacityOf[z]
    BY DEF AlarmsAgree
  <2> DEFINE c == zone[z].current
             cap == CapacityOf[z]
  <2>1. c \in Nat /\ cap \in Nat \ {0} /\ c <= cap
    BY ZonesAssumption DEF TypeOK, ZoneState
  <2>2. Bottleneck(z) = 7 * c + (IF Predicted(z) >= High THEN 3 * cap ELSE 0)
    BY DEF Bottleneck
  <2>3. Bottleneck(z) <= 10 * cap
    BY <2>1, <2>2
  <2>4. ASSUME z \in Bottlenecks, c >= zone[z].prev
        PROVE  Bottleneck(z) > 8 * cap
    <3>1. Density(z) >= High /\ Density(z) = Classify(c, cap)
      BY <2>4 DEF Bottlenecks, Density
    <3>2. 4 * c >= 3 * cap
      BY <3>1, <2>1 DEF Classify, Low, Medium, High, Critical
    <3>3. Predicted(z) >= Density(z)
      BY <2>4, TrendFromType DEF PredictionFollowsTrend
    <3>4. Predicted(z) \in Int /\ Density(z) \in Int
      <4>1. zone[z] \in ZoneState
        BY DEF TypeOK
      <4> QED BY <4>1, <2>1, TimeAssumption, ClassifyType
              DEF Predicted, Density, Classify, ZoneState, Low, Medium, High, Critical
    <3>5. Predicted(z) >= High
      BY <3>1, <3>3, <3>4 DEF High
    <3> QED BY <2>1, <2>2, <3>2, <3>5
  <2> QED BY <2>3, <2>4
<1> QED BY <1>1, TypeCorrect, PTL

-----------------------------------------------------------------------------
(* The stadium's graph and the cost of a route, for Navigation.             *)

(* The fields of an edge of the graph.                                      *)
LEMMA EdgeShape ==
    ASSUME NEW e \in Edges
    PROVE  /\ e.from \in Zones /\ e.to \in Zones
           /\ e.weight \in Nat /\ e.accessible \in BOOLEAN
BY GraphAssumption DEF Edge

(* The graph is finite: an edge is known by the zones it joins.             *)
LEMMA EdgesFinite == IsFiniteSet(Edges)
<1> DEFINE ends == [e \in Edges |-> <<e.from, e.to>>]
<1>1. ends \in Injection(Edges, Zones \X Zones)
  <2>1. ends \in [Edges -> Zones \X Zones]
    BY EdgeShape
  <2>2. \A e, f \in Edges : ends[e] = ends[f] => e = f
    BY GraphAssumption
  <2> HIDE DEF ends
  <2> QED BY <2>1, <2>2 DEF Injection, IsInjective
<1>2. IsFiniteSet(Zones \X Zones)
  BY StadiumAssumption, FS_Product
<1> QED BY <1>1, <1>2, FS_Injection

(* What CostOf sums over.                                                   *)
LEMMA RouteEdges ==
    ASSUME NEW r
    PROVE  EdgesOf(r) \subseteq Edges /\ IsFiniteSet(EdgesOf(r))
<1>1. EdgesOf(r) \subseteq Edges
  BY DEF EdgesOf, EdgeBetween
<1> QED BY <1>1, EdgesFinite, FS_Subset

(* The sum behind CostOf: a function of the subsets of the edges that adds  *)
(* one edge after the other.                                                *)
First(s) == CHOOSE x \in s : TRUE

Adds(f, E, m) ==
    f = [s \in SUBSET E |-> IF s = {} THEN 0
             ELSE First(s).weight * m[First(s).to] + f[s \ {First(s)}]]

(* Taking one edge from a set of edges leaves a smaller one.                *)
LEMMA SubsetOfEdges ==
    ASSUME NEW E \in SUBSET Edges, IsFiniteSet(E), NEW m \in [Zones -> Nat],
           NEW s \in SUBSET E
    PROVE  /\ IsFiniteSet(s) /\ Cardinality(s) \in Nat /\ Cardinality(s) <= Cardinality(E)
           /\ Cardinality(s) = 0 => s = {}
           /\ s # {} => /\ First(s) \in s
                        /\ First(s).weight * m[First(s).to] \in Nat
                        /\ s \ {First(s)} \in SUBSET E
                        /\ Cardinality(s \ {First(s)}) = Cardinality(s) - 1
<1>1. IsFiniteSet(s) /\ Cardinality(s) \in Nat /\ Cardinality(s) <= Cardinality(E)
  BY FS_Subset, FS_CardinalityType
<1>2. Cardinality(s) = 0 => s = {}
  BY <1>1, FS_EmptySet
<1>3. ASSUME s # {}
      PROVE  /\ First(s) \in s
             /\ First(s).weight * m[First(s).to] \in Nat
             /\ s \ {First(s)} \in SUBSET E
             /\ Cardinality(s \ {First(s)}) = Cardinality(s) - 1
  <2>1. First(s) \in s
    BY <1>3 DEF First
  <2>2. First(s).weight \in Nat /\ m[First(s).to] \in Nat
    BY <2>1, EdgeShape
  <2>3. Cardinality(s \ {First(s)}) = Cardinality(s) - 1
    BY <1>1, <2>1, FS_RemoveElement
  <2> QED BY <2>1, <2>2, <2>3
<1> QED BY <1>1, <1>2, <1>3

(* Two sums over the same edges compare as their terms do.                  *)
LEMMA SumMonotone ==
    ASSUME NEW E \in SUBSET Edges, IsFiniteSet(E),
           NEW m \in [Zones -> Nat], NEW k \in [Zones -> Nat],
           \A e \in E : m[e.to] <= k[e.to],
           NEW f, NEW g, Adds(f, E, m), Adds(g, E, k)
    PROVE  /\ f \in [SUBSET E -> Nat]
           /\ f[E] <= g[E]
<1> DEFINE S == {n \in Nat : \A s \in SUBSET E : Cardinality(s) = n =>
                    f[s] \in Nat /\ g[s] \in Nat /\ f[s] <= g[s]}
<1>0. ASSUME NEW s \in SUBSET E
      PROVE  /\ f[s] = IF s = {} THEN 0
                       ELSE First(s).weight * m[First(s).to] + f[s \ {First(s)}]
             /\ g[s] = IF s = {} THEN 0
                       ELSE First(s).weight * k[First(s).to] + g[s \ {First(s)}]
  BY DEF Adds
<1>a. ASSUME NEW s \in SUBSET E
      PROVE  /\ Cardinality(s) \in Nat
             /\ Cardinality(s) = 0 => s = {}
             /\ s # {} => /\ First(s) \in s
                          /\ First(s).weight * m[First(s).to] \in Nat
                          /\ s \ {First(s)} \in SUBSET E
                          /\ Cardinality(s \ {First(s)}) = Cardinality(s) - 1
  BY SubsetOfEdges
<1>b. ASSUME NEW s \in SUBSET E, s # {}
      PROVE  First(s).weight * k[First(s).to] \in Nat
  BY <1>b, SubsetOfEdges
<1>1. 0 \in S
  <2> SUFFICES ASSUME NEW s \in SUBSET E, Cardinality(s) = 0
               PROVE  f[s] \in Nat /\ g[s] \in Nat /\ f[s] <= g[s]
    OBVIOUS
  <2>1. s = {}
    BY <1>a
  <2>2. f[s] = 0 /\ g[s] = 0
    BY <2>1 DEF Adds
  <2> QED BY <2>2
<1>2. ASSUME NEW n \in S PROVE n + 1 \in S
  <2> SUFFICES ASSUME NEW s \in SUBSET E, Cardinality(s) = n + 1
               PROVE  f[s] \in Nat /\ g[s] \in Nat /\ f[s] <= g[s]
    OBVIOUS
  <2> DEFINE e == First(s)
             t == s \ {e}
  <2>1. n \in Nat /\ n + 1 # 0
    OBVIOUS
  <2>2. s # {}
    BY <2>1, FS_EmptySet
  <2>3. /\ e \in s /\ t \in SUBSET E /\ Cardinality(t) = n
        /\ e.weight * m[e.to] \in Nat /\ e.weight * k[e.to] \in Nat
    <3>1. Cardinality(t) = Cardinality(s) - 1
      BY <2>2, <1>a
    <3>2. Cardinality(t) = n
      BY <3>1, <2>1
    <3> QED BY <3>2, <2>2, <1>a, <1>b
  <2>4. f[t] \in Nat /\ g[t] \in Nat /\ f[t] <= g[t]
    BY <2>3
  <2>5. e.weight * m[e.to] <= e.weight * k[e.to]
    <3>1. e.weight \in Nat /\ m[e.to] \in Nat /\ k[e.to] \in Nat /\ m[e.to] <= k[e.to]
      BY <2>3, EdgeShape
    <3>2. \A w, x, y \in Nat : x <= y => w * x <= w * y
      OBVIOUS
    <3> QED BY <3>1, <3>2
  <2>6. /\ f[s] = e.weight * m[e.to] + f[t]
        /\ g[s] = e.weight * k[e.to] + g[t]
    BY <1>0, <2>2
  <2>7. ASSUME NEW x \in Nat, NEW y \in Nat, x <= y
        PROVE  x + f[t] \in Nat /\ y + g[t] \in Nat /\ x + f[t] <= y + g[t]
    <3> HIDE DEF t
    <3> QED BY <2>4, <2>7
  <2> HIDE DEF e, t
  <2> QED BY <2>3, <2>5, <2>6, <2>7
<1>3. S = Nat
  <2> HIDE DEF S
  <2>1. S \in SUBSET Nat
    BY DEF S
  <2> QED BY <1>1, <1>2, <2>1, SetInduction
<1>4. ASSUME NEW s \in SUBSET E
      PROVE  f[s] \in Nat /\ f[s] <= g[s]
  <2>0. Cardinality(s) \in Nat
    BY <1>a
  <2>1. Cardinality(s) \in S
    <3> HIDE DEF S
    <3> QED BY <1>3, <2>0
  <2> QED BY <2>1
<1> QED BY <1>4 DEF Adds

(* There is such a sum, by induction on the size of the subset.             *)
LEMMA SumExists ==
    ASSUME NEW E \in SUBSET Edges, IsFiniteSet(E), NEW m \in [Zones -> Nat]
    PROVE  \E f \in [SUBSET E -> Nat] : Adds(f, E, m)
<1> DEFINE D(n) == {s \in SUBSET E : Cardinality(s) <= n}
           Step(f, s) == IF s = {} THEN 0
                         ELSE First(s).weight * m[First(s).to] + f[s \ {First(s)}]
           S == {n \in Nat : \E f \in [D(n) -> Nat] : \A s \in D(n) : f[s] = Step(f, s)}
<1>1. ASSUME NEW s \in SUBSET E
      PROVE  /\ IsFiniteSet(s) /\ Cardinality(s) \in Nat /\ Cardinality(s) <= Cardinality(E)
             /\ Cardinality(s) = 0 => s = {}
             /\ s # {} => /\ First(s) \in s
                          /\ First(s).weight * m[First(s).to] \in Nat
                          /\ s \ {First(s)} \in SUBSET E
                          /\ Cardinality(s \ {First(s)}) = Cardinality(s) - 1
  BY SubsetOfEdges
<1>2. 0 \in S
  <2>1. \A s \in D(0) : s = {}
    <3> SUFFICES ASSUME NEW s \in D(0) PROVE s = {}
      OBVIOUS
    <3>1. Cardinality(s) \in Nat /\ Cardinality(s) <= 0
      BY <1>1
    <3>2. Cardinality(s) = 0
      BY <3>1
    <3> QED BY <3>2, <1>1
  <2>2. [s \in D(0) |-> 0] \in [D(0) -> Nat]
    OBVIOUS
  <2>3. \A s \in D(0) : [t \in D(0) |-> 0][s] = Step([t \in D(0) |-> 0], s)
    BY <2>1
  <2> QED BY <2>2, <2>3
<1>3. ASSUME NEW n \in S PROVE n + 1 \in S
  <2>1. PICK f \in [D(n) -> Nat] : \A s \in D(n) : f[s] = Step(f, s)
    OBVIOUS
  <2> DEFINE g == [s \in D(n + 1) |-> Step(f, s)]
  <2>0. n \in Nat
    OBVIOUS
  <2>2. ASSUME NEW s \in D(n) PROVE s \in D(n + 1)
    <3>1. Cardinality(s) \in Nat /\ Cardinality(s) <= n
      BY <1>1
    <3> QED BY <3>1, <2>0
  <2>3. ASSUME NEW s \in D(n + 1), s # {} PROVE s \ {First(s)} \in D(n)
    <3>1. /\ Cardinality(s) \in Nat /\ Cardinality(s) <= n + 1
          /\ Cardinality(s \ {First(s)}) = Cardinality(s) - 1
          /\ s \ {First(s)} \in SUBSET E
      BY <1>1, <2>3
    <3> QED BY <3>1, <2>0
  <2>4. \A s \in D(n) : g[s] = f[s]
    BY <2>1, <2>2
  <2>5. \A s \in D(n + 1) : Step(f, s) \in Nat
    BY <1>1, <2>3
  <2>6. g \in [D(n + 1) -> Nat]
    BY <2>5
  <2>7. \A s \in D(n + 1) : g[s] = Step(g, s)
    <3> SUFFICES ASSUME NEW s \in D(n + 1) PROVE Step(f, s) = Step(g, s)
      OBVIOUS
    <3>1. CASE s = {}
      BY <3>1
    <3>2. CASE s # {}
      <4>1. g[s \ {First(s)}] = f[s \ {First(s)}]
        BY <2>3, <2>4, <3>2
      <4> HIDE DEF g
      <4> QED BY <4>1
    <3> QED BY <3>1, <3>2
  <2>8. n + 1 \in Nat
    BY <2>0
  <2> HIDE DEF g, D, Step
  <2> QED BY <2>6, <2>7, <2>8
<1>4. S = Nat
  <2> HIDE DEF S
  <2>1. S \in SUBSET Nat
    BY DEF S
  <2> QED BY <1>2, <1>3, <2>1, SetInduction
<1>5. Cardinality(E) \in Nat /\ D(Cardinality(E)) = SUBSET E
  BY <1>1, FS_CardinalityType
<1>6. Cardinality(E) \in S
  BY <1>4, <1>5
<1>7. PICK f \in [SUBSET E -> Nat] : \A s \in SUBSET E : f[s] = Step(f, s)
  BY <1>5, <1>6
<1>8. f = [s \in SUBSET E |-> Step(f, s)]
  BY <1>7
<1> QED BY <1>8 DEF Adds

(* CostOf is a sum of this kind.                                            *)
LEMMA CostAdds ==
    ASSUME NEW r, NEW m \in [Zones -> Nat]
    PROVE  \E f \in [SUBSET EdgesOf(r) -> Nat] :
               Adds(f, EdgesOf(r), m) /\ CostOf(r, m) = f[EdgesOf(r)]
<1> DEFINE E == EdgesOf(r)
           iter == CHOOSE f : f = [s \in SUBSET E |-> IF s = {} THEN 0
             ELSE (CHOOSE x \in s : TRUE).weight * m[(CHOOSE x \in s : TRUE).to]
                      + f[s \ {CHOOSE x \in s : TRUE}]]
<1>1. CostOf(r, m) = iter[E]
  BY DEF CostOf, MapThenSumSet, MapThenFoldSet
<1>2. PICK f \in [SUBSET E -> Nat] : Adds(f, E, m)
  BY RouteEdges, SumExists
<1>3. Adds(iter, E, m)
  <2>1. \E g : g = [s \in SUBSET E |-> IF s = {} THEN 0
             ELSE (CHOOSE x \in s : TRUE).weight * m[(CHOOSE x \in s : TRUE).to]
                      + g[s \ {CHOOSE x \in s : TRUE}]]
    BY <1>2 DEF Adds, First
  <2> QED BY <2>1, Zenon DEF Adds, First
<1>4. iter \in [SUBSET E -> Nat]
  <2>1. E \in SUBSET Edges /\ IsFiniteSet(E) /\ \A e \in E : m[e.to] <= m[e.to]
    BY RouteEdges, EdgeShape
  <2> HIDE DEF iter, E
  <2> QED BY <1>3, <2>1, SumMonotone
<1> HIDE DEF iter
<1> QED BY <1>1, <1>3, <1>4

(* What CostOf promises: a natural number, that does not fall when the     *)
(* multipliers of the zones the route enters rise.                          *)
LEMMA CostType ==
    ASSUME NEW r, NEW m \in [Zones -> Nat]
    PROVE  CostOf(r, m) \in Nat
<1>1. PICK f \in [SUBSET EdgesOf(r) -> Nat] : CostOf(r, m) = f[EdgesOf(r)]
  BY CostAdds
<1> QED BY <1>1

LEMMA CostMonotone ==
    ASSUME NEW r, NEW m \in [Zones -> Nat], NEW k \in [Zones -> Nat],
           \A e \in EdgesOf(r) : m[e.to] <= k[e.to]
    PROVE  CostOf(r, m) <= CostOf(r, k)
<1>1. PICK f \in [SUBSET EdgesOf(r) -> Nat] :
          Adds(f, EdgesOf(r), m) /\ CostOf(r, m) = f[EdgesOf(r)]
  BY CostAdds
<1>2. PICK g \in [SUBSET EdgesOf(r) -> Nat] :
          Adds(g, EdgesOf(r), k) /\ CostOf(r, k) = g[EdgesOf(r)]
  BY CostAdds
<1>3. f[EdgesOf(r)] <= g[EdgesOf(r)]
  BY <1>1, <1>2, RouteEdges, SumMonotone
<1> QED BY <1>1, <1>2, <1>3

(* A search that may return some route has a cheapest one to return.        *)
LEMMA CheapestExists ==
    ASSUME NEW S, S # {}, NEW m \in [Zones -> Nat]
    PROVE  CheapestOf(S, m) # {}
<1> DEFINE costs == {CostOf(r, m) : r \in S}
<1>1. costs \in SUBSET Nat /\ costs # {}
  BY CostType
<1>2. PICK least \in costs : \A c \in costs : least <= c
  <2> HIDE DEF costs
  <2> QED BY <1>1, LeastNat
<1>3. PICK r \in S : least = CostOf(r, m)
  OBVIOUS
<1>4. \A s \in S : CostOf(r, m) <= CostOf(s, m)
  BY <1>2, <1>3
<1> QED BY <1>4 DEF CheapestOf

-----------------------------------------------------------------------------
(* Routes: what they are, and how they grow and shrink.                     *)

(* A route is a nonempty sequence of distinct zones joined by edges.        *)
LEMMA RouteShape ==
    ASSUME NEW r \in Routes
    PROVE  /\ Len(r) \in Nat \ {0} /\ Len(r) <= Cardinality(Zones)
           /\ r \in [1 .. Len(r) -> Zones]
           /\ r \in Seq(Zones) /\ r # <<>>
           /\ \A i, j \in 1 .. Len(r) : r[i] = r[j] => i = j
           /\ \A i \in 1 .. Len(r) - 1 : EdgeBetween(r[i], r[i + 1]) # {}
<1>1. PICK n \in 1 .. Cardinality(Zones) : r \in RoutesOfLength(n)
  BY DEF Routes
<1>2. n \in Nat \ {0} /\ n <= Cardinality(Zones) /\ r \in [1 .. n -> Zones]
  BY <1>1, FS_CardinalityType, StadiumAssumption DEF RoutesOfLength
<1>3. Len(r) = n /\ r \in Seq(Zones) /\ r # <<>>
  BY <1>2
<1> QED BY <1>1, <1>2, <1>3 DEF RoutesOfLength

(* And every such sequence is one: it is no longer than there are zones.    *)
LEMMA IsRoute ==
    ASSUME NEW n \in Nat \ {0}, NEW r \in [1 .. n -> Zones],
           \A i, j \in 1 .. n : r[i] = r[j] => i = j,
           \A i \in 1 .. n - 1 : EdgeBetween(r[i], r[i + 1]) # {}
    PROVE  r \in Routes /\ Len(r) = n
<1>1. Cardinality(1 .. n) = n
  BY FS_Interval
<1>2. r \in Injection(1 .. n, Zones)
  BY DEF Injection, IsInjective
<1>3. n <= Cardinality(Zones) /\ Cardinality(Zones) \in Nat
  BY <1>1, <1>2, FS_Injection, FS_CardinalityType, StadiumAssumption
<1>4. n \in 1 .. Cardinality(Zones) /\ r \in RoutesOfLength(n)
  BY <1>3 DEF RoutesOfLength
<1>5. r \in Routes
  BY <1>4 DEF Routes
<1> QED BY <1>5

(* A route one stops on is a route.                                         *)
LEMMA RoutePrefix ==
    ASSUME NEW r \in Routes, NEW k \in 1 .. Len(r)
    PROVE  LET p == [i \in 1 .. k |-> r[i]]
           IN  /\ p \in Routes /\ Len(p) = k /\ p[1] = r[1] /\ p[k] = r[k]
               /\ EdgesOf(p) \subseteq EdgesOf(r)
<1> DEFINE p == [i \in 1 .. k |-> r[i]]
<1>1. /\ Len(r) \in Nat \ {0} /\ k \in Nat \ {0} /\ k <= Len(r)
      /\ r \in [1 .. Len(r) -> Zones]
      /\ \A i, j \in 1 .. Len(r) : r[i] = r[j] => i = j
      /\ \A i \in 1 .. Len(r) - 1 : EdgeBetween(r[i], r[i + 1]) # {}
  BY RouteShape
<1>2. p \in [1 .. k -> Zones] /\ \A i \in 1 .. k : p[i] = r[i] /\ i \in 1 .. Len(r)
  BY <1>1
<1>3. \A i \in 1 .. k - 1 : /\ i \in 1 .. Len(r) - 1 /\ p[i] = r[i] /\ p[i + 1] = r[i + 1]
  BY <1>1
<1> HIDE DEF p
<1>4. p \in Routes /\ Len(p) = k
  <2>1. \A i, j \in 1 .. k : p[i] = p[j] => i = j
    BY <1>1, <1>2
  <2>2. \A i \in 1 .. k - 1 : EdgeBetween(p[i], p[i + 1]) # {}
    BY <1>1, <1>3
  <2> QED BY <1>1, <1>2, <2>1, <2>2, IsRoute
<1>5. EdgesOf(p) \subseteq EdgesOf(r)
  BY <1>3, <1>4 DEF EdgesOf
<1>6. 1 \in 1 .. k /\ k \in 1 .. k
  BY <1>1
<1> QED BY <1>2, <1>4, <1>5, <1>6 DEF p

(* An edge to a zone the route has not been through makes it longer.        *)
LEMMA RouteExtended ==
    ASSUME NEW r \in Routes, NEW e \in Edges,
           e.from = r[Len(r)], \A i \in 1 .. Len(r) : r[i] # e.to
    PROVE  LET q == Append(r, e.to)
           IN  /\ q \in Routes /\ Len(q) = Len(r) + 1
               /\ q[1] = r[1] /\ q[Len(q)] = e.to
               /\ EdgesOf(q) \subseteq EdgesOf(r) \cup {e}
<1> DEFINE n == Len(r)
           q == Append(r, e.to)
<1>1. /\ n \in Nat \ {0} /\ r \in [1 .. n -> Zones] /\ r \in Seq(Zones)
      /\ \A i, j \in 1 .. n : r[i] = r[j] => i = j
      /\ \A i \in 1 .. n - 1 : EdgeBetween(r[i], r[i + 1]) # {}
      /\ e.to \in Zones
  BY RouteShape, EdgeShape
<1>2. /\ q \in [1 .. n + 1 -> Zones] /\ q[n + 1] = e.to
      /\ \A i \in 1 .. n : q[i] = r[i]
  <2>1. /\ q \in Seq(Zones) /\ Len(q) = n + 1 /\ q[n + 1] = e.to
        /\ \A i \in 1 .. n : q[i] = r[i]
    BY <1>1, AppendProperties
  <2>2. \A s \in Seq(Zones) : s \in [1 .. Len(s) -> Zones]
    OBVIOUS
  <2> HIDE DEF q, n
  <2> QED BY <2>1, <2>2
<1> HIDE DEF n, q
<1>3. \A i \in 1 .. n + 1 : i \in 1 .. n \/ i = n + 1
  BY <1>1
<1>4. \A i, j \in 1 .. n + 1 : q[i] = q[j] => i = j
  <2>1. \A i \in 1 .. n : r[i] # e.to
    BY DEF n
  <2> QED BY <1>1, <1>2, <1>3, <2>1
<1>5. ASSUME NEW i \in 1 .. n
      PROVE  EdgeBetween(q[i], q[i + 1]) =
                 IF i = n THEN {e} ELSE EdgeBetween(r[i], r[i + 1])
  <2>1. CASE i = n
    <3>1. EdgeBetween(e.from, e.to) = {e}
      BY GraphAssumption DEF EdgeBetween
    <3>2. q[i] = e.from /\ q[i + 1] = e.to
      BY <2>1, <1>1, <1>2 DEF n
    <3> QED BY <2>1, <3>1, <3>2
  <2>2. CASE i # n
    <3>1. i + 1 \in 1 .. n
      BY <2>2, <1>1
    <3> QED BY <2>2, <3>1, <1>2
  <2> QED BY <2>1, <2>2
<1>6. \A i \in 1 .. n : i # n => i \in 1 .. n - 1
  BY <1>1
<1>7. q \in Routes /\ Len(q) = n + 1
  <2>1. \A i \in 1 .. n : EdgeBetween(q[i], q[i + 1]) # {}
    BY <1>1, <1>5, <1>6
  <2>2. n + 1 \in Nat \ {0} /\ (n + 1) - 1 = n
    BY <1>1
  <2> QED BY <1>2, <1>4, <2>1, <2>2, IsRoute
<1>8. EdgesOf(q) \subseteq EdgesOf(r) \cup {e}
  <2> SUFFICES ASSUME NEW f \in EdgesOf(q) PROVE f \in EdgesOf(r) \cup {e}
    OBVIOUS
  <2>1. PICK i \in 1 .. n : f \in EdgeBetween(q[i], q[i + 1])
    <3>1. Len(q) - 1 = n
      BY <1>1, <1>7
    <3> QED BY <3>1 DEF EdgesOf
  <2>2. CASE i = n
    BY <2>1, <2>2, <1>5
  <2>3. CASE i # n
    <3>1. f \in EdgeBetween(r[i], r[i + 1])
      BY <2>1, <2>3, <1>5
    <3>2. i \in 1 .. Len(r) - 1
      BY <2>3, <1>6 DEF n
    <3> QED BY <3>1, <3>2 DEF EdgesOf
  <2> QED BY <2>2, <2>3
<1>9. 1 \in 1 .. n
  BY <1>1
<1> QED BY <1>2, <1>7, <1>8, <1>9 DEF q, n

-----------------------------------------------------------------------------
(* The request.  None of its properties is inductive by itself: they speak  *)
(* of the crowd of the plan, and the steps are built from the multipliers.  *)
(* Planned says that the multipliers are those of that crowd, that the route*)
(* is still a cheapest one under them, and that a refusal stands.           *)

MultipliersOf(crowd) == \A z \in Zones : multiplier[z] = MultiplierOf[crowd[z]]

PlannedRoute ==
    route # <<>> => Known /\ route \in Cheapest(multiplier, Excluded(multiplier))

PlannedFlag ==
    optimized => /\ route # <<>>
                 /\ \E naive \in Cheapest(FreeFlow, {}) : naive # route
                 /\ multiplier # FreeFlow \/ Excluded(multiplier) # {}

Refused == status = "400" => Known /\ Allowed(Excluded(multiplier)) = {}

StepsBuilt == \A i \in 1 .. Len(steps) : steps[i] = StepFor(i)

Planned ==
    /\ NavigationTypeOK
    /\ MultipliersOf(crowdThen)
    /\ PlannedRoute
    /\ PlannedFlag
    /\ Refused
    /\ StepsBuilt

(* The multipliers rise with the level, from 10 tenths to 80.               *)
LEMMA MultiplierValues ==
    /\ MultiplierOf[Low] = 10 /\ MultiplierOf[Medium] = 18
    /\ MultiplierOf[High] = 35 /\ MultiplierOf[Critical] = 80
    /\ Levels = {Low, Medium, High, Critical}
    /\ \A l \in Levels : MultiplierOf[l] \in Nat /\ MultiplierOf[l] >= 10
    /\ \A l \in Levels : l # Low => MultiplierOf[l] > 10
    /\ \A l \in Levels : l # Critical => MultiplierOf[l] < 80
    /\ \A l, k \in Levels : MultiplierOf[l] <= MultiplierOf[k] => l <= k
<1>1. Levels = {Low, Medium, High, Critical}
  BY DEF Levels, Low, Medium, High, Critical
<1>2. /\ MultiplierOf[Low] = 10 /\ MultiplierOf[Medium] = 18
      /\ MultiplierOf[High] = 35 /\ MultiplierOf[Critical] = 80
  BY <1>1 DEF MultiplierOf, Low, Medium, High, Critical
<1> QED BY <1>1, <1>2 DEF Low, Medium, High, Critical

(* The reverse map recovers the level a multiplier was made from.           *)
LEMMA LevelRecovered ==
    ASSUME NEW z, NEW l \in Levels, multiplier[z] = MultiplierOf[l]
    PROVE  LevelFor(z) = l
<1> DEFINE T == {k \in Levels : MultiplierOf[k] <= multiplier[z]}
<1>1. T \in SUBSET (0 .. 3) /\ l \in T
  BY MultiplierValues DEF Levels, Low, Critical
<1>2. \A k \in T : k <= l
  BY MultiplierValues
<1>3. Max(T) \in T /\ \A k \in T : k <= Max(T)
  <2> HIDE DEF T
  <2> QED BY <1>1, MaxIsMax, 3 \in Nat
<1>4. Max(T) <= l /\ l <= Max(T) /\ Max(T) \in Int /\ l \in Int
  BY <1>1, <1>2, <1>3
<1>5. Max(T) = l
  BY <1>4
<1> QED BY <1>5 DEF LevelFor

LEMMA DensityLevels ==
    ASSUME TypeOK, NEW z \in Zones
    PROVE  Density(z) \in Levels
<1>1. zone[z].current \in Int /\ CapacityOf[z] \in Int
  BY ZonesAssumption DEF TypeOK, ZoneState
<1> QED BY <1>1, ClassifyType DEF Density

LEMMA StepType ==
    ASSUME NavigationTypeOK, MultipliersOf(crowdThen), NEW i \in 1 .. Len(route)
    PROVE  StepFor(i) \in RouteStep
<1>1. route \in Routes /\ route[i] \in Zones /\ Len(route) \in Nat
      /\ (i # Len(route) => i + 1 \in 1 .. Len(route) /\ route[i + 1] \in Zones)
  <2>1. route # <<>>
    OBVIOUS
  <2>2. route \in Routes
    BY <2>1 DEF NavigationTypeOK
  <2> QED BY <2>2, RouteShape
<1>2. LevelFor(route[i]) \in Levels
  <2>1. /\ crowdThen[route[i]] \in Levels
        /\ multiplier[route[i]] = MultiplierOf[crowdThen[route[i]]]
    BY <1>1 DEF NavigationTypeOK, MultipliersOf
  <2> QED BY <2>1, LevelRecovered
<1>3. WarningFor(LevelFor(route[i])) \in Levels \cup {NoWarning}
  BY <1>2 DEF WarningFor
<1>4. SecondsFor(i) \in Nat
  <2>1. CASE i = Len(route)
    BY <2>1 DEF SecondsFor
  <2>2. CASE i # Len(route)
    <3>1. multiplier[route[i + 1]] \in Nat
      <4>1. route[i + 1] \in Zones
        BY <1>1, <2>2
      <4>2. \A z \in Zones : multiplier[z] \in Nat
        BY MultiplierValues DEF NavigationTypeOK
      <4> QED BY <4>1, <4>2
    <3> QED BY <2>2, <3>1 DEF SecondsFor
  <2> QED BY <2>1, <2>2
<1> QED BY <1>1, <1>2, <1>3, <1>4 DEF StepFor, RouteStep

LEMMA InitPlanned == NavigationInit => Planned
<1> SUFFICES ASSUME NavigationInit PROVE Planned
  OBVIOUS
<1>1. TypeOK
  BY InitTypeOK DEF NavigationInit
<1>2. crowdThen \in [Zones -> Levels]
  BY <1>1, DensityLevels DEF NavigationInit
<1>3. multiplier \in [Zones -> {MultiplierOf[l] : l \in Levels}]
  BY <1>1, DensityLevels DEF NavigationInit, DensityMultipliers
<1>4. steps = <<>> /\ Len(steps) = 0 /\ steps \in Seq(RouteStep) /\ route = <<>> /\ Len(route) = 0
  BY DEF NavigationInit
<1>5. NavigationTypeOK
  <2>1. /\ ingests \in 0 .. MaxIngests
        /\ request \in Requests /\ optimized \in BOOLEAN
        /\ status \in {"pending", "200", "400", "404"}
    <3>1. ingests \in 0 .. MaxIngests
      BY NavigationAssumption DEF NavigationInit
    <3>2. optimized = FALSE /\ status = "pending" /\ request \in Requests
      BY DEF NavigationInit
    <3> QED BY <3>1, <3>2
  <2>2. Len(steps) <= Len(route)
    BY <1>4
  <2> QED BY <1>1, <1>2, <1>3, <1>4, <2>1, <2>2 DEF NavigationTypeOK
<1>6. MultipliersOf(crowdThen)
  BY DEF NavigationInit, MultipliersOf, DensityMultipliers
<1>7. StepsBuilt
  BY <1>4 DEF StepsBuilt
<1> QED BY <1>4, <1>5, <1>6, <1>7
        DEF NavigationInit, Planned, PlannedRoute, PlannedFlag, Refused

(* A batch changes the crowd, and nothing of the request.                   *)
LEMMA SensePlanned == Planned /\ Sense => Planned'
<1> SUFFICES ASSUME Planned, Sense PROVE Planned'
  OBVIOUS
<1>1. TypeOK'
  <2>1. TypeOK /\ [Next]_crowdVars
    BY DEF Planned, NavigationTypeOK, Sense, Next
  <2> QED BY <2>1, NextTypeOK
<1>2. ingests' \in 0 .. MaxIngests
  BY NavigationAssumption DEF Planned, NavigationTypeOK, Sense
<1>3. /\ request' = request /\ multiplier' = multiplier /\ route' = route
      /\ optimized' = optimized /\ steps' = steps /\ status' = status
      /\ crowdThen' = crowdThen
  BY DEF Sense, callVars
<1>4. NavigationTypeOK'
  BY <1>1, <1>2, <1>3 DEF Planned, NavigationTypeOK
<1>5. StepsBuilt'
  BY <1>3 DEF Planned, StepsBuilt, StepFor, LevelFor, WarningFor, SecondsFor
<1> QED BY <1>3, <1>4, <1>5 DEF Planned, MultipliersOf, PlannedRoute, PlannedFlag, Refused,
           Known, Cheapest, Allowed, Excluded, Blocked, FreeFlow

LEMMA NotFoundPlanned == Planned /\ NotFound => Planned'
<1> SUFFICES ASSUME Planned, NotFound PROVE Planned'
  OBVIOUS
<1>1. TypeOK'
  BY DEF Planned, NavigationTypeOK, NotFound, TypeOK
<1>2. /\ request' = request /\ multiplier' = multiplier /\ route' = route
      /\ optimized' = optimized /\ steps' = steps /\ status' = "404"
      /\ crowdThen' = crowdThen /\ ingests' = ingests
  BY DEF NotFound
<1>3. NavigationTypeOK'
  BY <1>1, <1>2 DEF Planned, NavigationTypeOK
<1>4. StepsBuilt'
  BY <1>2 DEF Planned, StepsBuilt, StepFor, LevelFor, WarningFor, SecondsFor
<1>5. Refused'
  BY <1>2 DEF Refused
<1> QED BY <1>2, <1>3, <1>4, <1>5 DEF Planned, MultipliersOf, PlannedRoute, PlannedFlag,
           Known, Cheapest, Allowed, Excluded, Blocked, FreeFlow

(* The plan: everything that is derived later is fixed here, in one step.   *)
LEMMA PlanPlanned == Planned /\ Plan => Planned'
<1> SUFFICES ASSUME Planned, Plan PROVE Planned'
  OBVIOUS
<1> DEFINE m == DensityMultipliers
<1>1. TypeOK' /\ TypeOK
  BY DEF Planned, NavigationTypeOK, Plan, TypeOK
<1>2. /\ multiplier' = m /\ request' = request /\ steps' = steps /\ ingests' = ingests
      /\ crowdThen' = [z \in Zones |-> Density(z)] /\ route = <<>> /\ Known
  BY DEF Plan
<1>3. /\ crowdThen' \in [Zones -> Levels]
      /\ m \in [Zones -> {MultiplierOf[l] : l \in Levels}]
      /\ m \in [Zones -> Nat]
  <2>1. \A z \in Zones : Density(z) \in Levels
    BY <1>1, DensityLevels
  <2>2. m \in [Zones -> {MultiplierOf[l] : l \in Levels}]
    BY <2>1 DEF DensityMultipliers
  <2>3. {MultiplierOf[l] : l \in Levels} \subseteq Nat
    BY MultiplierValues
  <2> QED BY <1>2, <2>1, <2>2, <2>3
<1>4. steps = <<>> /\ Len(steps) = 0
  <2>1. steps \in Seq(RouteStep) /\ Len(steps) <= Len(route)
    BY DEF Planned, NavigationTypeOK
  <2>2. Len(route) = 0 /\ Len(steps) \in Nat
    BY <1>2, <2>1
  <2>3. Len(steps) = 0
    BY <2>1, <2>2
  <2> QED BY <2>1, <2>3
<1>5. MultipliersOf(crowdThen)'
  BY <1>2 DEF MultipliersOf, DensityMultipliers
<1>6. StepsBuilt'
  BY <1>2, <1>4 DEF StepsBuilt
<1>7. Known'
  BY <1>2 DEF Known
<1>9. CASE /\ Cheapest(m, Excluded(m)) = {} /\ status' = "400"
           /\ route' = route /\ optimized' = optimized
  <2>1. Allowed(Excluded(m)) = {}
    BY <1>3, <1>9, CheapestExists DEF Cheapest
  <2>2. Refused'
    BY <1>2, <1>7, <2>1 DEF Refused, Allowed, Excluded, Blocked
  <2>3. ~optimized
    BY <1>2 DEF Planned, PlannedFlag
  <2>4. PlannedRoute' /\ PlannedFlag'
    BY <1>2, <1>9, <2>3 DEF PlannedRoute, PlannedFlag
  <2>5. NavigationTypeOK'
    BY <1>1, <1>2, <1>3, <1>9 DEF Planned, NavigationTypeOK
  <2> QED BY <1>5, <1>6, <2>2, <2>4, <2>5 DEF Planned
<1>10. ASSUME NEW r \in Cheapest(m, Excluded(m)), NEW naive \in Cheapest(FreeFlow, {}),
              multiplier' = FreeFlow /\ Excluded(multiplier') = {} => r = naive,
              route' = r, optimized' = (r # naive), status' = status
       PROVE  Planned'
  <2>1. r \in Routes /\ r # <<>> /\ Len(r) \in Nat
    <3>1. r \in Routes
      BY DEF Cheapest, CheapestOf, Allowed, RoutesFor
    <3> QED BY <3>1, RouteShape
  <2>2. status = "pending"
    BY DEF Plan
  <2>3. PlannedRoute'
    BY <1>2, <1>7, <1>10 DEF PlannedRoute, Cheapest, Allowed, Excluded, Blocked
  <2>4. Cheapest(FreeFlow, {})' = Cheapest(FreeFlow, {})
    BY <1>2 DEF Cheapest, Allowed
  <2>5. PlannedFlag'
    <3>1. Excluded(multiplier)' = Excluded(multiplier') /\ FreeFlow' = FreeFlow
      BY <1>2 DEF Excluded, Blocked, FreeFlow
    <3> QED BY <1>10, <2>1, <2>4, <3>1 DEF PlannedFlag
  <2>6. Refused'
    BY <1>10, <2>2 DEF Refused
  <2>7. NavigationTypeOK'
    <3>1. route' \in Routes \cup {<<>>} /\ Len(steps') <= Len(route')
      BY <1>2, <1>4, <1>10, <2>1
    <3>2. optimized' \in BOOLEAN
      BY <1>10
    <3> QED BY <1>1, <1>2, <1>3, <1>10, <3>1, <3>2 DEF Planned, NavigationTypeOK
  <2> QED BY <1>5, <1>6, <2>3, <2>5, <2>6, <2>7 DEF Planned
<1> QED BY <1>2, <1>9, <1>10 DEF Plan

LEMMA GuidePlanned == Planned /\ Guide => Planned'
<1> SUFFICES ASSUME Planned, Guide PROVE Planned'
  OBVIOUS
<1> DEFINE i == Len(steps) + 1
<1>1. TypeOK'
  BY DEF Planned, NavigationTypeOK, Guide, TypeOK
<1>2. /\ request' = request /\ multiplier' = multiplier /\ route' = route
      /\ optimized' = optimized /\ crowdThen' = crowdThen /\ ingests' = ingests
      /\ steps' = Append(steps, StepFor(i)) /\ status' \in {"pending", "200"}
  BY DEF Guide
<1>3. steps \in Seq(RouteStep) /\ Len(steps) \in Nat
  BY DEF Planned, NavigationTypeOK
<1>4. Len(route) \in Nat
  <2>1. CASE route = <<>>
    BY <2>1
  <2>2. CASE route # <<>>
    BY <2>2, RouteShape DEF Planned, NavigationTypeOK
  <2> QED BY <2>1, <2>2
<1>5. i \in 1 .. Len(route) /\ i <= Len(route)
  BY <1>3, <1>4 DEF Guide
<1>6. StepFor(i) \in RouteStep
  BY <1>5, StepType DEF Planned
<1>7. /\ steps' \in Seq(RouteStep) /\ Len(steps') = i /\ steps'[i] = StepFor(i)
      /\ \A j \in 1 .. Len(steps) : steps'[j] = steps[j]
  BY <1>2, <1>3, <1>6, AppendProperties
<1>8. NavigationTypeOK'
  <2>1. Len(steps') <= Len(route')
    BY <1>2, <1>5, <1>7
  <2> QED BY <1>1, <1>2, <1>7, <2>1 DEF Planned, NavigationTypeOK
<1>9. \A j : StepFor(j)' = StepFor(j)
  BY <1>2 DEF StepFor, LevelFor, WarningFor, SecondsFor
<1>10. StepsBuilt'
  <2> SUFFICES ASSUME NEW j \in 1 .. Len(steps') PROVE steps'[j] = StepFor(j)
    BY <1>9 DEF StepsBuilt
  <2>1. j = i \/ j \in 1 .. Len(steps)
    BY <1>3, <1>7
  <2> HIDE DEF i
  <2> QED BY <1>7, <2>1 DEF Planned, StepsBuilt
<1>11. Refused'
  BY <1>2 DEF Refused
<1> QED BY <1>2, <1>8, <1>10, <1>11 DEF Planned, MultipliersOf, PlannedRoute, PlannedFlag,
           Known, Cheapest, Allowed, Excluded, Blocked, FreeFlow

LEMMA NextPlanned == Planned /\ [NavigationNext]_navigationVars => Planned'
<1> SUFFICES ASSUME Planned, UNCHANGED navigationVars PROVE Planned'
  BY SensePlanned, NotFoundPlanned, PlanPlanned, GuidePlanned DEF NavigationNext
<1>1. TypeOK'
  BY DEF Planned, NavigationTypeOK, navigationVars, TypeOK
<1>2. NavigationTypeOK'
  BY <1>1 DEF Planned, NavigationTypeOK, navigationVars
<1>3. StepsBuilt'
  BY DEF Planned, StepsBuilt, StepFor, LevelFor, WarningFor, SecondsFor, navigationVars
<1> QED BY <1>2, <1>3 DEF Planned, MultipliersOf, PlannedRoute, PlannedFlag, Refused,
           Known, Cheapest, Allowed, Excluded, Blocked, FreeFlow, navigationVars

(* navigation.py:112-247: from the plan to the last step, whatever batches  *)
(* arrive, the answer is built from the one plan.                           *)
THEOREM PlanStands == NavigationSpec => []Planned
BY InitPlanned, NextPlanned, PTL DEF NavigationSpec

-----------------------------------------------------------------------------

(* Every zone a route enters is entered by one of its edges.                *)
LEMMA EnteredBy ==
    ASSUME NEW r \in Routes, NEW i \in 2 .. Len(r)
    PROVE  \E e \in EdgesOf(r) : e.to = r[i]
<1>1. i - 1 \in 1 .. Len(r) - 1 /\ (i - 1) + 1 = i
  BY RouteShape
<1>2. EdgeBetween(r[i - 1], r[i]) # {}
  BY <1>1, RouteShape
<1>3. PICK e \in EdgeBetween(r[i - 1], r[i]) : TRUE
  BY <1>2
<1>4. e \in EdgesOf(r)
  <2>1. EdgeBetween(r[i - 1], r[i]) = EdgeBetween(r[i - 1], r[(i - 1) + 1])
    BY <1>1
  <2> QED BY <1>1, <1>3, <2>1 DEF EdgesOf
<1> QED BY <1>3, <1>4 DEF EdgeBetween

LEMMA EntersRoute ==
    ASSUME NEW r \in Routes, NEW e \in EdgesOf(r)
    PROVE  \E i \in 2 .. Len(r) : e.to = r[i]
<1>1. PICK i \in 1 .. Len(r) - 1 : e \in EdgeBetween(r[i], r[i + 1])
  BY DEF EdgesOf
<1>2. i + 1 \in 2 .. Len(r) /\ e.to = r[i + 1]
  BY <1>1, RouteShape DEF EdgeBetween
<1> QED BY <1>2

(* navigation.py:118-129: what a route avoids, it avoids whatever the crowd *)
(* does before the answer is complete.                                      *)
THEOREM RoutesKeepClear == NavigationSpec => []KeepsClear
<1>1. Planned => KeepsClear
  <2> SUFFICES ASSUME Planned, NEW i \in 2 .. Len(route)
               PROVE  /\ route[i] \notin request.avoid
                      /\ i < Len(route) => crowdThen[route[i]] # Critical
    BY DEF KeepsClear
  <2>1. route # <<>>
    OBVIOUS
  <2>2. /\ route \in Routes /\ route[1] = request.origin
        /\ route[Len(route)] = request.destination
        /\ \A e \in EdgesOf(route) : e.to \notin Excluded(multiplier)
    BY <2>1 DEF Planned, PlannedRoute, Cheapest, CheapestOf, Allowed, RoutesFor
  <2>3. PICK e \in EdgesOf(route) : e.to = route[i]
    BY <2>2, EnteredBy
  <2>4. route[i] \notin Excluded(multiplier)
    BY <2>2, <2>3
  <2>5. ASSUME i < Len(route), crowdThen[route[i]] = Critical
        PROVE  FALSE
    <3>1. /\ Len(route) \in Nat /\ i \in 1 .. Len(route) /\ 1 \in 1 .. Len(route)
          /\ Len(route) \in 1 .. Len(route) /\ i # 1 /\ i # Len(route)
          /\ route[i] \in Zones
          /\ \A j, k \in 1 .. Len(route) : route[j] = route[k] => j = k
      BY <2>2, <2>5, RouteShape
    <3>2. route[i] # request.origin /\ route[i] # request.destination
      BY <2>2, <3>1
    <3>3. multiplier[route[i]] = 80
      BY <2>5, <3>1, MultiplierValues DEF Planned, MultipliersOf
    <3>4. route[i] \in Blocked(multiplier)
      BY <3>1, <3>3, MultiplierValues DEF Blocked
    <3> QED BY <2>4, <3>2, <3>4 DEF Excluded
  <2> QED BY <2>4, <2>5 DEF Excluded
<1> QED BY <1>1, PlanStands, PTL

(* navigation.py:115, :188-215: the levels and the warnings of an answer    *)
(* are all about the crowd of the plan.                                     *)
THEOREM AnswersOfOneCrowd == NavigationSpec => []OneCrowdPerRoute
<1>1. ASSUME Planned, NEW i \in 1 .. Len(steps)
      PROVE  /\ steps[i].zone = route[i]
             /\ steps[i].level = crowdThen[route[i]]
             /\ (steps[i].warning # NoWarning) <=> crowdThen[route[i]] >= High
  <2>1. Len(steps) \in Nat /\ Len(steps) <= Len(route)
    BY <1>1 DEF Planned, NavigationTypeOK
  <2>2. route # <<>>
    BY <2>1
  <2>3. route \in Routes /\ Len(route) \in Nat /\ route[i] \in Zones
    <3>1. route \in Routes
      BY <1>1, <2>2 DEF Planned, NavigationTypeOK
    <3>2. Len(route) \in Nat /\ i \in 1 .. Len(route)
      BY <2>1, <3>1, RouteShape
    <3> QED BY <3>1, <3>2, RouteShape
  <2>4. /\ crowdThen[route[i]] \in Levels
        /\ multiplier[route[i]] = MultiplierOf[crowdThen[route[i]]]
    BY <1>1, <2>3 DEF Planned, NavigationTypeOK, MultipliersOf
  <2>5. LevelFor(route[i]) = crowdThen[route[i]]
    BY <2>4, LevelRecovered
  <2>6. steps[i] = StepFor(i)
    BY <1>1 DEF Planned, StepsBuilt
  <2>7. (WarningFor(crowdThen[route[i]]) # NoWarning) <=> crowdThen[route[i]] >= High
    BY <2>4, NavigationAssumption, MultiplierValues
       DEF WarningFor, Low, Medium, High, Critical
  <2> QED BY <2>5, <2>6, <2>7 DEF StepFor
<1>2. Planned => OneCrowdPerRoute
  BY <1>1 DEF OneCrowdPerRoute
<1> QED BY <1>2, PlanStands, PTL

(* A route without congestion costs the same with the crowd as without it,  *)
(* and the search of a fan who avoids nothing may return it.                *)
LEMMA UncongestedRoute ==
    ASSUME Planned, request.avoid = {}, NEW r \in Cheapest(FreeFlow, {}), ~Congested(r)
    PROVE  /\ r \in Allowed(Excluded(multiplier))
           /\ CostOf(r, multiplier) <= CostOf(r, FreeFlow)
<1>1. /\ r \in Routes /\ r[1] = request.origin /\ r[Len(r)] = request.destination
      /\ \A e \in EdgesOf(r) : request.accessibleOnly => e.accessible
  BY DEF Cheapest, CheapestOf, Allowed, RoutesFor
<1>2. ASSUME NEW e \in EdgesOf(r)
      PROVE  e.to \in Zones /\ multiplier[e.to] = 10
  <2>1. PICK i \in 2 .. Len(r) : e.to = r[i]
    BY <1>1, EntersRoute
  <2>2. e.to \in Zones
    BY RouteEdges, EdgeShape
  <2>3. ~(crowdThen[e.to] > Low)
    BY <2>1 DEF Congested
  <2>4. crowdThen[e.to] = Low
    <3>1. crowdThen[e.to] \in Levels
      BY <2>2 DEF Planned, NavigationTypeOK
    <3> QED BY <2>3, <3>1 DEF Levels, Low, Critical
  <2> QED BY <2>2, <2>4, MultiplierValues DEF Planned, MultipliersOf
<1>3. \A e \in EdgesOf(r) : e.to \notin Excluded(multiplier)
  BY <1>2, MultiplierValues DEF Excluded, Blocked
<1>4. multiplier \in [Zones -> Nat] /\ FreeFlow \in [Zones -> Nat]
  BY MultiplierValues DEF Planned, NavigationTypeOK, FreeFlow
<1>5. \A e \in EdgesOf(r) : multiplier[e.to] <= FreeFlow[e.to]
  BY <1>2 DEF FreeFlow
<1> QED BY <1>1, <1>3, <1>4, <1>5, CostMonotone DEF Allowed, RoutesFor

(* What is left of the flag's promise for a fan who avoids nothing: there   *)
(* is a crowd somewhere, and it is on the shortest route if that is unique. *)
FlagIsEarned ==
    optimized /\ request.avoid = {} =>
        /\ \E z \in Zones : crowdThen[z] # Low
        /\ \A naive : Cheapest(FreeFlow, {}) = {naive} => Congested(naive)

(* navigation.py:149-156: the two searches differ in nothing but the crowd  *)
(* when the fan avoids no zone, so a flag that is set owes it to the crowd. *)
THEOREM FlagNeedsACrowd == NavigationSpec => []FlagIsEarned
<1>1. ASSUME Planned, optimized, request.avoid = {}
      PROVE  \E z \in Zones : crowdThen[z] # Low
  <2> SUFFICES ASSUME \A z \in Zones : crowdThen[z] = Low PROVE FALSE
    OBVIOUS
  <2>1. \A z \in Zones : multiplier[z] = 10
    BY <1>1, MultiplierValues DEF Planned, MultipliersOf
  <2>2. multiplier = FreeFlow
    BY <1>1, <2>1 DEF Planned, NavigationTypeOK, FreeFlow
  <2>3. Excluded(multiplier) = {}
    BY <1>1, <2>1, MultiplierValues DEF Excluded, Blocked
  <2> QED BY <1>1, <2>2, <2>3 DEF Planned, PlannedFlag
<1>2. ASSUME Planned, optimized, request.avoid = {},
             NEW shortest, Cheapest(FreeFlow, {}) = {shortest}
      PROVE  Congested(shortest)
  <2> SUFFICES ASSUME ~Congested(shortest) PROVE FALSE
    OBVIOUS
  <2>1. shortest # route /\ shortest \in Cheapest(FreeFlow, {})
    BY <1>2 DEF Planned, PlannedFlag
  <2>2. route \in Cheapest(multiplier, Excluded(multiplier))
    BY <1>2 DEF Planned, PlannedFlag, PlannedRoute
  <2>3. multiplier \in [Zones -> Nat] /\ FreeFlow \in [Zones -> Nat]
    BY <1>2, MultiplierValues DEF Planned, NavigationTypeOK, FreeFlow
  <2>4. /\ shortest \in Allowed(Excluded(multiplier))
        /\ CostOf(shortest, multiplier) <= CostOf(shortest, FreeFlow)
    BY <1>2, <2>1, UncongestedRoute
  <2>5. CostOf(route, multiplier) <= CostOf(shortest, multiplier)
    BY <2>2, <2>4 DEF Cheapest, CheapestOf
  <2>6. CostOf(route, FreeFlow) <= CostOf(route, multiplier)
    <3>1. \A e \in EdgesOf(route) : FreeFlow[e.to] <= multiplier[e.to]
      <4> SUFFICES ASSUME NEW e \in EdgesOf(route) PROVE 10 <= multiplier[e.to]
        BY RouteEdges, EdgeShape DEF FreeFlow
      <4>1. e.to \in Zones
        BY RouteEdges, EdgeShape
      <4>2. \A l \in Levels : 10 <= MultiplierOf[l]
        BY MultiplierValues
      <4> QED BY <1>2, <4>1, <4>2 DEF Planned, NavigationTypeOK
    <3> QED BY <2>3, <3>1, CostMonotone
  <2>7. /\ CostOf(route, FreeFlow) \in Nat /\ CostOf(route, multiplier) \in Nat
        /\ CostOf(shortest, FreeFlow) \in Nat /\ CostOf(shortest, multiplier) \in Nat
    BY <2>3, CostType
  <2>8. CostOf(route, FreeFlow) <= CostOf(shortest, FreeFlow)
    BY <2>4, <2>5, <2>6, <2>7
  <2>9. \A s \in Allowed({}) : CostOf(shortest, FreeFlow) <= CostOf(s, FreeFlow)
                              /\ CostOf(s, FreeFlow) \in Nat
    BY <2>1, <2>3, CostType DEF Cheapest, CheapestOf
  <2>10. route \in Allowed({})
    BY <2>2 DEF Cheapest, CheapestOf, Allowed, RoutesFor
  <2>11. \A s \in Allowed({}) : CostOf(route, FreeFlow) <= CostOf(s, FreeFlow)
    BY <2>7, <2>8, <2>9
  <2>12. route \in Cheapest(FreeFlow, {})
    BY <2>10, <2>11 DEF Cheapest, CheapestOf
  <2> QED BY <1>2, <2>1, <2>12
<1>3. Planned => FlagIsEarned
  BY <1>1, <1>2 DEF FlagIsEarned
<1> QED BY <1>3, PlanStands, PTL

(* An edge the search may follow is not closed to the fan.                  *)
LEMMA OpenEdge ==
    ASSUME Planned, NEW e \in Edges, ~Closed(e), e.to # request.origin
    PROVE  /\ e.to \notin Excluded(multiplier)
           /\ request.accessibleOnly => e.accessible
<1>1. e.to \in Zones
  BY EdgeShape
<1>2. e.to \notin request.avoid /\ (request.accessibleOnly => e.accessible)
  BY DEF Closed
<1>3. crowdThen[e.to] # Critical \/ e.to = request.destination
  BY DEF Closed
<1>4. crowdThen[e.to] # Critical => multiplier[e.to] < 80
  <2>1. crowdThen[e.to] \in Levels
    BY <1>1 DEF Planned, NavigationTypeOK
  <2>2. multiplier[e.to] = MultiplierOf[crowdThen[e.to]]
    BY <1>1 DEF Planned, MultipliersOf
  <2>3. \A l \in Levels : l # Critical => MultiplierOf[l] < 80
    BY MultiplierValues
  <2> QED BY <2>1, <2>2, <2>3
<1>5. crowdThen[e.to] # Critical => e.to \notin Blocked(multiplier)
  <2> SUFFICES ASSUME multiplier[e.to] < 80, multiplier[e.to] >= 80 PROVE FALSE
    BY <1>4, MultiplierValues DEF Blocked
  <2>1. multiplier[e.to] \in Nat
    <3>1. \A z \in Zones : multiplier[z] \in Nat
      BY MultiplierValues DEF Planned, NavigationTypeOK
    <3> QED BY <1>1, <3>1
  <2> QED BY <2>1
<1> QED BY <1>2, <1>3, <1>5 DEF Excluded

(* navigation.py:123-147: the zones the fan can still reach are the cut.    *)
(* A closed edge leads out of them wherever one does, for else the route to *)
(* its start would go on.                                                   *)
THEOREM RefusalsHaveACut == NavigationSpec => []RefusedOnlyBehindCut
<1>1. Planned => RefusedOnlyBehindCut
  <2> SUFFICES ASSUME Planned, status = "400"
               PROVE  \E S \in SUBSET Zones :
                        /\ request.origin \in S /\ request.destination \notin S
                        /\ \A e \in Edges : e.from \in S /\ e.to \notin S => Closed(e)
    BY DEF RefusedOnlyBehindCut
  <2> DEFINE Open(e) == /\ e.to \notin Excluded(multiplier)
                        /\ request.accessibleOnly => e.accessible
             Leads(r, z) == /\ r[1] = request.origin /\ r[Len(r)] = z
                            /\ \A e \in EdgesOf(r) : Open(e)
             S == {z \in Zones : \E r \in Routes : Leads(r, z)}
  <2>1. /\ request.origin \in Zones /\ request.destination \in Zones
        /\ Allowed(Excluded(multiplier)) = {}
    BY DEF Planned, Refused, Known
  <2>2. request.origin \in S
    <3> DEFINE here == [i \in 1 .. 1 |-> request.origin]
    <3>1. here \in [1 .. 1 -> Zones] /\ here[1] = request.origin
      BY <2>1
    <3>2. \A i \in 1 .. 1 - 1 : EdgeBetween(here[i], here[i + 1]) # {}
      OBVIOUS
    <3>3. \A i, j \in 1 .. 1 : here[i] = here[j] => i = j
      OBVIOUS
    <3> HIDE DEF here
    <3>4. here \in Routes /\ Len(here) = 1
      <4>1. 1 \in Nat \ {0}
        OBVIOUS
      <4> QED BY <3>1, <3>2, <3>3, <4>1, IsRoute, Zenon
    <3>5. EdgesOf(here) = {}
      BY <3>4 DEF EdgesOf
    <3> QED BY <2>1, <3>1, <3>4, <3>5
  <2>3. request.destination \notin S
    BY <2>1 DEF Allowed, RoutesFor
  <2>4. ASSUME NEW e \in Edges, e.from \in S, e.to \notin S, ~Closed(e)
        PROVE  FALSE
    <3>1. PICK r \in Routes : Leads(r, e.from)
      BY <2>4
    <3>2. Open(e) /\ e.to \in Zones
      BY <2>2, <2>4, OpenEdge, EdgeShape
    <3>3. \A i \in 1 .. Len(r) : r[i] # e.to
      <4> SUFFICES ASSUME NEW i \in 1 .. Len(r), r[i] = e.to PROVE e.to \in S
        BY <2>4
      <4> DEFINE p == [j \in 1 .. i |-> r[j]]
      <4>1. /\ p \in Routes /\ Len(p) = i /\ p[1] = r[1] /\ p[i] = r[i]
            /\ EdgesOf(p) \subseteq EdgesOf(r)
        BY RoutePrefix
      <4> HIDE DEF p
      <4>2. Leads(p, e.to)
        BY <3>1, <4>1
      <4> QED BY <3>2, <4>1, <4>2
    <3> DEFINE q == Append(r, e.to)
    <3>4. /\ q \in Routes /\ q[1] = r[1] /\ q[Len(q)] = e.to
          /\ EdgesOf(q) \subseteq EdgesOf(r) \cup {e}
      BY <3>1, <3>3, RouteExtended
    <3> HIDE DEF q
    <3>5. Leads(q, e.to)
      BY <3>1, <3>2, <3>4
    <3> QED BY <2>4, <3>2, <3>4, <3>5
  <2>5. S \in SUBSET Zones
    OBVIOUS
  <2> HIDE DEF S
  <2> QED BY <2>2, <2>3, <2>4, <2>5
<1> QED BY <1>1, PlanStands, PTL

(* navigation.py:188-247: every field of a step and of the answer keeps its *)
(* type, and there are never more steps than zones on the route.            *)
THEOREM NavigationTypes == NavigationSpec => []NavigationTypeOK
<1>1. Planned => NavigationTypeOK
  BY DEF Planned
<1> QED BY <1>1, PlanStands, PTL

(* services/navigation.py only reads the crowd: while a request is served   *)
(* the crowd model goes through the states CrowdFlow describes, and all that *)
(* is proved of it above holds.                                             *)
THEOREM RequestsKeepTheCrowd == NavigationSpec => Spec
<1>1. NavigationInit => Init
  BY DEF NavigationInit
<1>2. [NavigationNext]_navigationVars => [Next]_crowdVars
  BY DEF NavigationNext, navigationVars, crowdVars, Next, Sense, NotFound, Plan, Guide
<1> QED BY <1>1, <1>2, PTL DEF NavigationSpec, Spec
=============================================================================
