------------------------ MODULE InMemoryCacheProofs ------------------------
(***************************************************************************)
(* TLAPS proofs about InMemoryCache, for every finite set of keys, every   *)
(* set of values and TTLs and every size: its bound, the order of its dict *)
(* and that it implements CacheContract.                                   *)
(*                                                                         *)
(* What makes the contract inductive is the relation between the dict and  *)
(* the history: an entry is the last value written, the keys after an      *)
(* entry were all used since it was, and a live key that is missing has    *)
(* seen MaxSize other keys used.  The last follows when set drops the      *)
(* oldest of MaxSize + 1 entries: the other MaxSize stand after it.        *)
(***************************************************************************)
EXTENDS InMemoryCache, FiniteSetTheorems, TLAPS

Alive(k) == written[k] # Nothing /\ now <= written[k].expires

Faithful == \A k \in Stored : store[k] = written[k]

After == \A k \in Stored : newer[k] \subseteq Stored \ {k} /\ newer[k] \subseteq since[k]

Ordered == \A j, k \in Stored : j # k => (j \in newer[k] <=> k \notin newer[j])

Forgotten ==
    \A k \in Keys \ Stored : Alive(k) => Cardinality(since[k]) >= MaxSize

IInv == Typed /\ SizeBound /\ Faithful /\ After /\ Ordered /\ Forgotten

(* Cardinalities of sets of keys are naturals and grow with the set.        *)
LEMMA KeySets ==
    ASSUME NEW S \in SUBSET Keys, NEW T \in SUBSET S
    PROVE  /\ IsFiniteSet(S) /\ IsFiniteSet(T)
           /\ Cardinality(S) \in Nat /\ Cardinality(T) \in Nat
           /\ Cardinality(T) <= Cardinality(S)
<1>1. IsFiniteSet(S)
  BY CacheAssumption, FS_Subset
<1> QED BY <1>1, FS_Subset, FS_CardinalityType

LEMMA InitIInv == Init => IInv
<1> SUFFICES ASSUME Init PROVE IInv
  OBVIOUS
<1>1. Stored = {}
  BY DEF Init, Stored
<1>2. Typed
  BY <1>1, CacheAssumption DEF Init, Typed
<1>3. SizeBound
  BY <1>1, FS_EmptySet, CacheAssumption DEF SizeBound
<1>4. \A k \in Keys : ~Alive(k)
  BY DEF Init, Alive
<1> QED BY <1>1, <1>2, <1>3, <1>4 DEF IInv, Faithful, After, Ordered, Forgotten

(* Using a key only adds to what was used since the other keys were.        *)
LEMMA TouchedGrows ==
    ASSUME Typed, NEW k \in Keys, since' = Touched(k)
    PROVE  /\ since' \in [Keys -> SUBSET Keys]
           /\ \A j \in Keys \ {k} : since'[j] = since[j] \cup {k}
           /\ \A j \in Keys \ {k} : Cardinality(since[j]) >= MaxSize
                                      => Cardinality(since'[j]) >= MaxSize
<1>1. /\ since' \in [Keys -> SUBSET Keys]
      /\ \A j \in Keys \ {k} : since'[j] = since[j] \cup {k}
  BY DEF Touched, Typed
<1>2. ASSUME NEW j \in Keys \ {k}, Cardinality(since[j]) >= MaxSize
      PROVE  Cardinality(since'[j]) >= MaxSize
  <2>1. since'[j] \in SUBSET Keys /\ since[j] \in SUBSET since'[j]
    BY <1>1
  <2>2. /\ Cardinality(since[j]) \in Nat /\ Cardinality(since'[j]) \in Nat
        /\ Cardinality(since[j]) <= Cardinality(since'[j])
    BY <2>1, KeySets
  <2> QED BY <2>2, <1>2, CacheAssumption
<1> QED BY <1>1, <1>2

(* The dict without some of its keys.                                       *)
LEMMA Without ==
    ASSUME IInv, NEW gone \in SUBSET Keys,
           store' = StoreWithout(gone), newer' = NewerWithout(gone)
    PROVE  /\ Stored' = Stored \ gone
           /\ store' \in [Stored' -> Entry]
           /\ newer' \in [Keys -> SUBSET Keys]
           /\ \A k \in Stored' : store'[k] = store[k] /\ newer'[k] = newer[k] \ gone
           /\ SizeBound'
<1>1. /\ Stored' = Stored \ gone
      /\ store' \in [Stored' -> Entry]
      /\ newer' \in [Keys -> SUBSET Keys]
      /\ \A k \in Stored' : store'[k] = store[k] /\ newer'[k] = newer[k] \ gone
  BY DEF Stored, StoreWithout, NewerWithout, IInv, Typed
<1>2. SizeBound'
  <2>1. Stored \in SUBSET Keys /\ Stored' \in SUBSET Stored
    BY <1>1 DEF IInv, Typed
  <2>2. /\ Cardinality(Stored) \in Nat /\ Cardinality(Stored') \in Nat
        /\ Cardinality(Stored') <= Cardinality(Stored)
    BY <2>1, KeySets
  <2> QED BY <2>2, CacheAssumption DEF IInv, SizeBound
<1> QED BY <1>1, <1>2

LEMMA GetAbsentPreserves ==
    ASSUME IInv, NEW k \in Keys, GetAbsent(k)
    PROVE  IInv'
BY DEF GetAbsent, IInv, Typed, SizeBound, Faithful, After, Ordered, Forgotten, Alive, Stored

LEMMA GetExpiredPreserves ==
    ASSUME IInv, NEW k \in Keys, GetExpired(k)
    PROVE  IInv'
<1>1. /\ Stored' = Stored \ {k}
      /\ store' \in [Stored' -> Entry]
      /\ newer' \in [Keys -> SUBSET Keys]
      /\ \A j \in Stored' : store'[j] = store[j] /\ newer'[j] = newer[j] \ {k}
      /\ SizeBound'
  BY Without DEF GetExpired
<1>2. now' = now /\ written' = written /\ since' = since /\ reply' = Nothing
  BY DEF GetExpired
<1>3. ~Alive(k)
  <2>1. k \in Stored /\ now > store[k].expires /\ store[k] = written[k]
    BY DEF GetExpired, IInv, Faithful
  <2>2. store[k].expires \in Nat /\ now \in Nat
    BY <2>1 DEF IInv, Typed, Entry
  <2> QED BY <2>1, <2>2 DEF Alive
<1>4. Typed'
  BY <1>1, <1>2 DEF IInv, Typed
<1>5. Forgotten'
  BY <1>1, <1>2, <1>3 DEF IInv, Forgotten, Alive
<1> QED BY <1>1, <1>2, <1>4, <1>5 DEF IInv, Faithful, After, Ordered

LEMMA RemovePreserves ==
    ASSUME IInv, NEW gone \in SUBSET Keys, Remove(gone)
    PROVE  IInv'
<1>1. /\ Stored' = Stored \ gone
      /\ store' \in [Stored' -> Entry]
      /\ newer' \in [Keys -> SUBSET Keys]
      /\ \A j \in Stored' : store'[j] = store[j] /\ newer'[j] = newer[j] \ gone
      /\ SizeBound'
  BY Without DEF Remove
<1>2. /\ now' = now /\ since' = since /\ reply' = Nothing
      /\ \A j \in Keys : written'[j] = IF j \in gone THEN Nothing ELSE written[j]
      /\ written' \in [Keys -> Entry \cup {Nothing}]
  BY DEF Remove, IInv, Typed
<1>3. Typed'
  BY <1>1, <1>2 DEF IInv, Typed
<1>4. Forgotten'
  BY <1>1, <1>2 DEF IInv, Forgotten, Alive
<1>5. Faithful'
  BY <1>1, <1>2 DEF IInv, Typed, Faithful
<1> QED BY <1>1, <1>2, <1>3, <1>4, <1>5 DEF IInv, After, Ordered

LEMMA GetLivePreserves ==
    ASSUME IInv, NEW k \in Keys, GetLive(k)
    PROVE  IInv'
<1>1. /\ k \in Stored /\ now' = now /\ store' = store /\ written' = written
      /\ reply' \in Values
  BY DEF GetLive, IInv, Typed, Entry
<1>2. Stored' = Stored
  BY <1>1 DEF Stored
<1>3. /\ newer' \in [Keys -> SUBSET Keys]
      /\ newer'[k] = {}
      /\ \A j \in Stored \ {k} : newer'[j] = newer[j] \cup {k}
  BY <1>1 DEF GetLive, MoveToEnd, IInv, Typed
<1>4. /\ since' \in [Keys -> SUBSET Keys]
      /\ \A j \in Keys \ {k} : since'[j] = since[j] \cup {k}
      /\ \A j \in Keys \ {k} : Cardinality(since[j]) >= MaxSize
                                 => Cardinality(since'[j]) >= MaxSize
  BY TouchedGrows DEF GetLive, IInv
<1>5. Typed'
  BY <1>1, <1>2, <1>3, <1>4 DEF IInv, Typed
<1>6. After'
  BY <1>1, <1>2, <1>3, <1>4 DEF IInv, Typed, After
<1>7. Ordered'
  BY <1>1, <1>2, <1>3 DEF IInv, After, Ordered
<1>8. Forgotten'
  BY <1>1, <1>2, <1>4 DEF IInv, Forgotten, Alive
<1> QED BY <1>1, <1>2, <1>5, <1>6, <1>7, <1>8 DEF IInv, SizeBound, Faithful

(* The dict once k was put at its end: still an order of use.               *)
LEMMA AfterMove ==
    ASSUME IInv, NEW k \in Keys, since' = Touched(k)
    PROVE  LET after == MoveToEnd(newer, k)
               F == Stored \cup {k}
           IN  /\ after \in [Keys -> SUBSET Keys]
               /\ after[k] = {}
               /\ \A j \in F : after[j] \subseteq F \ {j} /\ after[j] \subseteq since'[j]
               /\ \A i, j \in F : i # j => (i \in after[j] <=> j \notin after[i])
<1> DEFINE after == MoveToEnd(newer, k)
           F == Stored \cup {k}
<1>1. Stored \subseteq Keys /\ newer \in [Keys -> SUBSET Keys]
  BY DEF IInv, Typed
<1>2. /\ after \in [Keys -> SUBSET Keys]
      /\ after[k] = {}
      /\ \A j \in Stored \ {k} : after[j] = newer[j] \cup {k}
  BY <1>1 DEF MoveToEnd
<1>3. /\ since'[k] = {}
      /\ \A j \in Keys \ {k} : since'[j] = since[j] \cup {k}
  BY DEF Touched
<1>4. \A j \in F : after[j] \subseteq F \ {j} /\ after[j] \subseteq since'[j]
  BY <1>1, <1>2, <1>3 DEF IInv, After
<1>5. \A i, j \in F : i # j => (i \in after[j] <=> j \notin after[i])
  <2> SUFFICES ASSUME NEW i \in F, NEW j \in F, i # j
               PROVE  i \in after[j] <=> j \notin after[i]
    OBVIOUS
  <2>1. CASE i = k
    BY <2>1, <1>2
  <2>2. CASE j = k
    BY <2>2, <1>2
  <2>3. CASE i # k /\ j # k
    <3>1. i \in Stored /\ j \in Stored /\ (i \in newer[j] <=> j \notin newer[i])
      BY <2>3 DEF IInv, Ordered
    <3> QED BY <2>3, <3>1, <1>2
  <2> QED BY <2>1, <2>2, <2>3
<1> HIDE DEF after, F
<1> QED BY <1>2, <1>4, <1>5 DEF after, F

LEMMA SetPreserves ==
    ASSUME IInv, NEW k \in Keys, NEW v \in Values, NEW ttl \in Ttls, Set(k, v, ttl)
    PROVE  IInv'
<1> DEFINE entry == [value |-> v, expires |-> now + ttl]
           after == MoveToEnd(newer, k)
           F == Stored \cup {k}
           full == [j \in F |-> IF j = k THEN entry ELSE store[j]]
<1>1. /\ now' = now /\ reply' = Nothing /\ since' = Touched(k)
      /\ written' = [written EXCEPT ![k] = entry]
      /\ \/ /\ Cardinality(DOMAIN full) <= MaxSize
            /\ store' = full /\ newer' = after
         \/ /\ ~(Cardinality(DOMAIN full) <= MaxSize)
            /\ \E oldest \in DOMAIN full :
                  /\ after[oldest] = DOMAIN full \ {oldest}
                  /\ store' = [j \in DOMAIN full \ {oldest} |-> full[j]]
                  /\ newer' = [after EXCEPT ![oldest] = {}]
  BY DEF Set
<1>2. DOMAIN full = F
  OBVIOUS
<1>3. /\ Stored \subseteq Keys /\ F \subseteq Keys /\ store \in [Stored -> Entry]
      /\ now \in 0 .. MaxTime
  BY DEF IInv, Typed
<1>4. entry \in Entry
  <2>1. now + ttl \in Nat
    BY <1>3, CacheAssumption
  <2> QED BY <2>1 DEF Entry
<1>5. /\ full \in [F -> Entry]
      /\ full[k] = entry
      /\ \A j \in F \ {k} : full[j] = store[j]
  BY <1>3, <1>4
<1>6. /\ written' \in [Keys -> Entry \cup {Nothing}]
      /\ written'[k] = entry
      /\ \A j \in Keys \ {k} : written'[j] = written[j]
  BY <1>1, <1>4 DEF IInv, Typed
<1>7. \A j \in F : full[j] = written'[j]
  BY <1>3, <1>5, <1>6 DEF IInv, Faithful
<1>8. /\ after \in [Keys -> SUBSET Keys]
      /\ after[k] = {}
      /\ \A j \in F : after[j] \subseteq F \ {j} /\ after[j] \subseteq since'[j]
      /\ \A i, j \in F : i # j => (i \in after[j] <=> j \notin after[i])
  BY <1>1, AfterMove
<1>9. /\ since' \in [Keys -> SUBSET Keys]
      /\ \A j \in Keys \ {k} : Cardinality(since[j]) >= MaxSize
                                 => Cardinality(since'[j]) >= MaxSize
  BY <1>1, TouchedGrows DEF IInv
<1>10. \A j \in Keys \ F : Alive(j)' => Cardinality(since'[j]) >= MaxSize
  BY <1>1, <1>6, <1>9 DEF IInv, Forgotten, Alive
<1> HIDE DEF full, entry, after, F
<1>11. CASE store' = full /\ newer' = after /\ Cardinality(F) <= MaxSize
  <2>1. Stored' = F
    BY <1>2, <1>11 DEF Stored
  <2>2. Typed'
    BY <2>1, <1>1, <1>3, <1>5, <1>6, <1>8, <1>9, <1>11 DEF Typed
  <2>3. SizeBound'
    BY <2>1, <1>11 DEF SizeBound
  <2>4. Faithful' /\ After' /\ Ordered' /\ Forgotten'
    BY <2>1, <1>7, <1>8, <1>10, <1>11 DEF Faithful, After, Ordered, Forgotten
  <2> QED BY <2>2, <2>3, <2>4 DEF IInv
<1>12. ASSUME ~(Cardinality(F) <= MaxSize),
              NEW oldest \in F,
              after[oldest] = F \ {oldest},
              store' = [j \in F \ {oldest} |-> full[j]],
              newer' = [after EXCEPT ![oldest] = {}]
       PROVE  IInv'
  <2> DEFINE rest == F \ {oldest}
  <2>1. Stored' = rest /\ rest \subseteq Keys
    BY <1>3, <1>12 DEF Stored
  <2>2. Cardinality(rest) = MaxSize /\ IsFiniteSet(rest)
    <3>1. IsFiniteSet(Stored) /\ IsFiniteSet(F) /\ Cardinality(Stored) \in Nat
          /\ Cardinality(F) \in Nat
      BY <1>3, KeySets
    <3>2. Cardinality(F) <= Cardinality(Stored) + 1
      <4>1. Cardinality(F) = IF k \in Stored THEN Cardinality(Stored) ELSE Cardinality(Stored) + 1
        BY <3>1, FS_AddElement DEF F
      <4> QED BY <4>1, <3>1
    <3>3. Cardinality(Stored) <= MaxSize
      BY DEF IInv, SizeBound
    <3>4. Cardinality(F) = MaxSize + 1
      BY <3>1, <3>2, <3>3, <1>12, CacheAssumption
    <3>5. Cardinality(rest) = Cardinality(F) - 1 /\ IsFiniteSet(rest)
      BY <3>1, FS_RemoveElement
    <3> QED BY <3>4, <3>5, CacheAssumption
  <2>3. oldest # k
    <3> SUFFICES ASSUME oldest = k PROVE FALSE
      OBVIOUS
    <3>1. rest = {}
      BY <1>8, <1>12
    <3> QED BY <3>1, <2>2, FS_EmptySet, CacheAssumption
  <2>4. /\ \A j \in rest : store'[j] = full[j] /\ newer'[j] = after[j]
        /\ newer' \in [Keys -> SUBSET Keys]
        /\ store' \in [rest -> Entry]
    BY <1>3, <1>5, <1>8, <1>12
  <2>5. Typed'
    BY <2>1, <2>4, <1>1, <1>3, <1>6, <1>9 DEF Typed
  <2>6. SizeBound'
    BY <2>1, <2>2, CacheAssumption DEF SizeBound
  <2>7. Faithful'
    BY <2>1, <2>4, <1>7 DEF Faithful
  <2>8. \A j \in rest : oldest \notin after[j]
    BY <1>8, <1>12
  <2>9. After'
    BY <2>1, <2>4, <2>8, <1>8 DEF After
  <2>10. Ordered'
    BY <2>1, <2>4, <1>8 DEF Ordered
  <2>11. Cardinality(since'[oldest]) >= MaxSize
    <3>1. rest \in SUBSET since'[oldest] /\ since'[oldest] \in SUBSET Keys
      BY <1>3, <1>8, <1>9, <1>12
    <3>2. Cardinality(rest) <= Cardinality(since'[oldest])
          /\ Cardinality(since'[oldest]) \in Nat
      BY <3>1, KeySets
    <3> QED BY <3>2, <2>2, CacheAssumption
  <2>12. Forgotten'
    BY <2>1, <2>11, <1>10 DEF Forgotten
  <2> QED BY <2>5, <2>6, <2>7, <2>9, <2>10, <2>12 DEF IInv
<1> QED BY <1>1, <1>2, <1>11, <1>12

LEMMA TickPreserves == IInv /\ Tick => IInv'
<1> SUFFICES ASSUME IInv, Tick PROVE IInv'
  OBVIOUS
<1>1. /\ now \in Nat /\ now' = now + 1 /\ now' \in 0 .. MaxTime
      /\ UNCHANGED <<store, newer, reply, written, since>>
  BY CacheAssumption DEF Tick, IInv, Typed
<1>2. Stored' = Stored
  BY <1>1 DEF Stored
<1>3. ASSUME NEW k \in Keys PROVE Alive(k)' => Alive(k)
  <2>1. written[k] # Nothing => written[k].expires \in Nat
    BY DEF IInv, Typed, Entry
  <2> QED BY <2>1, <1>1 DEF Alive
<1> QED BY <1>1, <1>2, <1>3
        DEF IInv, Typed, SizeBound, Faithful, After, Ordered, Forgotten

LEMMA NextPreserves == IInv /\ [Next]_cacheVars => IInv'
<1>1. IInv /\ UNCHANGED cacheVars => IInv'
  BY DEF cacheVars, IInv, Typed, SizeBound, Faithful, After, Ordered, Forgotten,
         Alive, Stored
<1> QED BY <1>1, GetAbsentPreserves, GetExpiredPreserves, GetLivePreserves,
           SetPreserves, RemovePreserves, TickPreserves DEF Next

(* cache.py:151-186: store, history and order of use agree in every state.  *)
THEOREM Invariance == Spec => []IInv
BY InitIInv, NextPreserves, PTL DEF Spec

(* cache.py:151, :174: memory stays bounded by MAX_SIZE entries.            *)
THEOREM SizeBounded == Spec => []TypeOK
BY Invariance, PTL DEF IInv, TypeOK

(* cache.py:164-175: the dict is ordered by use.                            *)
THEOREM OrderedByUse == Spec => []OrderOfUse
<1>1. IInv => OrderOfUse
  BY DEF IInv, Ordered, After, OrderOfUse
<1> QED BY <1>1, Invariance, PTL

-----------------------------------------------------------------------------
(* The refinement.                                                          *)

LEMMA SameCardinality == \A S : Contract!Cardinality(S) = Cardinality(S)
BY DEF Contract!Cardinality, Cardinality

LEMMA StepRefines ==
    IInv /\ IInv' /\ [Next]_cacheVars => [Contract!Next]_(Contract!contractVars)
<1> SUFFICES ASSUME IInv, [Next]_cacheVars
             PROVE  [Contract!Next]_(Contract!contractVars)
  OBVIOUS
<1>1. CASE Tick
  BY <1>1 DEF Tick, Contract!Next, Contract!Tick
<1>2. ASSUME NEW k \in Keys, GetAbsent(k)
      PROVE  Contract!Next
  <2>1. Alive(k) => Cardinality(since[k]) >= MaxSize
    BY <1>2 DEF GetAbsent, IInv, Forgotten
  <2>2. Contract!Miss(k)
    BY <1>2, <2>1, SameCardinality DEF GetAbsent, Alive, Contract!Miss, Contract!Live
  <2> QED BY <2>2 DEF Contract!Next
<1>3. ASSUME NEW k \in Keys, GetExpired(k)
      PROVE  Contract!Next
  <2>1. k \in Stored /\ now > store[k].expires /\ store[k] = written[k]
    BY <1>3 DEF GetExpired, IInv, Faithful
  <2>2. store[k].expires \in Nat /\ now \in Nat
    BY <2>1 DEF IInv, Typed, Entry
  <2>3. Contract!Miss(k)
    BY <1>3, <2>1, <2>2 DEF GetExpired, Contract!Miss, Contract!Live
  <2> QED BY <2>3 DEF Contract!Next
<1>4. ASSUME NEW k \in Keys, GetLive(k)
      PROVE  Contract!Next
  <2>1. k \in Stored /\ now <= store[k].expires /\ store[k] = written[k]
        /\ store[k] \in Entry
    <3>1. k \in Stored /\ now <= store[k].expires
      BY <1>4 DEF GetLive
    <3>2. store \in [Stored -> Entry]
      BY DEF IInv, Typed
    <3> QED BY <3>1, <3>2 DEF IInv, Faithful
  <2>2. written[k] # Nothing
    BY <2>1, CacheAssumption
  <2>3. Contract!Hit(k)
    BY <1>4, <2>1, <2>2
       DEF GetLive, Touched, Contract!Hit, Contract!Live, Contract!Touched
  <2> QED BY <2>3 DEF Contract!Next
<1>5. ASSUME NEW k \in Keys, NEW v \in Values, NEW ttl \in Ttls, Set(k, v, ttl)
      PROVE  Contract!Next
  <2>1. Contract!Put(k, v, ttl)
    BY <1>5 DEF Set, Touched, Contract!Put, Contract!Touched
  <2> QED BY <2>1 DEF Contract!Next
<1>6. ASSUME NEW gone \in SUBSET Keys, Remove(gone)
      PROVE  Contract!Next
  <2>1. Contract!Forget(gone)
    BY <1>6 DEF Remove, Contract!Forget
  <2> QED BY <2>1 DEF Contract!Next
<1>7. CASE UNCHANGED cacheVars
  BY <1>7 DEF cacheVars, Contract!contractVars
<1> QED BY <1>1, <1>2, <1>3, <1>4, <1>5, <1>6, <1>7 DEF Next

(* cache.py:137-186 implements CacheContract: a hit is the last value       *)
(* stored, unexpired and undeleted; only MaxSize later keys evict.          *)
THEOREM ImplementsContract == Spec => KeepsContract
<1>1. Init => Contract!Init
  BY DEF Init, Contract!Init
<1> QED BY <1>1, StepRefines, Invariance, PTL DEF Spec, Contract!Spec, KeepsContract
=============================================================================
