--------------------------- MODULE InMemoryCache ---------------------------
(***************************************************************************)
(* InMemoryCacheService of services/cache.py: an OrderedDict of entries    *)
(* with an expiry time, in order of use, bounded by MAX_SIZE.              *)
(*                                                                         *)
(* The OrderedDict is a function on its keys and, for its order, the set   *)
(* of the keys that stand after each key: move_to_end(k) puts k into every *)
(* other set and empties its own, popitem(last=False) takes the key that   *)
(* has all the others after it.  No method awaits, so each is one step.    *)
(*                                                                         *)
(* written and since are history: what the callers did, in the terms of    *)
(* CacheContract, which this module implements.                            *)
(***************************************************************************)
EXTENDS Integers, FiniteSets

CONSTANTS Keys, Values, Ttls, MaxSize, MaxTime, Nothing

Entry == [value : Values, expires : Nat]

ASSUME CacheAssumption ==
    /\ IsFiniteSet(Keys)
    /\ Ttls \subseteq Nat
    /\ MaxSize \in Nat \ {0}
    /\ MaxTime \in Nat
    /\ Nothing \notin Entry

VARIABLES
    now,       \* time.monotonic(), in seconds
    store,     \* self._store: entries by key
    newer,     \* self._store: the keys after each key of the dict
    reply,     \* the value the last method returned, Nothing for None
    written,   \* history: last value stored and not deleted
    since      \* history: other keys used since the key was last used

cacheVars == <<now, store, newer, reply, written, since>>

Contract == INSTANCE CacheContract

Stored == DOMAIN store

Typed ==
    /\ now \in 0 .. MaxTime
    /\ Stored \subseteq Keys
    /\ store \in [Stored -> Entry]
    /\ newer \in [Keys -> SUBSET Keys]
    /\ reply \in Values \cup {Nothing}
    /\ written \in [Keys -> Entry \cup {Nothing}]
    /\ since \in [Keys -> SUBSET Keys]

SizeBound == Cardinality(Stored) <= MaxSize

(* cache.py:151, :174.  The dict keeps its types and holds at most MAX_SIZE *)
(* entries, whatever the order of sets, hits, expiries and deletions.       *)
TypeOK == Typed /\ SizeBound

Init ==
    /\ now = 0
    /\ store = [k \in {} |-> Nothing]
    /\ newer = [k \in Keys |-> {}]
    /\ reply = Nothing
    /\ written = [k \in Keys |-> Nothing]
    /\ since = [k \in Keys |-> {}]

-----------------------------------------------------------------------------
(* The OrderedDict.                                                         *)

\* Mutant: the key keeps its place.
KeepPlace(after, k) == [after EXCEPT ![k] = {}]

\* move_to_end(k), and the insertion of a new key k: k is after all the others.
MoveToEnd(after, k) ==
    [j \in Keys |-> IF j \in Stored \ {k} THEN after[j] \cup {k} ELSE {}]

\* The entries left when the keys of gone leave the dict.
StoreWithout(gone) == [k \in Stored \ gone |-> store[k]]
NewerWithout(gone) ==
    [k \in Keys |-> IF k \in Stored \ gone THEN newer[k] \ gone ELSE {}]

Touched(k) == [j \in Keys |-> IF j = k THEN {} ELSE since[j] \cup {k}]

-----------------------------------------------------------------------------

\* get: the key is not in the dict.
GetAbsent(k) ==
    /\ k \notin Stored
    /\ reply' = Nothing
    /\ UNCHANGED <<now, store, newer, written, since>>

\* get: the entry is past its expiry time; it is deleted.
GetExpired(k) ==
    /\ k \in Stored
    /\ now > store[k].expires
    /\ store' = StoreWithout({k})
    /\ newer' = NewerWithout({k})
    /\ reply' = Nothing
    /\ UNCHANGED <<now, written, since>>

\* Mutant: a hit that does not look at the expiry time.
GetUnexpiring(k) ==
    /\ k \in Stored
    /\ newer' = MoveToEnd(newer, k)
    /\ reply' = store[k].value
    /\ since' = Touched(k)
    /\ UNCHANGED <<now, store, written>>

\* get: a hit makes the key the most recently used.
GetLive(k) ==
    /\ k \in Stored
    /\ now <= store[k].expires
    /\ newer' = MoveToEnd(newer, k)
    /\ reply' = store[k].value
    /\ since' = Touched(k)
    /\ UNCHANGED <<now, store, written>>

\* Mutant: the size is compared before the entry is added.
SetOverfull(k, v, ttl) ==
    LET entry == [value |-> v, expires |-> now + ttl]
        after == MoveToEnd(newer, k)
        full == [j \in Stored \cup {k} |-> IF j = k THEN entry ELSE store[j]]
    IN  /\ IF Cardinality(Stored) <= MaxSize
           THEN store' = full /\ newer' = after
           ELSE \E oldest \in DOMAIN full :
                   /\ after[oldest] = DOMAIN full \ {oldest}
                   /\ store' = [j \in DOMAIN full \ {oldest} |-> full[j]]
                   /\ newer' = [after EXCEPT ![oldest] = {}]
        /\ reply' = Nothing
        /\ written' = [written EXCEPT ![k] = entry]
        /\ since' = Touched(k)
        /\ UNCHANGED now

\* set: the entry is the newest; beyond MAX_SIZE the oldest one is dropped.
Set(k, v, ttl) ==
    LET entry == [value |-> v, expires |-> now + ttl]
        after == MoveToEnd(newer, k)
        full == [j \in Stored \cup {k} |-> IF j = k THEN entry ELSE store[j]]
    IN  /\ IF Cardinality(DOMAIN full) <= MaxSize
           THEN store' = full /\ newer' = after
           ELSE \E oldest \in DOMAIN full :
                   /\ after[oldest] = DOMAIN full \ {oldest}
                   /\ store' = [j \in DOMAIN full \ {oldest} |-> full[j]]
                   /\ newer' = [after EXCEPT ![oldest] = {}]
        /\ reply' = Nothing
        /\ written' = [written EXCEPT ![k] = entry]
        /\ since' = Touched(k)
        /\ UNCHANGED now

\* delete(key) removes one key, flush_pattern(pattern) all those it matches.
Remove(gone) ==
    /\ store' = StoreWithout(gone)
    /\ newer' = NewerWithout(gone)
    /\ reply' = Nothing
    /\ written' = [k \in Keys |-> IF k \in gone THEN Nothing ELSE written[k]]
    /\ UNCHANGED <<now, since>>

Tick ==
    /\ now < MaxTime
    /\ now' = now + 1
    /\ UNCHANGED <<store, newer, reply, written, since>>

Next ==
    \/ Tick
    \/ \E k \in Keys : GetAbsent(k) \/ GetExpired(k) \/ GetLive(k)
    \/ \E k \in Keys, v \in Values, ttl \in Ttls : Set(k, v, ttl)
    \/ \E gone \in SUBSET Keys : Remove(gone)

Spec == Init /\ [][Next]_cacheVars

-----------------------------------------------------------------------------

(* cache.py:164-175.  The order of the dict is an order of use: of any two *)
(* entries exactly one is newer, and one that is newer was used since the  *)
(* other was.                                                               *)
OrderOfUse ==
    \A j, k \in Stored :
        /\ j # k => (j \in newer[k] <=> k \notin newer[j])
        /\ j \in newer[k] => j \in since[k]

(* cache.py:137-186.  Every method does what CacheContract promises: a hit *)
(* returns the last value stored and not expired, a live key is missed only*)
(* when MaxSize other keys were used after it.                              *)
KeepsContract == Contract!Spec
=============================================================================
