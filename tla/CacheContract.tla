--------------------------- MODULE CacheContract ---------------------------
(***************************************************************************)
(* What services/cache.py promises to the callers of its in-memory cache   *)
(* (CacheService, and the docstring of InMemoryCacheService): a lookup     *)
(* returns the last value stored under the key, never one that expired or  *)
(* was deleted, and it may miss a live key only when MaxSize other keys    *)
(* were used after it.  Nothing is said of how entries are kept.           *)
(***************************************************************************)
EXTENDS Integers, FiniteSets

CONSTANTS
    Keys,      \* cache keys
    Values,    \* cached values
    Ttls,      \* ttl_seconds of a set
    MaxSize,   \* MAX_SIZE
    MaxTime,   \* bound on the clock
    Nothing    \* no entry; the None a lookup returns on a miss

VARIABLES
    now,       \* time.monotonic()
    written,   \* the last value stored under each key and not deleted since
    since,     \* the other keys used since the key was last used
    reply      \* what the last operation returned

contractVars == <<now, written, since, reply>>

Entry == [value : Values, expires : Nat]

Init ==
    /\ now = 0
    /\ written = [k \in Keys |-> Nothing]
    /\ since = [k \in Keys |-> {}]
    /\ reply = Nothing

Live(k) == written[k] # Nothing /\ now <= written[k].expires

\* k becomes the most recently used key.
Touched(k) == [j \in Keys |-> IF j = k THEN {} ELSE since[j] \cup {k}]

Put(k, v, ttl) ==
    /\ written' = [written EXCEPT ![k] = [value |-> v, expires |-> now + ttl]]
    /\ since' = Touched(k)
    /\ reply' = Nothing
    /\ UNCHANGED now

Hit(k) ==
    /\ Live(k)
    /\ reply' = written[k].value
    /\ since' = Touched(k)
    /\ UNCHANGED <<now, written>>

Miss(k) ==
    /\ Live(k) => Cardinality(since[k]) >= MaxSize
    /\ reply' = Nothing
    /\ UNCHANGED <<now, written, since>>

Forget(gone) ==
    /\ written' = [k \in Keys |-> IF k \in gone THEN Nothing ELSE written[k]]
    /\ reply' = Nothing
    /\ UNCHANGED <<now, since>>

Tick ==
    /\ now < MaxTime
    /\ now' = now + 1
    /\ UNCHANGED <<written, since, reply>>

Next ==
    \/ Tick
    \/ \E k \in Keys, v \in Values, ttl \in Ttls : Put(k, v, ttl)
    \/ \E k \in Keys : Hit(k) \/ Miss(k)
    \/ \E gone \in SUBSET Keys : Forget(gone)

Spec == Init /\ [][Next]_contractVars
=============================================================================
