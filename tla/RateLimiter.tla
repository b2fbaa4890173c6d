---------------------------- MODULE RateLimiter ----------------------------
(***************************************************************************)
(* The in-memory token bucket of middleware/rate_limiter.py.               *)
(*                                                                         *)
(* Every client key "ip:role" owns a bucket that is created full on its    *)
(* first request, refilled lazily from the monotonic clock and charged one *)
(* token per admitted request.  check_and_consume holds no await, so under *)
(* asyncio a whole call is one step.                                       *)
(*                                                                         *)
(* The code counts in floats.  Here time advances in ticks of              *)
(* 1 / TicksPerSecond seconds and tokens are counted in units of           *)
(* 1 / (WindowSeconds * TicksPerSecond) token, so that a tick earns exactly*)
(* Rpm units and the arithmetic is exact.                                  *)
(***************************************************************************)
EXTENDS Integers

CONSTANTS
    Clients,          \* client keys, "ip:role"
    Operators,        \* the keys whose role is "operator" or "admin"
    FanRpm,           \* settings.rate_limit_fan_rpm
    OperatorRpm,      \* settings.rate_limit_operator_rpm
    WindowSeconds,    \* settings.rate_limit_window_seconds
    TicksPerSecond,   \* resolution of the monotonic clock
    MaxTime,          \* bound on the clock
    NoBucket          \* the key is not in self._buckets

Bucket == [tokens : Nat, last : Nat]

ASSUME ClientsAssumption == Operators \subseteq Clients
ASSUME RatesAssumption == FanRpm \in Nat \ {0} /\ OperatorRpm \in Nat \ {0}
ASSUME ClockAssumption ==
    /\ WindowSeconds \in Nat \ {0}
    /\ TicksPerSecond \in Nat \ {0}
    /\ MaxTime \in Nat
ASSUME NoBucketAssumption == NoBucket \notin Bucket

VARIABLES
    now,            \* time.monotonic(), in ticks
    buckets,        \* self._buckets
    admittedSince,  \* history: requests of the client let through at or after a time
    advice          \* history: earliest time a rejected client was told to come back

vars == <<now, buckets, admittedSince, advice>>

Times == 0 .. MaxTime
NoAdvice == -1

OneToken == WindowSeconds * TicksPerSecond

\* Tokens earned per tick: the role picks the rate.
Rpm(c) == IF c \in Operators THEN OperatorRpm ELSE FanRpm
Capacity(c) == Rpm(c) * OneToken

TypeOK ==
    /\ now \in Times
    /\ buckets \in [Clients -> Bucket \cup {NoBucket}]
    /\ admittedSince \in [Clients -> [Times -> Nat]]
    /\ advice \in [Clients -> Nat \cup {NoAdvice}]

Init ==
    /\ now = 0
    /\ buckets = [c \in Clients |-> NoBucket]
    /\ admittedSince = [c \in Clients |-> [s \in Times |-> 0]]
    /\ advice = [c \in Clients |-> NoAdvice]

-----------------------------------------------------------------------------

\* The bucket a request finds: a client seen for the first time gets a full one.
BucketOf(c) ==
    IF buckets[c] = NoBucket THEN [tokens |-> Capacity(c), last |-> now]
                             ELSE buckets[c]

\* Mutant: the refill forgets min(capacity, ...).
RefilledUncapped(c) ==
    LET b == BucketOf(c) IN b.tokens + (now - b.last) * Rpm(c)

\* Tokens after the lazy refill, capped at the capacity.
Refilled(c) ==
    LET b == BucketOf(c)
        earned == b.tokens + (now - b.last) * Rpm(c)
    IN  IF earned > Capacity(c) THEN Capacity(c) ELSE earned

\* Mutants: the truncated wait without its + 1, and a wait rounded up twice.
RetryAfterTruncated(c) == (OneToken - Refilled(c)) \div (Rpm(c) * TicksPerSecond)
RetryAfterRoundedTwice(c) ==
    ((OneToken - Refilled(c) + Rpm(c) * TicksPerSecond - 1)
        \div (Rpm(c) * TicksPerSecond)) + 1

\* int((1.0 - bucket.tokens) / rate) + 1, in seconds.
RetryAfter(c) == ((OneToken - Refilled(c)) \div (Rpm(c) * TicksPerSecond)) + 1

\* Mutant: the token is spent before it is looked for.
AdmitUnchecked(c) ==
    /\ buckets' = [buckets EXCEPT ![c] = [tokens |-> Refilled(c) - OneToken,
                                          last |-> now]]
    /\ UNCHANGED <<now, admittedSince, advice>>

\* check_and_consume: a token is there, and is spent.
Admit(c) ==
    /\ Refilled(c) >= OneToken
    /\ buckets' = [buckets EXCEPT ![c] = [tokens |-> Refilled(c) - OneToken,
                                          last |-> now]]
    /\ admittedSince' = [admittedSince EXCEPT ![c] =
            [s \in Times |-> IF s <= now THEN @[s] + 1 ELSE @[s]]]
    /\ advice' = [advice EXCEPT ![c] = NoAdvice]
    /\ UNCHANGED now

\* check_and_consume: HTTP 429 with Retry-After; the refill is kept.
Reject(c) ==
    /\ Refilled(c) < OneToken
    /\ buckets' = [buckets EXCEPT ![c] = [tokens |-> Refilled(c), last |-> now]]
    /\ LET comeBack == now + RetryAfter(c) * TicksPerSecond
       IN  advice' = [advice EXCEPT ![c] =
               IF @ = NoAdvice \/ comeBack < @ THEN comeBack ELSE @]
    /\ UNCHANGED <<now, admittedSince>>

Tick ==
    /\ now < MaxTime
    /\ now' = now + 1
    /\ UNCHANGED <<buckets, admittedSince, advice>>

Next == Tick \/ \E c \in Clients : Admit(c) \/ Reject(c)

Spec == Init /\ [][Next]_vars

-----------------------------------------------------------------------------

(* rate_limiter.py:16-22.  However the requests of a client are spread over *)
(* time, between any instant s and now it was let through at most one full *)
(* bucket plus what the refill rate earns in that time: no window boundary *)
(* doubles the burst.                                                       *)
BurstBound ==
    \A c \in Clients : \A s \in 0 .. now :
        admittedSince[c][s] * OneToken <= Capacity(c) + Rpm(c) * (now - s)

(* rate_limiter.py:122-136.  The Retry-After a rejected client received is *)
(* enough: unless it was let through in between, no request it makes at or *)
(* after that time is rejected, however many it tried meanwhile.            *)
RetryAfterSuffices ==
    [][\A c \in Clients : Reject(c) => advice[c] = NoAdvice \/ now < advice[c]]_vars

(* rate_limiter.py:124.  Retry-After is not padded: a client that asks more *)
(* than a second before the time it was told is never let through.          *)
RetryAfterTight ==
    [][\A c \in Clients : Admit(c) => advice[c] <= now + TicksPerSecond]_vars
=============================================================================
