------------------------- MODULE RateLimiterProofs -------------------------
(***************************************************************************)
(* TLAPS proofs about RateLimiter, for every set of clients, every rate,   *)
(* window, clock resolution and clock bound, and about ApiPipeline, which   *)
(* drives it, for every set of addresses and of requests in flight.  Only   *)
(* the last section uses what ApiPipeline assumes of the clients' keys.     *)
(*                                                                         *)
(* BurstBound is not inductive: it bounds the requests let through by the  *)
(* time that passed, and a step needs to know how much of that allowance is*)
(* still in the bucket.  IInv keeps the account: what was spent since s    *)
(* plus what is left never exceeds a full bucket plus what was earned      *)
(* since s.  For the Retry-After properties it says what the bucket will   *)
(* hold at the advised time, and one second before it.                     *)
(***************************************************************************)
EXTENDS ApiPipeline, TLAPS

Known(c) == buckets[c] # NoBucket

Account(c) ==
    /\ buckets[c].last \in 0 .. now
    /\ buckets[c].tokens <= Capacity(c)
    /\ \A s \in 0 .. buckets[c].last :
          admittedSince[c][s] * OneToken + buckets[c].tokens
              <= Capacity(c) + Rpm(c) * (buckets[c].last - s)
    /\ \A s \in Times : s > buckets[c].last => admittedSince[c][s] = 0

Untouched(c) ==
    /\ advice[c] = NoAdvice
    /\ \A s \in Times : admittedSince[c][s] = 0

Promise(c) ==
    /\ Known(c)
    /\ advice[c] > buckets[c].last
    /\ buckets[c].tokens + Rpm(c) * (advice[c] - buckets[c].last) >= OneToken
    /\ buckets[c].tokens + Rpm(c) * (advice[c] - TicksPerSecond - buckets[c].last)
           <= OneToken

IInv ==
    /\ TypeOK
    /\ \A c \in Clients : IF Known(c) THEN Account(c) ELSE Untouched(c)
    /\ \A c \in Clients : advice[c] # NoAdvice => Promise(c)

-----------------------------------------------------------------------------
(* Facts of arithmetic, stated once so that the steps below stay linear.   *)

LEMMA Product ==
    ASSUME NEW r \in Nat, NEW x \in Int
    PROVE  /\ r * x \in Int
           /\ x \in Nat => r * x \in Nat
           /\ r * 0 = 0 /\ 0 * r = 0
           /\ r * x = x * r
OBVIOUS

LEMMA Distribute ==
    ASSUME NEW r \in Int, NEW x \in Int, NEW y \in Int
    PROVE  r * (x + y) = r * x + r * y
OBVIOUS

LEMMA Monotone ==
    ASSUME NEW r \in Nat, NEW x \in Int, NEW y \in Int, x <= y
    PROVE  r * x <= r * y
OBVIOUS

LEMMA StrictlyMonotone ==
    ASSUME NEW r \in Nat \ {0}, NEW x \in Int, NEW y \in Int, x < y
    PROVE  r * x < r * y
OBVIOUS

LEMMA Quotient ==
    ASSUME NEW a \in Nat, NEW d \in Nat \ {0}
    PROVE  /\ a \div d \in Nat
           /\ d * (a \div d) <= a
           /\ a < d * (a \div d) + d
OBVIOUS

-----------------------------------------------------------------------------
(* The parameters the arithmetic runs on.                                   *)
LEMMA Parameters ==
    ASSUME NEW c \in Clients
    PROVE  /\ Rpm(c) \in Nat \ {0}
           /\ OneToken \in Nat \ {0}
           /\ Capacity(c) \in Nat
           /\ Capacity(c) >= OneToken
<1>1. Rpm(c) \in Nat \ {0}
  BY RatesAssumption DEF Rpm
<1>2. OneToken \in Nat \ {0}
  BY ClockAssumption, SMT DEF OneToken
<1>3. \A r \in Nat \ {0}, o \in Nat \ {0} : r * o \in Nat /\ r * o >= o
  OBVIOUS
<1> QED BY <1>1, <1>2, <1>3 DEF Capacity

(* What check_and_consume finds after its refill: a natural number of token *)
(* units, at most the capacity, still within the account opened at s.       *)
LEMMA RefilledAccount ==
    ASSUME IInv, NEW c \in Clients
    PROVE  /\ Refilled(c) \in Nat
           /\ Refilled(c) <= Capacity(c)
           /\ \A s \in 0 .. now : admittedSince[c][s] * OneToken + Refilled(c)
                                    <= Capacity(c) + Rpm(c) * (now - s)
           /\ \A s \in Times : s > now => admittedSince[c][s] = 0
<1>0. /\ Rpm(c) \in Nat \ {0} /\ OneToken \in Nat \ {0} /\ Capacity(c) \in Nat
      /\ now \in Nat /\ MaxTime \in Nat /\ now <= MaxTime
      /\ \A s \in Times : s \in Nat /\ admittedSince[c][s] \in Nat
      /\ Times = 0 .. MaxTime
  BY Parameters, ClockAssumption DEF IInv, TypeOK, Times
<1>1. CASE ~Known(c)
  <2>1. Refilled(c) = Capacity(c)
    <3>1. BucketOf(c) = [tokens |-> Capacity(c), last |-> now]
      BY <1>1 DEF BucketOf, Known
    <3>2. Capacity(c) + (now - now) * Rpm(c) = Capacity(c)
      BY <1>0
    <3> QED BY <3>1, <3>2, <1>0 DEF Refilled
  <2>2. \A s \in Times : admittedSince[c][s] = 0
    BY <1>1 DEF IInv, Untouched
  <2>3. ASSUME NEW s \in 0 .. now
        PROVE  admittedSince[c][s] * OneToken + Refilled(c)
                 <= Capacity(c) + Rpm(c) * (now - s)
    <3>1. s \in Times /\ now - s \in Nat
      BY <1>0
    <3>2. Rpm(c) * (now - s) \in Nat
      BY <3>1, <1>0
    <3>3. admittedSince[c][s] * OneToken = 0
      BY <3>1, <2>2, <1>0
    <3> QED BY <3>2, <3>3, <2>1, <1>0
  <2> QED BY <1>0, <2>1, <2>2, <2>3
<1>2. CASE Known(c)
  <2> DEFINE t == buckets[c].tokens
             l == buckets[c].last
             earned == Rpm(c) * (now - l)
  <2>1. /\ t \in Nat /\ l \in Nat /\ l <= now /\ t <= Capacity(c)
        /\ \A s \in 0 .. l : admittedSince[c][s] * OneToken + t
                               <= Capacity(c) + Rpm(c) * (l - s)
        /\ \A s \in Times : s > l => admittedSince[c][s] = 0
    <3>1. buckets[c] \in Bucket
      BY <1>2 DEF IInv, TypeOK, Known
    <3>2. Account(c)
      BY <1>2 DEF IInv
    <3> QED BY <3>1, <3>2, <1>0 DEF Account, Bucket
  <2>2. earned \in Nat
    <3>1. now - l \in Nat
      BY <2>1, <1>0
    <3> QED BY <3>1, <1>0, Product
  <2>3. /\ Refilled(c) <= t + earned
        /\ Refilled(c) <= Capacity(c)
        /\ Refilled(c) \in Nat
    <3>1. BucketOf(c) = buckets[c]
      BY <1>2 DEF BucketOf, Known
    <3>2. (now - l) * Rpm(c) = earned
      BY <2>1, <1>0
    <3>3. Refilled(c) = IF t + earned > Capacity(c) THEN Capacity(c) ELSE t + earned
      BY <3>1, <3>2 DEF Refilled
    <3> HIDE DEF t, earned
    <3> QED BY <3>3, <2>1, <2>2, <1>0
  <2>4. ASSUME NEW s \in 0 .. now
        PROVE  admittedSince[c][s] * OneToken + Refilled(c)
                 <= Capacity(c) + Rpm(c) * (now - s)
    <3>0. s \in Nat /\ s \in Times /\ admittedSince[c][s] \in Nat
      BY <1>0
    <3>1. CASE s <= l
      <4>1. Rpm(c) * ((now - l) + (l - s)) = earned + Rpm(c) * (l - s)
        BY Distribute, <2>1, <3>0, <1>0
      <4>2. (now - l) + (l - s) = now - s
        BY <2>1, <3>0, <1>0
      <4>3. Rpm(c) * (now - s) = earned + Rpm(c) * (l - s)
        BY <4>1, <4>2
      <4>4. admittedSince[c][s] * OneToken + t <= Capacity(c) + Rpm(c) * (l - s)
        BY <2>1, <3>1, <3>0
      <4>5. admittedSince[c][s] * OneToken \in Int /\ Rpm(c) * (l - s) \in Int
        <5>1. l - s \in Int /\ Rpm(c) \in Nat
          BY <3>0, <2>1, <1>0
        <5>2. admittedSince[c][s] \in Nat /\ OneToken \in Int
          BY <3>0, <1>0
        <5>3. Rpm(c) * (l - s) \in Int
          BY <5>1, Product
        <5>4. admittedSince[c][s] * OneToken \in Int
          BY <5>2, Product
        <5> QED BY <5>3, <5>4
      <4>6. ASSUME NEW spent \in Int, NEW e \in Int,
                   spent + t <= Capacity(c) + e
            PROVE  spent + Refilled(c) <= Capacity(c) + (earned + e)
        <5>1. t \in Nat /\ earned \in Nat /\ Refilled(c) \in Nat /\ Refilled(c) <= t + earned
          BY <2>1, <2>2, <2>3
        <5> HIDE DEF t, earned
        <5> QED BY <4>6, <5>1, <1>0
      <4>7. admittedSince[c][s] * OneToken + Refilled(c)
              <= Capacity(c) + (earned + Rpm(c) * (l - s))
        <5> HIDE DEF t, earned
        <5> QED BY <4>4, <4>5, <4>6
      <4> HIDE DEF earned
      <4> QED BY <4>3, <4>7, Zenon
    <3>2. CASE s > l
      <4>1. admittedSince[c][s] = 0
        BY <2>1, <3>0, <3>2
      <4>2. admittedSince[c][s] * OneToken = 0
        BY <4>1, <1>0
      <4>3. Rpm(c) * (now - s) \in Nat
        BY <1>0
      <4> QED BY <4>2, <4>3, <2>3, <1>0
    <3> QED BY <3>0, <3>1, <3>2, <2>1
  <2>5. \A s \in Times : s > now => admittedSince[c][s] = 0
    BY <2>1, <1>0
  <2> QED BY <2>3, <2>4, <2>5
<1> QED BY <1>1, <1>2

(* What a rejected client finds when it comes back: until its bucket is     *)
(* full, what it holds is what it held plus what was earned since.          *)
LEMMA PromiseKept ==
    ASSUME IInv, NEW c \in Clients, advice[c] # NoAdvice
    PROVE  /\ Refilled(c) < OneToken =>
                /\ now < advice[c]
                /\ Refilled(c) + Rpm(c) * (advice[c] - now) >= OneToken
                /\ Refilled(c) + Rpm(c) * (advice[c] - TicksPerSecond - now) <= OneToken
           /\ Refilled(c) >= OneToken => advice[c] <= now + TicksPerSecond
<1> DEFINE t == buckets[c].tokens
           l == buckets[c].last
           a == advice[c]
           p == TicksPerSecond
           r == Rpm(c)
           earned == r * (now - l)
<1>0. /\ r \in Nat \ {0} /\ OneToken \in Nat \ {0} /\ Capacity(c) \in Nat
      /\ Capacity(c) >= OneToken
      /\ now \in Nat /\ p \in Nat \ {0} /\ a \in Nat
  BY Parameters, ClockAssumption DEF IInv, TypeOK, Times
<1>1. /\ Known(c) /\ a > l
      /\ t + r * (a - l) >= OneToken
      /\ t + r * (a - p - l) <= OneToken
  BY DEF IInv, Promise
<1>2. t \in Nat /\ l \in Nat /\ l <= now
  <2>1. buckets[c] \in Bucket
    BY <1>1 DEF IInv, TypeOK, Known
  <2>2. Account(c)
    BY <1>1 DEF IInv
  <2> QED BY <2>1, <2>2, <1>0 DEF Account, Bucket
<1>3. Refilled(c) = IF t + earned > Capacity(c) THEN Capacity(c) ELSE t + earned
  <2>1. BucketOf(c) = buckets[c]
    BY <1>1 DEF BucketOf, Known
  <2>2. (now - l) * r = earned
    BY <1>0, <1>2
  <2> QED BY <2>1, <2>2 DEF Refilled
<1>4. earned \in Nat /\ r * (a - now) \in Int /\ r * (a - p - now) \in Int
  BY <1>0, <1>2
<1>5. /\ r * (a - l) = earned + r * (a - now)
      /\ r * (a - p - l) = earned + r * (a - p - now)
  <2>1. r * ((now - l) + (a - now)) = earned + r * (a - now)
    BY Distribute, <1>0, <1>2
  <2>2. r * ((now - l) + (a - p - now)) = earned + r * (a - p - now)
    BY Distribute, <1>0, <1>2
  <2>3. (now - l) + (a - now) = a - l /\ (now - l) + (a - p - now) = a - p - l
    BY <1>0, <1>2
  <2> QED BY <2>1, <2>2, <2>3
<1>6. ASSUME Refilled(c) < OneToken
      PROVE  /\ now < a
             /\ Refilled(c) + r * (a - now) >= OneToken
             /\ Refilled(c) + r * (a - p - now) <= OneToken
  <2> HIDE DEF t, l, a, p, r, earned
  <2>1. Refilled(c) = t + earned
    BY <1>0, <1>2, <1>3, <1>4, <1>6
  <2>2. /\ Refilled(c) + r * (a - now) >= OneToken
        /\ Refilled(c) + r * (a - p - now) <= OneToken
    BY <1>0, <1>1, <1>2, <1>4, <1>5, <2>1
  <2>3. r * (a - now) > 0
    BY <2>2, <1>6, <1>0, <1>4, <2>1, <1>2
  <2>4. now < a
    BY <2>3, <1>0, Monotone, r * 0 = 0, a - now \in Int
  <2> QED BY <2>2, <2>4
<1>7. ASSUME Refilled(c) >= OneToken
      PROVE  a <= now + p
  <2> HIDE DEF t, l, a, p, r, earned
  <2>1. SUFFICES ASSUME now < a - p PROVE FALSE
    BY <1>0
  <2>2. r * (a - p - now) > r * 0
    BY StrictlyMonotone, <2>1, <1>0, 0 < a - p - now, a - p - now \in Int
  <2>3. r * 0 = 0
    BY <1>0
  <2>4. t + earned < OneToken
    BY <2>2, <2>3, <1>0, <1>1, <1>2, <1>4, <1>5
  <2> QED BY <2>4, <1>0, <1>2, <1>3, <1>4, <1>7
<1> QED BY <1>6, <1>7

(* The Retry-After computed for a rejected request: at the advised time the *)
(* bucket holds a token, and a second earlier it holds at most one.         *)
LEMMA RetryAfterExact ==
    ASSUME IInv, NEW c \in Clients, Refilled(c) < OneToken
    PROVE  LET wait == RetryAfter(c) * TicksPerSecond
           IN  /\ wait \in Nat \ {0}
               /\ Refilled(c) + Rpm(c) * wait >= OneToken
               /\ Refilled(c) + Rpm(c) * (wait - TicksPerSecond) <= OneToken
<1> DEFINE r == Rpm(c)
           p == TicksPerSecond
           d == r * p
           x == OneToken - Refilled(c)
           q == x \div d
<1>0. /\ r \in Nat \ {0} /\ p \in Nat \ {0} /\ OneToken \in Nat \ {0}
      /\ Refilled(c) \in Nat
  BY Parameters, RefilledAccount, ClockAssumption
<1>1. d \in Nat \ {0}
  BY <1>0
<1>2. x \in Nat
  BY <1>0
<1>3. q \in Nat /\ d * q <= x /\ x < d * q + d
  BY <1>1, <1>2, Quotient
<1>4. RetryAfter(c) = q + 1
  BY DEF RetryAfter
<1>5. r * ((q + 1) * p) = d * q + d /\ r * ((q + 1) * p - p) = d * q
  <2> HIDE DEF r, p, q
  <2> QED BY <1>0, <1>3, SMT
<1>6. (q + 1) * p \in Nat \ {0}
  <2> HIDE DEF p, q
  <2> QED BY <1>0, <1>3
<1>7. /\ Refilled(c) + r * ((q + 1) * p) >= OneToken
      /\ Refilled(c) + r * ((q + 1) * p - p) <= OneToken
  <2>1. d * q \in Int
    BY <1>1, <1>3, Product
  <2>2. ASSUME NEW y \in Int, y <= x, x < y + d
        PROVE  Refilled(c) + (y + d) >= OneToken /\ Refilled(c) + y <= OneToken
    <3> HIDE DEF d
    <3> QED BY <2>2, <1>0, <1>1
  <2> QED BY <2>1, <2>2, <1>3, <1>5
<1> QED BY <1>4, <1>6, <1>7

-----------------------------------------------------------------------------

LEMMA InitIInv == Init => IInv
BY ClockAssumption, 0 \in Times DEF Init, IInv, TypeOK, Known, Untouched, Times, NoAdvice

(* A request that is let through spends one token of the account.           *)
LEMMA AdmitPreserves ==
    ASSUME IInv, NEW c \in Clients, Admit(c)
    PROVE  IInv'
<1> DEFINE left == Refilled(c) - OneToken
<1>0. /\ OneToken \in Nat \ {0} /\ Capacity(c) \in Nat /\ Rpm(c) \in Nat
      /\ Refilled(c) \in Nat /\ Refilled(c) <= Capacity(c)
      /\ Refilled(c) >= OneToken
      /\ now \in Nat /\ now \in Times /\ now' = now
  BY Parameters, RefilledAccount DEF Admit, IInv, TypeOK, Times
<1>1. /\ buckets' = [buckets EXCEPT ![c] = [tokens |-> left, last |-> now]]
      /\ buckets'[c] = [tokens |-> left, last |-> now]
      /\ buckets'[c] \in Bucket
      /\ \A k \in Clients \ {c} : buckets'[k] = buckets[k]
  BY <1>0 DEF Admit, IInv, TypeOK, Bucket
<1>2. /\ admittedSince' \in [Clients -> [Times -> Nat]]
      /\ \A k \in Clients \ {c} : admittedSince'[k] = admittedSince[k]
      /\ \A s \in Times : admittedSince'[c][s] =
            IF s <= now THEN admittedSince[c][s] + 1 ELSE admittedSince[c][s]
  BY DEF Admit, IInv, TypeOK
<1>3. /\ advice' \in [Clients -> Nat \cup {NoAdvice}]
      /\ advice'[c] = NoAdvice
      /\ \A k \in Clients \ {c} : advice'[k] = advice[k]
  BY DEF Admit, IInv, TypeOK
<1>4. TypeOK'
  BY <1>0, <1>1, <1>2, <1>3 DEF TypeOK, IInv
<1>5. Capacity(c)' = Capacity(c) /\ Rpm(c)' = Rpm(c) /\ OneToken' = OneToken
  BY DEF Capacity, Rpm, OneToken
<1>6. Known(c)'
  BY <1>1, NoBucketAssumption DEF Known
<1>7. Account(c)'
  <2>1. \A s \in 0 .. now : admittedSince'[c][s] * OneToken + left
                              <= Capacity(c) + Rpm(c) * (now - s)
    <3> SUFFICES ASSUME NEW s \in 0 .. now
                 PROVE  admittedSince'[c][s] * OneToken + left
                              <= Capacity(c) + Rpm(c) * (now - s)
      OBVIOUS
    <3>1. s \in Times
      BY <1>0, ClockAssumption DEF Times
    <3>2. admittedSince[c][s] \in Nat /\ now - s \in Int
      BY <3>1, <1>0 DEF IInv, TypeOK
    <3>3. admittedSince'[c][s] = admittedSince[c][s] + 1
      BY <3>1, <1>2
    <3>4. admittedSince[c][s] * OneToken + Refilled(c) <= Capacity(c) + Rpm(c) * (now - s)
      BY RefilledAccount
    <3>5. ASSUME NEW n \in Nat, NEW bound \in Int,
                 n * OneToken + Refilled(c) <= bound
          PROVE  (n + 1) * OneToken + left <= bound
      <4>1. (n + 1) * OneToken = n * OneToken + OneToken
        BY <1>0
      <4>2. n * OneToken \in Int
        BY <1>0, Product
      <4> QED BY <4>1, <4>2, <3>5, <1>0
    <3>6. Capacity(c) + Rpm(c) * (now - s) \in Int
      <4>1. Rpm(c) * (now - s) \in Int
        BY <3>2, <1>0, Product
      <4> QED BY <4>1, <1>0
    <3> HIDE DEF left
    <3> QED BY <3>2, <3>3, <3>4, <3>5, <3>6, Zenon
  <2>2. ASSUME NEW s \in Times, s > now
        PROVE  admittedSince'[c][s] = 0
    <3>1. s \in Nat /\ ~(s <= now)
      BY <2>2, <1>0, ClockAssumption DEF Times
    <3>2. admittedSince[c][s] = 0
      BY <2>2, RefilledAccount
    <3> QED BY <3>1, <3>2, <1>2
  <2>3. left <= Capacity(c)
    BY <1>0
  <2>4. /\ buckets'[c].last = now /\ buckets'[c].tokens = left
    BY <1>1
  <2>5. now \in 0 .. now'
    BY <1>0
  <2> HIDE DEF left
  <2> QED BY <2>1, <2>2, <2>3, <2>4, <2>5, <1>5 DEF Account
<1>8. ASSUME NEW k \in Clients \ {c}
      PROVE  /\ IF Known(k)' THEN Account(k)' ELSE Untouched(k)'
             /\ (advice[k] # NoAdvice => Promise(k))'
  <2>1. (IF Known(k) THEN Account(k) ELSE Untouched(k)) /\ (advice[k] # NoAdvice => Promise(k))
    BY DEF IInv
  <2> QED BY <2>1, <1>0, <1>1, <1>2, <1>3
          DEF Known, Account, Untouched, Promise, Capacity, Rpm
<1> QED BY <1>3, <1>4, <1>6, <1>7, <1>8 DEF IInv

(* A rejected request spends nothing, and what it is told stays true.       *)
LEMMA RejectPreserves ==
    ASSUME IInv, NEW c \in Clients, Reject(c)
    PROVE  IInv'
<1> DEFINE R == Refilled(c)
           wait == RetryAfter(c) * TicksPerSecond
           comeBack == now + wait
<1>0. /\ OneToken \in Nat \ {0} /\ Capacity(c) \in Nat /\ Rpm(c) \in Nat
      /\ R \in Nat /\ R <= Capacity(c) /\ R < OneToken
      /\ now \in Nat /\ now' = now
      /\ TicksPerSecond \in Nat \ {0}
      /\ admittedSince' = admittedSince
  <2>1. OneToken \in Nat \ {0} /\ Capacity(c) \in Nat /\ Rpm(c) \in Nat
    BY Parameters
  <2>2. R \in Nat /\ R <= Capacity(c)
    BY RefilledAccount
  <2>3. R < OneToken /\ now' = now /\ admittedSince' = admittedSince
    BY DEF Reject
  <2>4. now \in Nat /\ TicksPerSecond \in Nat \ {0}
    BY ClockAssumption DEF IInv, TypeOK, Times
  <2> QED BY <2>1, <2>2, <2>3, <2>4
<1>1. /\ buckets' = [buckets EXCEPT ![c] = [tokens |-> R, last |-> now]]
      /\ buckets'[c] = [tokens |-> R, last |-> now]
      /\ buckets'[c] \in Bucket
      /\ \A k \in Clients \ {c} : buckets'[k] = buckets[k]
  BY <1>0 DEF Reject, IInv, TypeOK, Bucket
<1>2. /\ wait \in Nat \ {0}
      /\ R + Rpm(c) * wait >= OneToken
      /\ R + Rpm(c) * (wait - TicksPerSecond) <= OneToken
  BY RetryAfterExact, <1>0
<1>3. /\ advice'[c] = IF advice[c] = NoAdvice \/ comeBack < advice[c]
                      THEN comeBack ELSE advice[c]
      /\ \A k \in Clients \ {c} : advice'[k] = advice[k]
      /\ advice' \in [Clients -> Nat \cup {NoAdvice}]
  <2>1. comeBack \in Nat
    BY <1>0, <1>2
  <2>2. advice' = [advice EXCEPT ![c] =
                     IF advice[c] = NoAdvice \/ comeBack < advice[c]
                     THEN comeBack ELSE advice[c]]
    BY DEF Reject
  <2> HIDE DEF comeBack
  <2> QED BY <2>1, <2>2 DEF IInv, TypeOK
<1>4. TypeOK'
  BY <1>0, <1>1, <1>3 DEF TypeOK, IInv
<1>5. Capacity(c)' = Capacity(c) /\ Rpm(c)' = Rpm(c) /\ OneToken' = OneToken
  BY DEF Capacity, Rpm, OneToken
<1>6. Known(c)'
  BY <1>1, NoBucketAssumption DEF Known
<1>7. Account(c)'
  <2>1. \A s \in 0 .. now : admittedSince'[c][s] * OneToken + R
                              <= Capacity(c) + Rpm(c) * (now - s)
    BY RefilledAccount, <1>0
  <2>2. \A s \in Times : s > now => admittedSince'[c][s] = 0
    BY <1>0, RefilledAccount
  <2>3. /\ buckets'[c].last = now /\ buckets'[c].tokens = R
    BY <1>1
  <2>4. now \in 0 .. now'
    BY <1>0
  <2> HIDE DEF R
  <2> QED BY <2>1, <2>2, <2>3, <2>4, <1>0, <1>5 DEF Account
<1>8. Promise(c)'
  <2>1. /\ buckets'[c].last = now /\ buckets'[c].tokens = R
    BY <1>1
  <2>2. CASE advice'[c] = comeBack
    <3>1. comeBack > now /\ comeBack - now = wait
          /\ comeBack - TicksPerSecond - now = wait - TicksPerSecond
      BY <1>0, <1>2
    <3> HIDE DEF R, wait, comeBack
    <3> QED BY <2>1, <2>2, <3>1, <1>2, <1>5, <1>6 DEF Promise
  <2>3. CASE advice[c] # NoAdvice /\ advice'[c] = advice[c]
    <3>1. /\ now < advice[c]
          /\ R + Rpm(c) * (advice[c] - now) >= OneToken
          /\ R + Rpm(c) * (advice[c] - TicksPerSecond - now) <= OneToken
      BY PromiseKept, <1>0, <2>3
    <3> HIDE DEF R
    <3> QED BY <2>1, <2>3, <3>1, <1>5, <1>6 DEF Promise
  <2> QED BY <2>2, <2>3, <1>3
<1>9. ASSUME NEW k \in Clients \ {c}
      PROVE  /\ IF Known(k)' THEN Account(k)' ELSE Untouched(k)'
             /\ (advice[k] # NoAdvice => Promise(k))'
  <2>1. (IF Known(k) THEN Account(k) ELSE Untouched(k)) /\ (advice[k] # NoAdvice => Promise(k))
    BY DEF IInv
  <2> QED BY <2>1, <1>0, <1>1, <1>3
          DEF Known, Account, Untouched, Promise, Capacity, Rpm
<1> QED BY <1>4, <1>6, <1>7, <1>8, <1>9 DEF IInv

(* Time passing touches no bucket.                                          *)
LEMMA TickPreserves == IInv /\ Tick => IInv'
<1> SUFFICES ASSUME IInv, Tick PROVE IInv'
  OBVIOUS
<1>1. /\ now \in Nat /\ now' = now + 1 /\ now' \in Times
      /\ buckets' = buckets /\ admittedSince' = admittedSince /\ advice' = advice
  BY ClockAssumption DEF Tick, IInv, TypeOK, Times
<1>2. TypeOK'
  BY <1>1 DEF IInv, TypeOK
<1>3. ASSUME NEW c \in Clients
      PROVE  /\ IF Known(c)' THEN Account(c)' ELSE Untouched(c)'
             /\ (advice[c] # NoAdvice => Promise(c))'
  <2>1. (IF Known(c) THEN Account(c) ELSE Untouched(c)) /\ (advice[c] # NoAdvice => Promise(c))
    BY DEF IInv
  <2>2. buckets[c].last \in 0 .. now => buckets[c].last \in 0 .. now'
    BY <1>1
  <2> QED BY <2>1, <2>2, <1>1 DEF Known, Account, Untouched, Promise, Capacity, Rpm
<1> QED BY <1>2, <1>3 DEF IInv

LEMMA StutterPreserves == IInv /\ UNCHANGED vars => IInv'
BY DEF vars, IInv, TypeOK, Known, Account, Untouched, Promise, Capacity, Rpm

LEMMA NextPreserves == IInv /\ [Next]_vars => IInv'
BY AdmitPreserves, RejectPreserves, TickPreserves, StutterPreserves DEF Next

-----------------------------------------------------------------------------

(* The account holds in every reachable state, whatever the parameters.     *)
THEOREM Invariance == Spec => []IInv
BY InitIInv, NextPreserves, PTL DEF Spec

(* Every value stays in its set: in particular the bucket never goes        *)
(* negative although a token is subtracted from it on every request.        *)
THEOREM TypeCorrect == Spec => []TypeOK
<1>1. IInv => TypeOK
  BY DEF IInv
<1> QED BY <1>1, Invariance, PTL

(* rate_limiter.py:16-22: no client is let through more often than a full   *)
(* bucket plus the refill, in any stretch of time up to now.                *)
THEOREM BurstBounded == Spec => []BurstBound
<1>1. IInv => BurstBound
  <2> SUFFICES ASSUME IInv, NEW c \in Clients, NEW s \in 0 .. now
               PROVE  admittedSince[c][s] * OneToken <= Capacity(c) + Rpm(c) * (now - s)
    BY DEF BurstBound
  <2>1. /\ Refilled(c) \in Nat
        /\ admittedSince[c][s] * OneToken + Refilled(c) <= Capacity(c) + Rpm(c) * (now - s)
    BY RefilledAccount
  <2>2. /\ Capacity(c) \in Nat /\ Rpm(c) \in Nat /\ OneToken \in Nat
        /\ now - s \in Int /\ admittedSince[c][s] \in Nat
    BY Parameters, ClockAssumption DEF IInv, TypeOK, Times
  <2>3. admittedSince[c][s] * OneToken \in Int /\ Rpm(c) * (now - s) \in Int
    BY <2>2, Product
  <2>4. ASSUME NEW x \in Int, NEW y \in Int, NEW z \in Nat, x + z <= y PROVE x <= y
    BY <2>4
  <2>5. Capacity(c) + Rpm(c) * (now - s) \in Int
    BY <2>2, <2>3
  <2> QED BY <2>1, <2>3, <2>4, <2>5, Zenon
<1> QED BY <1>1, Invariance, PTL

(* rate_limiter.py:122-136: a client that waits as long as it was told is   *)
(* not rejected again.                                                      *)
THEOREM RetryAfterIsEnough == Spec => RetryAfterSuffices
<1>1. IInv /\ [Next]_vars =>
        [\A c \in Clients : Reject(c) => advice[c] = NoAdvice \/ now < advice[c]]_vars
  BY PromiseKept DEF Reject
<1> QED BY <1>1, Invariance, PTL DEF Spec, RetryAfterSuffices

(* rate_limiter.py:124: a client is not told to wait a second too long.     *)
THEOREM RetryAfterIsTight == Spec => RetryAfterTight
<1>1. IInv /\ [Next]_vars =>
        [\A c \in Clients : Admit(c) => advice[c] <= now + TicksPerSecond]_vars
  <2> SUFFICES ASSUME IInv, NEW c \in Clients, Admit(c)
               PROVE  advice[c] <= now + TicksPerSecond
    OBVIOUS
  <2>1. CASE advice[c] = NoAdvice
    BY <2>1, ClockAssumption DEF IInv, TypeOK, Times, NoAdvice
  <2>2. CASE advice[c] # NoAdvice
    BY <2>2, PromiseKept DEF Admit
  <2> QED BY <2>1, <2>2
<1> QED BY <1>1, Invariance, PTL DEF Spec, RetryAfterTight

-----------------------------------------------------------------------------
(* The limiter behind the endpoints.  Only a token that was verified puts a *)
(* role on a request, and that happens after the limiter: a request that is *)
(* still to pass it is charged to the fans of its address, so that bucket   *)
(* accounts for all the ordinary requests of the address.                   *)

Fan(a) == <<a, "fan">>

PipelineInv ==
    /\ IInv
    /\ task \in [Tasks -> Request \cup {Idle}]
    /\ \A t \in Tasks :
          task[t] # Idle /\ task[t].stage = "received" => task[t].userRole = "unset"
    /\ ordinarySince \in [Addresses -> [Times -> Nat]]
    /\ \A a \in Addresses, s \in Times : ordinarySince[a][s] <= admittedSince[Fan(a)][s]

LEMMA FanKey ==
    ASSUME NEW a \in Addresses
    PROVE  Fan(a) \in Clients /\ Fan(a) \notin Operators
BY KeysAssumption DEF Fan, Keys, OperatorKeys, Roles

LEMMA LimiterKey ==
    ASSUME PipelineInv, NEW t \in Tasks, task[t] # Idle, task[t].stage = "received"
    PROVE  /\ task[t].address \in Addresses
           /\ Key(task[t]) = Fan(task[t].address)
           /\ Key(task[t]) \in Clients
<1>1. task[t] \in Request
  BY DEF PipelineInv
<1>2. task[t].address \in Addresses
  BY <1>1 DEF Request
<1>3. Key(task[t]) = Fan(task[t].address)
  BY DEF PipelineInv, Key, Fan
<1> QED BY <1>2, <1>3, FanKey

LEMMA EnforceIsLimited ==
    ASSUME PipelineInv, NEW t \in Tasks, Enforce(t)
    PROVE  Next
BY LimiterKey DEF Enforce, Next

LEMMA InitPipeline == PipelineInit => PipelineInv
<1> SUFFICES ASSUME PipelineInit PROVE PipelineInv
  OBVIOUS
<1>1. IInv
  BY InitIInv DEF PipelineInit
<1>2. \A a \in Addresses, s \in Times :
         ordinarySince[a][s] = 0 /\ admittedSince[Fan(a)][s] = 0
  BY FanKey DEF PipelineInit, Init
<1>3. ordinarySince \in [Addresses -> [Times -> Nat]]
  BY DEF PipelineInit
<1>4. \A a \in Addresses, s \in Times : ordinarySince[a][s] <= admittedSince[Fan(a)][s]
  BY <1>2
<1> QED BY <1>1, <1>3, <1>4 DEF PipelineInit, PipelineInv

LEMMA ReceivePipeline ==
    ASSUME PipelineInv, NEW t \in Tasks, Receive(t)
    PROVE  PipelineInv'
<1>1. IInv'
  BY StutterPreserves DEF Receive, vars, PipelineInv
<1>2. PICK r \in Requests : task' = [task EXCEPT ![t] = r]
  BY DEF Receive
<1>3. r \in Request /\ r.userRole = "unset"
  BY RequestsAssumption
<1>4. task' \in [Tasks -> Request \cup {Idle}]
  BY <1>2, <1>3 DEF PipelineInv
<1>5. \A u \in Tasks :
          task'[u] # Idle /\ task'[u].stage = "received" => task'[u].userRole = "unset"
  BY <1>2, <1>3 DEF PipelineInv
<1> QED BY <1>1, <1>4, <1>5 DEF PipelineInv, Receive, Fan

(* A request that is let through is counted in both histories, or in that   *)
(* of the bucket of its address alone.                                      *)
LEMMA EnforceCounts ==
    ASSUME PipelineInv, NEW t \in Tasks, Enforce(t)
    PROVE  /\ ordinarySince' \in [Addresses -> [Times -> Nat]]
           /\ \A a \in Addresses, s \in Times :
                 ordinarySince'[a][s] <= admittedSince'[Fan(a)][s]
<1> DEFINE home == task[t].address
<1>1. home \in Addresses /\ Key(task[t]) = Fan(home)
  BY LimiterKey DEF Enforce
<1>2. /\ ordinarySince \in [Addresses -> [Times -> Nat]]
      /\ admittedSince \in [Clients -> [Times -> Nat]]
      /\ \A a \in Addresses, s \in Times :
            ordinarySince[a][s] <= admittedSince[Fan(a)][s]
  BY DEF PipelineInv, IInv, TypeOK
<1>3. \A a \in Addresses : Fan(a) \in Clients /\ (a # home => Fan(a) # Fan(home))
  BY FanKey DEF Fan
<1> HIDE DEF home
<1>4. CASE Reject(Key(task[t])) /\ UNCHANGED ordinarySince
  BY <1>2, <1>4 DEF Reject
<1>5. CASE /\ Admit(Fan(home))
           /\ \/ UNCHANGED ordinarySince
              \/ ordinarySince' = [ordinarySince EXCEPT ![home] =
                    [s \in Times |-> IF s <= now THEN @[s] + 1 ELSE @[s]]]
  <2>1. /\ \A a \in Addresses \ {home}, s \in Times :
              admittedSince'[Fan(a)][s] = admittedSince[Fan(a)][s]
        /\ \A s \in Times : admittedSince'[Fan(home)][s] =
              IF s <= now THEN admittedSince[Fan(home)][s] + 1 ELSE admittedSince[Fan(home)][s]
    BY <1>1, <1>2, <1>3, <1>5 DEF Admit
  <2>2. CASE UNCHANGED ordinarySince
    <3>1. \A a \in Addresses, s \in Times :
             /\ ordinarySince[a][s] \in Nat /\ admittedSince[Fan(a)][s] \in Nat
             /\ ordinarySince[a][s] <= admittedSince[Fan(a)][s]
      BY <1>2, <1>3
    <3>2. \A a \in Addresses, s \in Times :
             admittedSince'[Fan(a)][s] \in
                {admittedSince[Fan(a)][s], admittedSince[Fan(a)][s] + 1}
      BY <2>1
    <3>3. \A x, y, z \in Int : x <= y /\ z \in {y, y + 1} => x <= z
      OBVIOUS
    <3>4. \A a \in Addresses, s \in Times :
             ordinarySince[a][s] <= admittedSince'[Fan(a)][s]
      BY <3>1, <3>2, <3>3
    <3> QED BY <2>2, <3>4, <1>2
  <2>3. CASE ordinarySince' = [ordinarySince EXCEPT ![home] =
                    [s \in Times |-> IF s <= now THEN @[s] + 1 ELSE @[s]]]
    <3>1. /\ \A a \in Addresses \ {home}, s \in Times :
                ordinarySince'[a][s] = ordinarySince[a][s]
          /\ \A s \in Times : ordinarySince'[home][s] =
                IF s <= now THEN ordinarySince[home][s] + 1 ELSE ordinarySince[home][s]
      BY <1>1, <1>2, <2>3
    <3>2. ordinarySince' \in [Addresses -> [Times -> Nat]]
      BY <1>1, <1>2, <2>3
    <3>3. \A s \in Times : ordinarySince[home][s] \in Nat /\ admittedSince[Fan(home)][s] \in Nat
      BY <1>1, <1>2, <1>3
    <3>4. \A s \in Times : ordinarySince'[home][s] <= admittedSince'[Fan(home)][s]
      BY <1>1, <1>2, <2>1, <3>1, <3>3
    <3>5. \A a \in Addresses \ {home}, s \in Times :
             ordinarySince'[a][s] <= admittedSince'[Fan(a)][s]
      BY <1>2, <2>1, <3>1
    <3> QED BY <3>2, <3>4, <3>5
  <2> QED BY <1>5, <2>2, <2>3
<1> QED BY <1>1, <1>4, <1>5 DEF Enforce, home

LEMMA EnforcePipeline ==
    ASSUME PipelineInv, NEW t \in Tasks, Enforce(t)
    PROVE  PipelineInv'
<1>1. IInv'
  BY EnforceIsLimited, NextPreserves DEF PipelineInv
<1>2. PICK stage \in {"admitted", "429"} : task' = [task EXCEPT ![t].stage = stage]
  BY DEF Enforce
<1>3. task[t] \in Request /\ task[t] # Idle
  BY DEF PipelineInv, Enforce
<1>4. [task[t] EXCEPT !.stage = stage] \in Request
  BY <1>3 DEF Request
<1>5. task' = [task EXCEPT ![t] = [task[t] EXCEPT !.stage = stage]]
  BY <1>2
<1>6. task' \in [Tasks -> Request \cup {Idle}]
  BY <1>4, <1>5 DEF PipelineInv
<1>7. task'[t].stage = stage
  BY <1>3, <1>5 DEF PipelineInv, Request
<1>8. \A u \in Tasks :
          task'[u] # Idle /\ task'[u].stage = "received" => task'[u].userRole = "unset"
  <2> SUFFICES ASSUME NEW u \in Tasks, task'[u] # Idle, task'[u].stage = "received"
               PROVE  task'[u].userRole = "unset"
    OBVIOUS
  <2>1. u # t
    BY <1>7
  <2> QED BY <2>1, <1>5 DEF PipelineInv
<1>9. (\A a \in Addresses, s \in Times : ordinarySince[a][s] <= admittedSince[Fan(a)][s])'
  BY EnforceCounts DEF Fan, Times
<1> QED BY <1>1, <1>6, <1>8, <1>9, EnforceCounts DEF PipelineInv, Times

LEMMA ServePipeline ==
    ASSUME PipelineInv, NEW t \in Tasks, Serve(t)
    PROVE  PipelineInv'
<1> DEFINE role == IF Verified(task[t]) THEN task[t].credential ELSE task[t].userRole
           end == IF Granted(task[t]) THEN "handled" ELSE "refused"
           served == [task[t] EXCEPT !.userRole = role, !.stage = end]
<1>1. IInv'
  BY StutterPreserves DEF Serve, vars, PipelineInv
<1>2. task[t] \in Request
  BY DEF PipelineInv, Serve
<1>3. task' = [task EXCEPT ![t] = served]
  BY DEF Serve
<1>4. role \in Roles \cup {"unset"} /\ end \in {"handled", "refused"}
  BY <1>2 DEF Verified, Request
<1> HIDE DEF role, end
<1>5. served \in Request /\ served.stage # "received"
  BY <1>2, <1>4 DEF Request
<1>6. task' \in [Tasks -> Request \cup {Idle}]
  BY <1>3, <1>5 DEF PipelineInv
<1>7. \A u \in Tasks :
          task'[u] # Idle /\ task'[u].stage = "received" => task'[u].userRole = "unset"
  BY <1>3, <1>5 DEF PipelineInv
<1> QED BY <1>1, <1>6, <1>7 DEF PipelineInv, Serve, Fan

LEMMA RespondPipeline ==
    ASSUME PipelineInv, NEW t \in Tasks, Respond(t)
    PROVE  PipelineInv'
<1>1. IInv'
  BY StutterPreserves DEF Respond, vars, PipelineInv
<1> QED BY <1>1 DEF Respond, PipelineInv, Fan

LEMMA ClockPipeline == PipelineInv /\ ClockTick => PipelineInv'
<1> SUFFICES ASSUME PipelineInv, ClockTick PROVE PipelineInv'
  OBVIOUS
<1>1. IInv'
  BY TickPreserves DEF ClockTick, PipelineInv
<1> QED BY <1>1 DEF ClockTick, Tick, PipelineInv, Fan

LEMMA NextPipeline == PipelineInv /\ [PipelineNext]_pipelineVars => PipelineInv'
<1> SUFFICES ASSUME PipelineInv, [PipelineNext]_pipelineVars PROVE PipelineInv'
  OBVIOUS
<1>1. CASE UNCHANGED pipelineVars
  <2>1. IInv'
    BY <1>1, StutterPreserves DEF pipelineVars, vars, PipelineInv
  <2> QED BY <1>1, <2>1 DEF pipelineVars, PipelineInv, Fan
<1> QED BY <1>1, ReceivePipeline, EnforcePipeline, ServePipeline, RespondPipeline,
           ClockPipeline DEF PipelineNext

(* rate_limiter.py:100-111, routers/*.py: however requests overlap and      *)
(* whatever tokens they carry, the endpoints drive the limiter by its own   *)
(* steps only, under keys it knows; so all that is proved of the limiter    *)
(* above holds of it behind the endpoints.                                  *)
THEOREM PipelineIsLimited == PipelineSpec => Spec
<1>1. PipelineInit => Init
  BY DEF PipelineInit
<1>2. PipelineInv /\ [PipelineNext]_pipelineVars => [Next]_vars
  <2> SUFFICES ASSUME PipelineInv, [PipelineNext]_pipelineVars PROVE [Next]_vars
    OBVIOUS
  <2>1. ASSUME NEW t \in Tasks, Receive(t) \/ Serve(t) \/ Respond(t)
        PROVE  UNCHANGED vars
    BY <2>1 DEF Receive, Serve, Respond, vars
  <2>2. ASSUME NEW t \in Tasks, Enforce(t)
        PROVE  Next
    BY <2>2, EnforceIsLimited
  <2>3. ClockTick => Next
    BY DEF ClockTick, Next
  <2>4. UNCHANGED pipelineVars => UNCHANGED vars
    BY DEF pipelineVars, vars
  <2> QED BY <2>1, <2>2, <2>3, <2>4 DEF PipelineNext
<1> QED BY <1>1, <1>2, InitPipeline, NextPipeline, PTL DEF PipelineSpec, Spec

(* README.md:134, rate_limiter.py:87-97: the requests of one address that   *)
(* carry no operator's or admin's token get the budget of a single fan, for *)
(* any number of addresses and of requests in flight.                       *)
THEOREM OneBudget == PipelineSpec => []OrdinaryShareOneBudget
<1>1. PipelineInv /\ BurstBound => OrdinaryShareOneBudget
  <2> SUFFICES ASSUME PipelineInv, BurstBound, NEW a \in Addresses, NEW s \in 0 .. now
               PROVE  ordinarySince[a][s] * OneToken <= FanRpm * OneToken + FanRpm * (now - s)
    BY DEF OrdinaryShareOneBudget
  <2>1. Fan(a) \in Clients /\ Fan(a) \notin Operators
    BY FanKey
  <2>2. Rpm(Fan(a)) = FanRpm /\ Capacity(Fan(a)) = FanRpm * OneToken
    BY <2>1 DEF Rpm, Capacity
  <2>3. admittedSince[Fan(a)][s] * OneToken <= FanRpm * OneToken + FanRpm * (now - s)
    BY <2>1, <2>2 DEF BurstBound
  <2>4. /\ s \in Times /\ now \in Int /\ s \in Int
        /\ ordinarySince[a][s] \in Nat /\ admittedSince[Fan(a)][s] \in Nat
    BY <2>1, ClockAssumption DEF PipelineInv, IInv, TypeOK, Times
  <2>5. ordinarySince[a][s] <= admittedSince[Fan(a)][s]
    BY <2>4 DEF PipelineInv
  <2>6. OneToken \in Nat /\ FanRpm \in Nat
    BY <2>1, Parameters, RatesAssumption
  <2>7. OneToken * ordinarySince[a][s] <= OneToken * admittedSince[Fan(a)][s]
    BY <2>4, <2>5, <2>6, Monotone
  <2>8. /\ ordinarySince[a][s] * OneToken = OneToken * ordinarySince[a][s]
        /\ admittedSince[Fan(a)][s] * OneToken = OneToken * admittedSince[Fan(a)][s]
    BY <2>4, <2>6
  <2>9. /\ OneToken * ordinarySince[a][s] \in Int
        /\ OneToken * admittedSince[Fan(a)][s] \in Int
        /\ FanRpm * OneToken + FanRpm * (now - s) \in Int
    BY <2>4, <2>6
  <2>10. \A x, y, z \in Int : x <= y /\ y <= z => x <= z
    OBVIOUS
  <2>11. OneToken * ordinarySince[a][s] <= FanRpm * OneToken + FanRpm * (now - s)
    BY <2>3, <2>7, <2>8, <2>9, <2>10
  <2> QED BY <2>8, <2>11
<1>2. PipelineSpec => []PipelineInv
  BY InitPipeline, NextPipeline, PTL DEF PipelineSpec
<1> QED BY <1>1, <1>2, PipelineIsLimited, BurstBounded, PTL
=============================================================================
