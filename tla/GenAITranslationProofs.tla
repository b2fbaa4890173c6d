----------------------- MODULE GenAITranslationProofs -----------------------
(***************************************************************************)
(* Proofs about GenAITranslation, for any number of overlapping calls and  *)
(* any number of attempts.                                                 *)
(*                                                                         *)
(* Inv is inductive: Working counts the requests of a call at each point of*)
(* its loop, CacheFits is the half of AnswerFitsRequest that speaks of the *)
(* cache, and Sighted says that a call past its lookup whose key is filled *)
(* knows nothing of the entry.                                             *)
(***************************************************************************)
EXTENDS GenAITranslation, TLAPS

HasReason(c) == ~ hasKey \/ posts[c] = MaxRetries \/ outcome[c] \in {"503", "error"}

\* Where a call is, and what it has counted and built there.
Working(c) ==
    /\ posts[c] <= MaxRetries
    /\ At(c, "lookup") => posts[c] = 0
    /\ At(c, "post") => posts[c] = attempt[c] /\ attempt[c] < MaxRetries
    /\ At(c, "backoff") => posts[c] = attempt[c] + 1 /\ attempt[c] < MaxRetries
    /\ At(c, "store") /\ instruction[c].by = "fallback" => HasReason(c)
    /\ pc[c] \in {"store", "done"} =>
           instruction[c] # Nothing /\ instruction[c].request = request[c]

CacheFits == \A k \in Keys : cache[k] # Nothing => Key(cache[k].request) = k

Sighted(c) ==
    pc[c] \in {"post", "backoff", "store"} /\ cache[KeyOf(c)] # Nothing => blind[c]

Inv ==
    /\ TypeOK
    /\ CacheFits
    /\ \A c \in Calls : Working(c) /\ Sighted(c)

-----------------------------------------------------------------------------

(* Two requests with the same key are the same request.                     *)
LEMMA KeyIsInjective ==
  ASSUME NEW r \in Requests, NEW s \in Requests, Key(r) = Key(s)
  PROVE  r = s
<1>1. r.text = s.text /\ r.language = s.language /\ r.density = s.density
  BY DEF Key
<1> QED BY <1>1 DEF Requests

LEMMA InitInv == Init => Inv
<1> SUFFICES ASSUME Init PROVE Inv
  OBVIOUS
<1>1. (CHOOSE r \in Requests : TRUE) \in Requests
  BY RequestsAssumption
<1>2. TypeOK
  <2>1. request \in [Calls -> Requests]
    BY <1>1 DEF Init
  <2> QED BY <2>1, TranslationAssumption DEF Init, TypeOK, Outcomes
<1>3. CacheFits
  BY DEF Init, CacheFits
<1>4. ASSUME NEW c \in Calls PROVE Working(c) /\ Sighted(c)
  <2>1. pc[c] = "idle" /\ posts[c] = 0 /\ 0 <= MaxRetries
    BY TranslationAssumption DEF Init
  <2> QED BY <2>1 DEF Working, Sighted, At
<1> QED BY <1>2, <1>3, <1>4 DEF Inv

LEMMA BeginInv ==
  ASSUME Inv, NEW c \in Calls, NEW r \in Requests, Begin(c, r)
  PROVE  Inv'
<1>1. TypeOK'
  BY TranslationAssumption DEF Inv, TypeOK, Begin, Goto, Outcomes
<1>2. CacheFits'
  BY DEF Inv, CacheFits, Begin
<1>3. ASSUME NEW d \in Calls PROVE Working(d)' /\ Sighted(d)'
  BY <1>3, TranslationAssumption DEF Inv, TypeOK, Working, Sighted, At, HasReason, KeyOf, Begin, Goto
<1> QED BY <1>1, <1>2, <1>3 DEF Inv

LEMMA HitInv ==
  ASSUME Inv, NEW c \in Calls, Hit(c)
  PROVE  Inv'
<1>0. KeyOf(c) \in Keys /\ cache[KeyOf(c)] \in Instruction /\ request[c] \in Requests
  BY DEF Inv, TypeOK, Hit, KeyOf, Keys
<1>1. TypeOK'
  BY <1>0 DEF Inv, TypeOK, Hit, Goto
<1>2. CacheFits'
  BY DEF Inv, CacheFits, Hit
<1>3. cache[KeyOf(c)].request = request[c]
  <2>1. cache[KeyOf(c)].request \in Requests
    BY <1>0 DEF Instruction
  <2>2. Key(cache[KeyOf(c)].request) = Key(request[c])
    BY <1>0 DEF Inv, CacheFits, Hit, KeyOf
  <2> QED BY <1>0, <2>1, <2>2, KeyIsInjective
<1>4. ASSUME NEW d \in Calls PROVE Working(d)' /\ Sighted(d)'
  BY <1>3, <1>4 DEF Inv, TypeOK, Working, Sighted, At, HasReason, KeyOf, Hit, Goto
<1> QED BY <1>1, <1>2, <1>4 DEF Inv

(* The head of the loop at an attempt that equals the number of requests.   *)
LEMMA LoopKeeps ==
  ASSUME Inv, NEW c \in Calls, NEW n \in Nat, n <= MaxRetries, Loop(c, n),
         UNCHANGED <<hasKey, request, cache>>,
         posts' \in [Calls -> Nat], posts'[c] = n,
         outcome' \in [Calls -> Outcomes], blind' \in [Calls -> BOOLEAN],
         \A d \in Calls \ {c} : /\ posts'[d] = posts[d] /\ outcome'[d] = outcome[d]
                                /\ blind'[d] = blind[d],
         cache[KeyOf(c)] # Nothing => blind'[c]
  PROVE  Inv'
<1>0. n \in 0 .. MaxRetries /\ MaxRetries \in Nat /\ Fallback(c) \in Instruction
      /\ Fallback(c).request = request[c] /\ Fallback(c) # Nothing
  BY TranslationAssumption, NothingAssumption DEF Inv, TypeOK, Fallback, Instruction
<1>1. TypeOK'
  BY <1>0 DEF Inv, TypeOK, Loop, UseFallback, Goto
<1>2. CacheFits'
  BY DEF Inv, CacheFits
<1>3. ASSUME NEW d \in Calls PROVE Working(d)' /\ Sighted(d)'
  <2>1. CASE d = c
    <3>1. CASE n < MaxRetries
      BY <1>0, <2>1, <3>1 DEF Inv, TypeOK, Working, Sighted, At, KeyOf, Loop, Goto
    <3>2. CASE ~ (n < MaxRetries)
      <4>1. n = MaxRetries
        BY <1>0, <3>2
      <4> QED BY <1>0, <2>1, <3>2, <4>1
              DEF Inv, TypeOK, Working, Sighted, At, HasReason, KeyOf, Loop, UseFallback, Goto
    <3> QED BY <3>1, <3>2
  <2>2. CASE d # c
    BY <2>2 DEF Inv, TypeOK, Working, Sighted, At, HasReason, KeyOf, Loop, UseFallback, Goto
  <2> QED BY <2>1, <2>2
<1> QED BY <1>1, <1>2, <1>3 DEF Inv

(* Leaving for the template with a reason.                                  *)
LEMMA FallbackKeeps ==
  ASSUME Inv, NEW c \in Calls, UseFallback(c),
         UNCHANGED <<hasKey, request, attempt, cache>>,
         posts' \in [Calls -> Nat], posts'[c] <= MaxRetries,
         outcome' \in [Calls -> Outcomes], blind' \in [Calls -> BOOLEAN],
         \A d \in Calls \ {c} : /\ posts'[d] = posts[d] /\ outcome'[d] = outcome[d]
                                /\ blind'[d] = blind[d],
         HasReason(c)',
         cache[KeyOf(c)] # Nothing => blind'[c]
  PROVE  Inv'
<1>0. Fallback(c) \in Instruction /\ Fallback(c).request = request[c] /\ Fallback(c) # Nothing
  BY NothingAssumption DEF Inv, TypeOK, Fallback, Instruction
<1>1. TypeOK'
  BY <1>0 DEF Inv, TypeOK, UseFallback, Goto
<1>2. CacheFits'
  BY DEF Inv, CacheFits
<1>3. ASSUME NEW d \in Calls PROVE Working(d)' /\ Sighted(d)'
  <2>1. CASE d = c
    BY <1>0, <2>1 DEF Inv, TypeOK, Working, Sighted, At, KeyOf, UseFallback, Goto
  <2>2. CASE d # c
    BY <2>2 DEF Inv, TypeOK, Working, Sighted, At, HasReason, KeyOf, UseFallback, Goto
  <2> QED BY <2>1, <2>2
<1> QED BY <1>1, <1>2, <1>3 DEF Inv

(* Both ways into _call_genai.                                              *)
LEMMA EnterInv ==
  ASSUME Inv, NEW c \in Calls, Miss(c) \/ LookupFails(c)
  PROVE  Inv'
<1>0. /\ At(c, "lookup") /\ posts[c] = 0
      /\ UNCHANGED <<hasKey, request, cache, posts, outcome>>
      /\ blind' \in [Calls -> BOOLEAN] /\ \A d \in Calls \ {c} : blind'[d] = blind[d]
      /\ cache[KeyOf(c)] # Nothing => blind'[c]
      /\ IF hasKey THEN Loop(c, 0) ELSE UseFallback(c) /\ UNCHANGED attempt
  BY DEF Inv, TypeOK, Working, Miss, LookupFails, EnterApi
<1>1. posts' \in [Calls -> Nat] /\ posts'[c] = 0 /\ outcome' \in [Calls -> Outcomes]
      /\ 0 <= MaxRetries /\ \A d \in Calls \ {c} : posts'[d] = posts[d] /\ outcome'[d] = outcome[d]
  BY <1>0, TranslationAssumption DEF Inv, TypeOK
<1>2. CASE hasKey
  BY <1>0, <1>1, <1>2, LoopKeeps
<1>3. CASE ~ hasKey
  <2>1. HasReason(c)'
    BY <1>0, <1>3 DEF HasReason
  <2> QED BY <1>0, <1>1, <1>3, <2>1, FallbackKeeps
<1> QED BY <1>2, <1>3

LEMMA OutcomeInv ==
  ASSUME Inv, NEW c \in Calls, Outcome(c)
  PROVE  Inv'
<1>0. PICK what \in Outcomes : Posted(c, what)
  BY DEF Outcome, Answer, RateLimited, Failed, GiveUp, Outcomes
<1>1. /\ At(c, "post") /\ posts[c] = attempt[c] /\ attempt[c] \in Nat
      /\ attempt[c] < MaxRetries /\ MaxRetries \in Nat
      /\ UNCHANGED <<hasKey, request, cache, blind>>
  BY <1>0, TranslationAssumption DEF Posted, Inv, TypeOK, Working
<1>2. /\ posts' \in [Calls -> Nat] /\ posts'[c] = attempt[c] + 1 /\ attempt[c] + 1 <= MaxRetries
      /\ outcome' \in [Calls -> Outcomes] /\ outcome'[c] = what
      /\ \A d \in Calls \ {c} : /\ posts'[d] = posts[d] /\ outcome'[d] = outcome[d]
                                /\ blind'[d] = blind[d]
      /\ blind' \in [Calls -> BOOLEAN]
      /\ cache[KeyOf(c)] # Nothing => blind'[c]
  BY <1>0, <1>1 DEF Posted, Inv, TypeOK, Sighted, At
<1>3. CASE Answer(c)
  <2>0. [by |-> "genai", request |-> request[c]] \in Instruction
    BY DEF Inv, TypeOK, Instruction
  <2>1. TypeOK'
    BY <1>1, <1>2, <1>3, <2>0 DEF Inv, TypeOK, Answer, Goto
  <2>2. CacheFits'
    BY <1>1 DEF Inv, CacheFits
  <2>3. ASSUME NEW d \in Calls PROVE Working(d)' /\ Sighted(d)'
    <3>1. CASE d = c
      BY <1>1, <1>2, <1>3, <2>0, <3>1, NothingAssumption
         DEF Inv, TypeOK, Working, Sighted, At, KeyOf, Answer, Goto
    <3>2. CASE d # c
      BY <1>1, <1>2, <1>3, <3>2
         DEF Inv, TypeOK, Working, Sighted, At, HasReason, KeyOf, Answer, Goto
    <3> QED BY <3>1, <3>2
  <2> QED BY <2>1, <2>2, <2>3 DEF Inv
<1>4. CASE RateLimited(c)
  <2>1. TypeOK'
    BY <1>1, <1>2, <1>4 DEF Inv, TypeOK, RateLimited, Goto
  <2>2. CacheFits'
    BY <1>1 DEF Inv, CacheFits
  <2>3. ASSUME NEW d \in Calls PROVE Working(d)' /\ Sighted(d)'
    <3>1. CASE d = c
      BY <1>1, <1>2, <1>4, <3>1
         DEF Inv, TypeOK, Working, Sighted, At, KeyOf, RateLimited, Goto
    <3>2. CASE d # c
      BY <1>1, <1>2, <1>4, <3>2
         DEF Inv, TypeOK, Working, Sighted, At, HasReason, KeyOf, RateLimited, Goto
    <3> QED BY <3>1, <3>2
  <2> QED BY <2>1, <2>2, <2>3 DEF Inv
<1>5. CASE Failed(c)
  <2>1. Loop(c, attempt[c] + 1)
    BY <1>5 DEF Failed
  <2> QED BY <1>1, <1>2, <2>1, LoopKeeps
<1>6. CASE GiveUp(c)
  <2>1. UseFallback(c) /\ UNCHANGED attempt /\ outcome'[c] \in {"503", "error"}
    <3>1. PICK how \in {"503", "error"} : Posted(c, how)
      BY <1>6 DEF GiveUp
    <3> QED BY <1>6, <3>1 DEF GiveUp, Posted, Inv, TypeOK
  <2>2. HasReason(c)'
    BY <2>1 DEF HasReason
  <2> QED BY <1>1, <1>2, <2>1, <2>2, FallbackKeeps
<1> QED BY <1>3, <1>4, <1>5, <1>6 DEF Outcome

LEMMA WakeInv ==
  ASSUME Inv, NEW c \in Calls, Wake(c)
  PROVE  Inv'
<1>1. /\ Loop(c, attempt[c] + 1) /\ UNCHANGED <<hasKey, request, cache, posts, outcome, blind>>
      /\ posts[c] = attempt[c] + 1 /\ attempt[c] \in Nat /\ attempt[c] + 1 <= MaxRetries
  BY TranslationAssumption DEF Wake, Inv, TypeOK, Working
<1>2. /\ posts' \in [Calls -> Nat] /\ outcome' \in [Calls -> Outcomes]
      /\ blind' \in [Calls -> BOOLEAN]
      /\ cache[KeyOf(c)] # Nothing => blind'[c]
  BY <1>1 DEF Inv, TypeOK, Sighted, Wake, At
<1> QED BY <1>1, <1>2, LoopKeeps

LEMMA FinishInv ==
  ASSUME Inv, NEW c \in Calls, Finish(c)
  PROVE  Inv'
<1>0. /\ instruction[c] \in Instruction /\ instruction[c].request = request[c]
      /\ KeyOf(c) \in Keys /\ pc' = [pc EXCEPT ![c] = "done"] /\ At(c, "store")
      /\ UNCHANGED <<hasKey, request, attempt, instruction, posts, outcome>>
  BY DEF Inv, TypeOK, Working, At, Finish, Store, StoreFails, Goto, KeyOf, Keys
<1>1. CASE Store(c)
  <2>1. TypeOK'
    BY <1>0, <1>1 DEF Inv, TypeOK, Store
  <2>2. CacheFits'
    BY <1>0, <1>1 DEF Inv, TypeOK, CacheFits, Store, KeyOf
  <2>3. ASSUME NEW d \in Calls PROVE Working(d)'
    BY <1>0, <2>3 DEF Inv, TypeOK, Working, At, HasReason
  <2>4. ASSUME NEW d \in Calls PROVE Sighted(d)'
    <3>1. KeyOf(d) \in Keys /\ KeyOf(d)' = KeyOf(d)
      BY <1>0 DEF Inv, TypeOK, KeyOf, Keys
    <3>2. CASE d = c
      BY <1>0, <3>2 DEF Inv, TypeOK, Sighted
    <3>3. CASE d # c
      <4>1. pc'[d] = pc[d]
        BY <1>0, <3>3 DEF Inv, TypeOK
      <4>2. blind'[d] = (blind[d] \/ (d # c /\ pc[d] \in {"post", "backoff", "store"}
                                           /\ KeyOf(d) = KeyOf(c)))
        BY <1>1 DEF Store
      <4>3. KeyOf(d) # KeyOf(c) => cache'[KeyOf(d)] = cache[KeyOf(d)]
        BY <1>0, <1>1, <3>1 DEF Inv, TypeOK, Store
      <4>4. CASE KeyOf(d) = KeyOf(c)
        BY <3>1, <3>3, <4>1, <4>2, <4>4 DEF Sighted
      <4>5. CASE KeyOf(d) # KeyOf(c)
        BY <3>1, <4>1, <4>2, <4>3, <4>5 DEF Inv, Sighted
      <4> QED BY <4>4, <4>5
    <3> QED BY <3>2, <3>3
  <2> QED BY <2>1, <2>2, <2>3, <2>4 DEF Inv
<1>2. CASE StoreFails(c)
  <2>1. TypeOK' /\ CacheFits'
    BY <1>0, <1>2 DEF Inv, TypeOK, CacheFits, StoreFails
  <2>2. ASSUME NEW d \in Calls PROVE Working(d)' /\ Sighted(d)'
    BY <1>0, <1>2, <2>2 DEF Inv, TypeOK, Working, Sighted, At, HasReason, KeyOf, StoreFails
  <2> QED BY <2>1, <2>2 DEF Inv
<1> QED BY <1>1, <1>2 DEF Finish

LEMMA ExpireInv ==
  ASSUME Inv, NEW k \in Keys, Expire(k)
  PROVE  Inv'
<1>1. TypeOK' /\ CacheFits'
  BY DEF Inv, TypeOK, CacheFits, Expire
<1>2. ASSUME NEW d \in Calls PROVE Working(d)' /\ Sighted(d)'
  <2>1. Key(request[d]) \in Keys
    BY DEF Inv, TypeOK, Keys
  <2> QED BY <2>1 DEF Inv, TypeOK, Working, Sighted, At, HasReason, KeyOf, Expire
<1> QED BY <1>1, <1>2 DEF Inv

LEMMA NextInv == Inv /\ [Next]_translationVars => Inv'
<1> SUFFICES ASSUME Inv, [Next]_translationVars PROVE Inv'
  OBVIOUS
<1>1. ASSUME NEW c \in Calls, NEW r \in Requests, Begin(c, r) PROVE Inv'
  BY <1>1, BeginInv
<1>2. ASSUME NEW c \in Calls, Lookup(c) \/ Outcome(c) \/ Wake(c) \/ Finish(c) PROVE Inv'
  BY <1>2, HitInv, EnterInv, OutcomeInv, WakeInv, FinishInv DEF Lookup
<1>3. ASSUME NEW k \in Keys, Expire(k) PROVE Inv'
  BY <1>3, ExpireInv
<1>4. CASE UNCHANGED translationVars
  BY <1>4 DEF translationVars, Inv, TypeOK, CacheFits, Working, Sighted, At, HasReason, KeyOf
<1> QED BY <1>1, <1>2, <1>3, <1>4 DEF Next

(* Inv holds in every state, whatever the API and the cache do.             *)
THEOREM Invariance == Spec => []Inv
<1>1. QED BY InitInv, NextInv, PTL DEF Spec

(* genai_translation.py:113-269.  Every variable keeps its type.            *)
THEOREM TypeCorrect == Spec => []TypeOK
<1>1. Inv => TypeOK
  BY DEF Inv
<1> QED BY <1>1, Invariance, PTL

(* cache.py:57-66.  No fan is given the instruction of another request.     *)
THEOREM AnswersFit == Spec => []AnswerFitsRequest
<1>1. Inv => AnswerFitsRequest
  BY DEF Inv, CacheFits, Working, At, AnswerFitsRequest
<1> QED BY <1>1, Invariance, PTL

(* genai_translation.py:207-269.  The attempts are bounded, and a template  *)
(* is only used for a reason.                                               *)
THEOREM GivesUpOnlyForAReason == Spec => []GivesUpForAReason
<1>1. Inv => GivesUpForAReason
  BY DEF Inv, Working, HasReason, GivesUpForAReason
<1> QED BY <1>1, Invariance, PTL

(* genai_translation.py:157-171.  Only a call that could not see the entry  *)
(* replaces a translation in the cache by a template.                       *)
THEOREM DegradesOnlyInRaces == Spec => OnlyRacesDegrade
<1> DEFINE Degraded(k) == /\ cache[k] # Nothing /\ cache[k].by = "genai"
                          /\ cache'[k] # Nothing /\ cache'[k].by = "fallback"
           Raced(k) == \E c \in Calls : At(c, "store") /\ KeyOf(c) = k /\ blind[c]
           Safe == \A k \in Keys : Degraded(k) => Raced(k)
<1>1. Inv /\ [Next]_translationVars => [Safe]_translationVars
  <2> SUFFICES ASSUME Inv, Next, NEW k \in Keys, Degraded(k) PROVE Raced(k)
    BY DEF translationVars
  <2>1. cache'[k] # cache[k]
    BY Zenon
  <2>2. \/ \E c \in Calls : Store(c)
        \/ \E j \in Keys : Expire(j)
    BY <2>1 DEF Next, Begin, Lookup, Hit, Miss, LookupFails, EnterApi, Outcome, Answer,
                RateLimited, Failed, GiveUp, Posted, Wake, Finish, StoreFails
  <2>3. ASSUME NEW j \in Keys, Expire(j) PROVE FALSE
    BY <2>1, <2>3 DEF Expire, Inv, TypeOK
  <2>4. PICK c \in Calls : Store(c)
    BY <2>2, <2>3
  <2>5. KeyOf(c) = k
    BY <2>1, <2>4 DEF Store, Inv, TypeOK
  <2> QED BY <2>4, <2>5 DEF Store, Inv, Sighted, At
<1>2. [][Next]_translationVars /\ []Inv => [][Safe]_translationVars
  BY <1>1, PTL
<1> QED BY <1>2, Invariance DEF Spec, OnlyRacesDegrade
=============================================================================
