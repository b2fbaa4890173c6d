-------------------------- MODULE GenAITranslation --------------------------
(***************************************************************************)
(* services/genai_translation.py: an instruction is looked up in the cache,*)
(* else generated by the GenAI API with a bounded number of attempts, else *)
(* built from the fallback template; the result is cached and returned.    *)
(*                                                                         *)
(* A call is a coroutine.  Every await is a point where other calls run:   *)
(* the cache lookup, each request to the API, the back-off after a 429 and *)
(* the write to the cache are steps of their own.                          *)
(*                                                                         *)
(* An instruction is the request it was made for and its maker, the API or *)
(* the template.  Entries leave the cache at any time (TTL, LRU, another   *)
(* process); a Redis failure is a miss or a write that is lost.            *)
(***************************************************************************)
EXTENDS Integers

CONSTANTS
    Calls,         \* calls of generate_navigation_instruction that may overlap
    Texts,         \* raw_instruction: step, zone, direction and destination
    Languages,
    Densities,
    MaxRetries,    \* settings.genai_max_retries
    Nothing        \* None

ASSUME TranslationAssumption == MaxRetries \in Nat

Requests == [text : Texts, language : Languages, density : Densities]
Instruction == [by : {"genai", "fallback"}, request : Requests]

ASSUME RequestsAssumption == Requests # {}
ASSUME NothingAssumption == Nothing \notin Instruction

\* Mutant: the density is left out of the key.
KeyWithoutDensity(r) == <<r.language, r.text>>

\* build_translation_key: everything the instruction depends on.
Key(r) == <<r.language, r.density, r.text>>

Keys == {Key(r) : r \in Requests}

VARIABLES
    hasKey,        \* self._api_key is set, for the life of the service
    pc,            \* where each call is
    request,       \* its arguments
    attempt,       \* the loop variable of _call_genai
    instruction,   \* the instruction it stores and returns
    cache,         \* the cache service
    posts,         \* history: requests the call sent to the API
    outcome,       \* history: what the last of them led to
    blind          \* history: its lookup failed, or another call wrote its key since

translationVars ==
    <<hasKey, pc, request, attempt, instruction, cache, posts, outcome, blind>>

Outcomes == {"none", "text", "429", "failed", "503", "error"}

TypeOK ==
    /\ hasKey \in BOOLEAN
    /\ pc \in [Calls -> {"idle", "lookup", "post", "backoff", "store", "done"}]
    /\ request \in [Calls -> Requests]
    /\ attempt \in [Calls -> 0 .. MaxRetries]
    /\ instruction \in [Calls -> Instruction \cup {Nothing}]
    /\ cache \in [Keys -> Instruction \cup {Nothing}]
    /\ posts \in [Calls -> Nat]
    /\ outcome \in [Calls -> Outcomes]
    /\ blind \in [Calls -> BOOLEAN]

Init ==
    /\ hasKey \in BOOLEAN
    /\ pc = [c \in Calls |-> "idle"]
    /\ request \in [Calls -> {CHOOSE r \in Requests : TRUE}]
    /\ attempt = [c \in Calls |-> 0]
    /\ instruction = [c \in Calls |-> Nothing]
    /\ cache = [k \in Keys |-> Nothing]
    /\ posts = [c \in Calls |-> 0]
    /\ outcome = [c \in Calls |-> "none"]
    /\ blind = [c \in Calls |-> FALSE]

-----------------------------------------------------------------------------

KeyOf(c) == Key(request[c])
Fallback(c) == [by |-> "fallback", request |-> request[c]]

At(c, label) == pc[c] = label
Goto(c, label) == pc' = [pc EXCEPT ![c] = label]

\* A caller comes with new arguments.
Begin(c, r) ==
    /\ pc[c] \in {"idle", "done"}
    /\ Goto(c, "lookup")
    /\ request' = [request EXCEPT ![c] = r]
    /\ attempt' = [attempt EXCEPT ![c] = 0]
    /\ instruction' = [instruction EXCEPT ![c] = Nothing]
    /\ posts' = [posts EXCEPT ![c] = 0]
    /\ outcome' = [outcome EXCEPT ![c] = "none"]
    /\ blind' = [blind EXCEPT ![c] = FALSE]
    /\ UNCHANGED <<hasKey, cache>>

Hit(c) ==
    /\ At(c, "lookup") /\ cache[KeyOf(c)] # Nothing
    /\ instruction' = [instruction EXCEPT ![c] = cache[KeyOf(c)]]
    /\ Goto(c, "done")
    /\ UNCHANGED <<hasKey, request, attempt, cache, posts, outcome, blind>>

\* Leaves the loop, or never enters it: the template is used.
UseFallback(c) ==
    /\ instruction' = [instruction EXCEPT ![c] = Fallback(c)]
    /\ Goto(c, "store")

\* Mutant: range(max_retries + 1).
LoopOnceMore(c, n) ==
    /\ attempt' = [attempt EXCEPT ![c] = n]
    /\ IF n <= MaxRetries THEN Goto(c, "post") /\ UNCHANGED instruction
                          ELSE UseFallback(c)

\* The head of "for attempt in range(max_retries)" at attempt n.
Loop(c, n) ==
    /\ attempt' = [attempt EXCEPT ![c] = n]
    /\ IF n < MaxRetries THEN Goto(c, "post") /\ UNCHANGED instruction
                         ELSE UseFallback(c)

\* _call_genai is entered; without an API key it uses the template at once.
EnterApi(c) ==
    /\ IF hasKey THEN Loop(c, 0) ELSE UseFallback(c) /\ UNCHANGED attempt
    /\ UNCHANGED <<hasKey, request, cache, posts, outcome>>

\* Mutant: the API is called although the cache has an entry.
MissAlways(c) == At(c, "lookup") /\ EnterApi(c) /\ UNCHANGED blind

Miss(c) ==
    /\ At(c, "lookup") /\ cache[KeyOf(c)] = Nothing
    /\ EnterApi(c)
    /\ UNCHANGED blind

\* Mutant: the error of the cache ends the call.
LookupRaises(c) ==
    /\ At(c, "lookup")
    /\ Goto(c, "idle")
    /\ UNCHANGED <<hasKey, request, attempt, instruction, cache, posts, outcome, blind>>

\* RedisCacheService.get turns every error into a miss.
LookupFails(c) ==
    /\ At(c, "lookup")
    /\ EnterApi(c)
    /\ blind' = [blind EXCEPT ![c] = TRUE]

-----------------------------------------------------------------------------
(* One request to the API, by its outcome.                                  *)

Posted(c, what) ==
    /\ At(c, "post")
    /\ posts' = [posts EXCEPT ![c] = @ + 1]
    /\ outcome' = [outcome EXCEPT ![c] = what]
    /\ UNCHANGED <<hasKey, request, cache, blind>>

\* A candidate with text.
Answer(c) ==
    /\ Posted(c, "text")
    /\ instruction' = [instruction EXCEPT ![c] = [by |-> "genai", request |-> request[c]]]
    /\ Goto(c, "store")
    /\ UNCHANGED attempt

\* 429: sleep 2 ** attempt seconds, also after the last attempt.
RateLimited(c) ==
    /\ Posted(c, "429")
    /\ Goto(c, "backoff")
    /\ UNCHANGED <<attempt, instruction>>

\* TimeoutException, ConnectError, or an answer whose text is empty: the next
\* attempt follows at once.
Failed(c) ==
    /\ Posted(c, "failed")
    /\ Loop(c, attempt[c] + 1)

\* Any other exception breaks the loop: raise_for_status raises on a 503 as on
\* every other error status, and a body without candidates cannot be read.
GiveUp(c) ==
    /\ \E what \in {"503", "error"} : Posted(c, what)
    /\ UseFallback(c)
    /\ UNCHANGED attempt

\* Mutant: the template is used after one back-off.
WakeToStop(c) ==
    /\ At(c, "backoff")
    /\ UseFallback(c)
    /\ UNCHANGED <<hasKey, request, attempt, cache, posts, outcome, blind>>

\* The back-off is over.
Wake(c) ==
    /\ At(c, "backoff")
    /\ Loop(c, attempt[c] + 1)
    /\ UNCHANGED <<hasKey, request, cache, posts, outcome, blind>>

-----------------------------------------------------------------------------

\* The result is cached, the fallback too, and returned.
Store(c) ==
    /\ At(c, "store")
    /\ cache' = [cache EXCEPT ![KeyOf(c)] = instruction[c]]
    /\ blind' = [d \in Calls |->
           blind[d] \/ (d # c /\ pc[d] \in {"post", "backoff", "store"} /\ KeyOf(d) = KeyOf(c))]
    /\ Goto(c, "done")
    /\ UNCHANGED <<hasKey, request, attempt, instruction, posts, outcome>>

\* RedisCacheService.set swallows every error.
StoreFails(c) ==
    /\ At(c, "store")
    /\ Goto(c, "done")
    /\ UNCHANGED <<hasKey, request, attempt, instruction, cache, posts, outcome, blind>>

\* An entry leaves the cache.
Expire(k) ==
    /\ cache[k] # Nothing
    /\ cache' = [cache EXCEPT ![k] = Nothing]
    /\ UNCHANGED <<hasKey, pc, request, attempt, instruction, posts, outcome, blind>>

Lookup(c) == Hit(c) \/ Miss(c) \/ LookupFails(c)
Outcome(c) == Answer(c) \/ RateLimited(c) \/ Failed(c) \/ GiveUp(c)
Finish(c) == Store(c) \/ StoreFails(c)

Next ==
    \/ \E c \in Calls :
        \/ \E r \in Requests : Begin(c, r)
        \/ Lookup(c) \/ Outcome(c) \/ Wake(c) \/ Finish(c)
    \/ \E k \in Keys : Expire(k)

Spec == Init /\ [][Next]_translationVars

\* The event loop resumes every coroutine whose await is over.  The client's
\* timeout ends every request, so an attempt has one of its outcomes.
Fairness ==
    \A c \in Calls : WF_translationVars(Lookup(c) \/ Outcome(c) \/ Wake(c) \/ Finish(c))

FairSpec == Spec /\ Fairness

-----------------------------------------------------------------------------

(* cache.py:57-66, genai_translation.py:150-173.  A fan is never given the  *)
(* instruction of another request, although all calls share the cache and   *)
(* write it in any order: what a call returns, and what the cache holds     *)
(* under a key, was made for that language, density and text.               *)
AnswerFitsRequest ==
    /\ \A c \in Calls : At(c, "done") =>
           instruction[c] # Nothing /\ instruction[c].request = request[c]
    /\ \A k \in Keys : cache[k] # Nothing => Key(cache[k].request) = k

(* genai_translation.py:207-269.  A call makes at most max_retries requests *)
(* to the API, and builds the template only for a reason: there is no key,  *)
(* every attempt was used, or the API gave an answer that ends the loop.    *)
(* Timeouts and 429 answers are no such reason.  Nothing is claimed of a    *)
(* call that a 503 ended: the docstring at :204 promises it a back-off.     *)
GivesUpForAReason ==
    \A c \in Calls :
        /\ posts[c] <= MaxRetries
        /\ At(c, "store") /\ instruction[c].by = "fallback" /\ outcome[c] # "503" =>
               ~ hasKey \/ posts[c] = MaxRetries \/ outcome[c] = "error"

(* genai_translation.py:157-171.  A translation in the cache is replaced by *)
(* a template only in a race or under a cache failure: the call that writes *)
(* the template found the key empty before another call filled it, or could *)
(* not read the cache.                                                      *)
OnlyRacesDegrade ==
    [][\A k \in Keys :
        (/\ cache[k] # Nothing /\ cache[k].by = "genai"
         /\ cache'[k] # Nothing /\ cache'[k].by = "fallback")
        => \E c \in Calls : At(c, "store") /\ KeyOf(c) = k /\ blind[c]]_translationVars

(* genai_translation.py:13-15 "Fans always receive navigation guidance even *)
(* if AI-quality translation is unavailable": every call returns, whatever  *)
(* the API and the cache do.                                                *)
EveryCallIsAnswered == \A c \in Calls : At(c, "lookup") ~> At(c, "done")
=============================================================================
