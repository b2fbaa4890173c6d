---------------------------- MODULE GuidedRoute ----------------------------
(***************************************************************************)
(* The domain stack at work on one stadium: api/v1/crowd.py ingests crowd  *)
(* reports, api/v1/navigation.py answers route requests with guidance that *)
(* domain/services/genai_navigator.py takes from the cache or, through     *)
(* infrastructure/genai_client.py, from Gemini.                            *)
(*                                                                         *)
(* Coroutines interleave at their awaits of Redis and of Gemini.  A Redis  *)
(* call may fail, which CacheClient swallows, and an entry may expire at   *)
(* any time.  Gemini is called in a thread of the executor's pool; a call  *)
(* that times out leaves its thread running, or gives up its place in the  *)
(* pool's queue.  A thread may never return.                               *)
(***************************************************************************)
EXTENDS CrowdAnalytics, SequencesExt

CONSTANTS
    Ingests,        \* the calls of ingest_crowd_data
    Calls,          \* the calls of get_navigation_route
    Reports,        \* the payloads of ingests: zone_counts and match_event
    Requests,       \* the requests a fan may send
    MaxThreads,     \* size of the executor's pool
    None

\* The zones reports speak of, in the graph or not.
ReportedZones == UNION {DOMAIN r.counts : r \in Reports}

Snapshots == {SnapshotOf(r.counts, r.event) : r \in Reports}

VARIABLES
    snapshot,       \* the cached snapshot of the stadium
    begun,          \* the ingests that have begun
    pending,        \* the snapshot an ingest is about to cache
    guidance,       \* the cached guidance
    genaiEnabled,   \* settings.enable_genai
    queue,          \* calls of Gemini that wait for a thread
    threads,        \* calls of Gemini that hold a thread
    stage,          \* of a request: what it awaits, or its HTTP status
    request,
    crowded,        \* crowded_zones
    route,          \* path
    text,           \* guidance_text
    isGenai         \* is_genai_response

feedVars == <<snapshot, begun, pending>>
poolVars == <<queue, threads>>
callVars == <<stage, request, crowded, route, text, isGenai>>
guidedVars == <<snapshot, begun, pending, guidance, genaiEnabled, queue, threads,
                stage, request, crowded, route, text, isGenai>>

Request == [origin : Int, destination : Int, accessible : BOOLEAN,
            avoid : SUBSET Int, language : STRING]
\* What a text was written from; a template tells the time of the route only.
Text == [by : {"gemini", "template"}, language : STRING, route : Graph!Routes,
         crowded : SUBSET ReportedZones]
Answered == {"200", "422", "503"}

ASSUME GuidedRouteAssumption ==
    /\ None \notin Snapshots
    /\ Requests \subseteq Request
    /\ MaxThreads \in Nat \ {0}

TypeOK ==
    /\ snapshot \in Snapshots \cup {None}
    /\ begun \subseteq Ingests
    /\ pending \in [Ingests -> Snapshots \cup {None}]
    /\ \A k \in DOMAIN guidance :
          /\ guidance[k].text \in Text
          /\ guidance[k].isGenai \in BOOLEAN
    /\ genaiEnabled \in BOOLEAN
    /\ threads \subseteq Calls /\ Cardinality(threads) <= MaxThreads
    /\ ToSet(queue) \subseteq {c \in Calls : stage[c] = "asking"} \ threads
    /\ stage \in [Calls -> {"loading", "looking", "asking", "storing"} \cup Answered]
    /\ request \in [Calls -> Requests]
    /\ crowded \in [Calls -> SUBSET ReportedZones]
    /\ route \in [Calls -> Graph!Routes \cup {<<>>}]
    /\ text \in [Calls -> Text \cup {None}]
    /\ isGenai \in [Calls -> BOOLEAN]

Init ==
    /\ snapshot = None
    /\ begun = {}
    /\ pending = [i \in Ingests |-> None]
    /\ guidance = [k \in {} |-> None]
    /\ genaiEnabled \in BOOLEAN
    /\ queue = <<>>
    /\ threads = {}
    /\ stage = [c \in Calls |-> "loading"]
    /\ request \in [Calls -> Requests]
    /\ crowded = [c \in Calls |-> {}]
    /\ route = [c \in Calls |-> <<>>]
    /\ text = [c \in Calls |-> None]
    /\ isGenai = [c \in Calls |-> FALSE]

-----------------------------------------------------------------------------
(* ingest_crowd_data.                                                       *)

\* Up to the await of cache.set.
Compute(i) ==
    /\ i \notin begun
    /\ begun' = begun \cup {i}
    /\ \E s \in Snapshots : pending' = [pending EXCEPT ![i] = s]
    /\ UNCHANGED <<snapshot, guidance, genaiEnabled, poolVars, callVars>>

\* The snapshot is cached, unless Redis fails; the broadcast is not modelled.
CacheSnapshot(i) ==
    /\ pending[i] # None
    /\ pending' = [pending EXCEPT ![i] = None]
    /\ snapshot' \in {snapshot, pending[i]}
    /\ UNCHANGED <<begun, guidance, genaiEnabled, poolVars, callVars>>

-----------------------------------------------------------------------------
(* get_navigation_route and generate_navigation_guidance.                   *)

CONGESTION_MULTIPLIERS == [l \in Levels |-> <<10, 15, 30, 100>>[l + 1]]    \* in tenths

\* A stadium without a snapshot is routed as if it were empty.
LevelsIn(s) == IF s = None THEN [z \in {} |-> LOW] ELSE s.levels
CrowdedIn(s) == IF s = None THEN {} ELSE CriticalZones(s)
Multiplier(s) ==
    [z \in Zones |->
        IF z \in DOMAIN LevelsIn(s) THEN CONGESTION_MULTIPLIERS[LevelsIn(s)[z]] ELSE 10]

\* find_route: a cheapest route that enters neither a zone the fan avoids nor a
\* critical one.
RoutesThrough ==
    [s \in Snapshots \cup {None} |-> [q \in Requests |->
        Graph!CheapestOf(
            Graph!RoutesFor(q.origin, q.destination, q.avoid \cup CrowdedIn(s), q.accessible),
            Multiplier(s))]]

Known(q) == {q.origin, q.destination} \subseteq Zones

\* From the answer of cache.get, which is None when Redis fails, to the next await.
Plan(c) ==
    /\ stage[c] = "loading"
    /\ \E s \in {snapshot, None} :
          LET found == RoutesThrough[s][request[c]] IN
          /\ crowded' = [crowded EXCEPT ![c] = CrowdedIn(s)]
          /\ \/ /\ ~Known(request[c])
                /\ stage' = [stage EXCEPT ![c] = "422"]
                /\ UNCHANGED route
             \/ /\ Known(request[c]) /\ found = {}
                /\ stage' = [stage EXCEPT ![c] = "503"]
                /\ UNCHANGED route
             \/ \E r \in found :
                /\ Known(request[c])
                /\ stage' = [stage EXCEPT ![c] = "looking"]
                /\ route' = [route EXCEPT ![c] = r]
    /\ UNCHANGED <<feedVars, guidance, genaiEnabled, poolVars, request, text, isGenai>>

\* Mutant: the key leaves out the crowded zones.
KeyOfRequest(c) == <<request[c].origin, request[c].destination, request[c].language>>

\* _build_cache_key.
Key(c) == <<request[c].origin, request[c].destination, request[c].language, crowded[c]>>

TextFor(c, writer) ==
    [by |-> writer, language |-> request[c].language, route |-> route[c],
     crowded |-> crowded[c]]

Fallback(c) ==
    /\ stage' = [stage EXCEPT ![c] = "storing"]
    /\ text' = [text EXCEPT ![c] = TextFor(c, "template")]
    /\ UNCHANGED isGenai

\* The lookup finds the key.
Hit(c) ==
    /\ stage[c] = "looking"
    /\ Key(c) \in DOMAIN guidance
    /\ stage' = [stage EXCEPT ![c] = "200"]
    /\ text' = [text EXCEPT ![c] = guidance[Key(c)].text]
    /\ isGenai' = [isGenai EXCEPT ![c] = guidance[Key(c)].isGenai]
    /\ UNCHANGED <<feedVars, guidance, genaiEnabled, poolVars, request, crowded, route>>

\* It does not, or Redis fails: Gemini is asked, or the template is filled in.
Miss(c) ==
    /\ stage[c] = "looking"
    /\ IF genaiEnabled
       THEN /\ stage' = [stage EXCEPT ![c] = "asking"]
            /\ queue' = Append(queue, c)
            /\ UNCHANGED <<text, isGenai>>
       ELSE Fallback(c) /\ UNCHANGED queue
    /\ UNCHANGED <<feedVars, guidance, genaiEnabled, threads, request, crowded, route>>

\* A thread becomes free and takes the next call.
StartThread ==
    /\ queue # <<>>
    /\ Cardinality(threads) < MaxThreads
    /\ threads' = threads \cup {Head(queue)}
    /\ queue' = Tail(queue)
    /\ UNCHANGED <<feedVars, guidance, genaiEnabled, callVars>>

\* Gemini answers with a text that passes the validation.
GeminiAnswers(c) ==
    /\ c \in threads /\ stage[c] = "asking"
    /\ threads' = threads \ {c}
    /\ stage' = [stage EXCEPT ![c] = "storing"]
    /\ text' = [text EXCEPT ![c] = TextFor(c, "gemini")]
    /\ isGenai' = [isGenai EXCEPT ![c] = TRUE]
    /\ UNCHANGED <<feedVars, guidance, genaiEnabled, queue, request, crowded, route>>

\* Mutant: the flag is set before the text is validated.
GeminiFailsFlagged(c) ==
    /\ c \in threads /\ stage[c] = "asking"
    /\ threads' = threads \ {c}
    /\ stage' = [stage EXCEPT ![c] = "storing"]
    /\ text' = [text EXCEPT ![c] = TextFor(c, "template")]
    /\ isGenai' = [isGenai EXCEPT ![c] = TRUE]
    /\ UNCHANGED <<feedVars, guidance, genaiEnabled, queue, request, crowded, route>>

\* Gemini raises, or answers with nothing or with a text that is too short.
GeminiFails(c) ==
    /\ c \in threads /\ stage[c] = "asking"
    /\ threads' = threads \ {c}
    /\ Fallback(c)
    /\ UNCHANGED <<feedVars, guidance, genaiEnabled, queue, request, crowded, route>>

\* Gemini returns to a call that has timed out.
GeminiTooLate(c) ==
    /\ c \in threads /\ stage[c] # "asking"
    /\ threads' = threads \ {c}
    /\ UNCHANGED <<feedVars, guidance, genaiEnabled, queue, callVars>>

\* Mutant: the call keeps its place in the queue.
TimeOutQueued(c) ==
    /\ stage[c] = "asking"
    /\ Fallback(c)
    /\ UNCHANGED <<feedVars, guidance, genaiEnabled, poolVars, request, crowded, route>>

\* Mutant: the timeout starts with the thread.
TimeOutInThread(c) ==
    /\ stage[c] = "asking" /\ c \in threads
    /\ Fallback(c)
    /\ UNCHANGED <<feedVars, guidance, genaiEnabled, poolVars, request, crowded, route>>

\* wait_for gives up after 10 s.  A call without a thread gives up its place.
TimeOut(c) ==
    /\ stage[c] = "asking"
    /\ \/ c \notin ToSet(queue) /\ UNCHANGED queue
       \/ \E i \in DOMAIN queue : queue[i] = c /\ queue' = RemoveAt(queue, i)
    /\ Fallback(c)
    /\ UNCHANGED <<feedVars, guidance, genaiEnabled, threads, request, crowded, route>>

\* The text is cached, unless Redis fails, and returned.
Store(c) ==
    /\ stage[c] = "storing"
    /\ stage' = [stage EXCEPT ![c] = "200"]
    /\ \/ guidance' = [k \in DOMAIN guidance \cup {Key(c)} |->
                          IF k = Key(c) THEN [text |-> text[c], isGenai |-> isGenai[c]]
                          ELSE guidance[k]]
       \/ UNCHANGED guidance
    /\ UNCHANGED <<feedVars, genaiEnabled, poolVars, request, crowded, route, text, isGenai>>

-----------------------------------------------------------------------------

\* The time to live of a cached entry ends.
Expire ==
    /\ \/ /\ snapshot' = None
          /\ UNCHANGED guidance
       \/ /\ \E k \in DOMAIN guidance :
                guidance' = [l \in DOMAIN guidance \ {k} |-> guidance[l]]
          /\ UNCHANGED snapshot
    /\ UNCHANGED <<begun, pending, genaiEnabled, poolVars, callVars>>

Next ==
    \/ \E i \in Ingests : Compute(i) \/ CacheSnapshot(i)
    \/ \E c \in Calls :
          \/ Plan(c) \/ Hit(c) \/ Miss(c) \/ Store(c) \/ TimeOut(c)
          \/ GeminiAnswers(c) \/ GeminiFails(c) \/ GeminiTooLate(c)
    \/ StartThread
    \/ Expire

Spec == Init /\ [][Next]_guidedVars

\* The event loop serves every request, Redis answers or fails, and timers
\* fire.  Nothing is assumed of Gemini and its threads.
Fairness ==
    \A c \in Calls :
        /\ WF_guidedVars(Plan(c))
        /\ WF_guidedVars(Hit(c) \/ Miss(c))
        /\ WF_guidedVars(TimeOut(c))
        /\ WF_guidedVars(Store(c))

FairSpec == Spec /\ Fairness

-----------------------------------------------------------------------------

\* Whatever the other requests cached and however the crowd changed meanwhile,
\* a fan gets a text in the language and between the zones of the request that
\* speaks of the very zones the route was planned around; and the route leads
\* into none of them.
ExplainsItsCrowd ==
    \A c \in Calls :
        stage[c] = "200" =>
            /\ text[c].language = request[c].language
            /\ Head(text[c].route) = request[c].origin
            /\ Last(text[c].route) = request[c].destination
            /\ text[c].crowded = crowded[c]
            /\ \A n \in 2 .. Len(route[c]) : route[c][n] \notin crowded[c]

\* The fan is told that a text is from Gemini if and only if it is, also when it
\* was cached by another request.
FlagIsHonest ==
    \A c \in Calls : stage[c] = "200" => (isGenai[c] <=> text[c].by = "gemini")

\* No zone of the cached snapshot is predicted to be emptier than it is
\* reported, and every zone that is crowded now is among the bottlenecks.
NoZoneIsPlayedDown ==
    snapshot # None =>
        \A z \in DOMAIN snapshot.levels :
            /\ snapshot.levels[z] >= HIGH => z \in DOMAIN Bottlenecks(snapshot)
            /\ z \in DOMAIN Bottlenecks(snapshot) =>
                  Bottlenecks(snapshot)[z] >= snapshot.levels[z]
            /\ OverallCongestion(snapshot) >= snapshot.levels[z]

\* Every request is answered, even if Gemini never returns a thread.
EveryFanAnswered == \A c \in Calls : <>(stage[c] \in Answered)

\* genai_navigator.py:304 says that stadium, origin and destination "Uniquely
\* identifies the route request": the directions Gemini wrote are of the route
\* the answer carries.
GuidanceFitsRoute ==
    \A c \in Calls :
        stage[c] = "200" /\ text[c].by = "gemini" => text[c].route = route[c]
=============================================================================
