------------------------------- MODULE FanApp -------------------------------
(***************************************************************************)
(* The fan's page: App.tsx with the hooks useCrowdData and useNavigation   *)
(* and the form of NavigationPanel.tsx.                                    *)
(*                                                                         *)
(* JavaScript runs one callback at a time: a user's event with the effects *)
(* React 18 flushes after it, a timer's callback, or the settling of one   *)
(* request.  Every request of apiClient settles, by an answer, an error or *)
(* the 15 s timeout, but requests settle in any order.  A poll is due      *)
(* every 30 s, so the previous poll of the same timer has settled by then. *)
(***************************************************************************)
EXTENDS Naturals, FiniteSets

CONSTANTS
    Stadiums,
    None,             \* null
    MaxSelections,    \* bound on the changes of the stadium
    MaxSubmits        \* bound on the route requests

ASSUME FanAppAssumption ==
    /\ None \notin Stadiums
    /\ MaxSelections \in Nat
    /\ MaxSubmits \in Nat

VARIABLES
    \* App
    selected,         \* selectedStadiumId
    selections,       \* number of changes so far: names the effects' closures
    stadium,          \* selectedStadium, the details that have been loaded
    loadError,        \* loadError is not ""
    detailRequests,   \* fetchStadium calls in flight
    alone,            \* history: the details of the selection were asked for while
                      \* no other request for details was in flight, and came
    \* useCrowdData
    timers,           \* the intervals that are set
    polls,            \* fetchCrowdSnapshot calls in flight
    snapshot,         \* the stadium whose snapshot is shown
    crowdLoading,     \* isLoading of the hook
    crowdError,       \* error of the hook is not null
    \* NavigationPanel and useNavigation
    formFilled,       \* two different zones are chosen
    formError,        \* formError is not ""
    submits,          \* number of requests so far
    routeRequests,    \* navigate calls in flight
    route,            \* the request the shown route answers
    routeLoading,     \* isLoading of the hook
    routeError,       \* error of the hook is not null
    lastRequest       \* history: the request sent last

appVars == <<selected, selections, stadium, loadError, detailRequests, alone>>
crowdVars == <<timers, polls, snapshot, crowdLoading, crowdError>>
panelVars == <<formFilled, formError, submits, routeRequests, route, routeLoading,
               routeError, lastRequest>>
fanAppVars == <<selected, selections, stadium, loadError, detailRequests, alone,
                timers, polls, snapshot, crowdLoading, crowdError,
                formFilled, formError, submits, routeRequests, route, routeLoading,
                routeError, lastRequest>>

\* A closure of an effect: the selection it was made for.
Closure == [made : 0 .. MaxSelections, of : Stadiums]
RouteRequest == [number : 1 .. MaxSubmits, stadium : Stadiums]

TypeOK ==
    /\ selected \in Stadiums \cup {None}
    /\ selections \in 0 .. MaxSelections
    /\ stadium \in Stadiums \cup {None}
    /\ detailRequests \subseteq Closure
    /\ timers \subseteq [made : 0 .. MaxSelections, of : Stadiums \cup {None}]
    /\ polls \subseteq Closure
    /\ snapshot \in Stadiums \cup {None}
    /\ submits \in 0 .. MaxSubmits
    /\ routeRequests \subseteq RouteRequest
    /\ {route, lastRequest} \subseteq RouteRequest \cup {None}
    /\ {loadError, alone, crowdLoading, crowdError, formFilled, formError, routeLoading,
           routeError} \subseteq BOOLEAN

-----------------------------------------------------------------------------
(* useCrowdData.                                                            *)

\* Mutant: a poll is sent although no stadium is selected.
FetchNothing(closure) ==
    /\ polls' = polls \cup {closure}
    /\ crowdLoading' = TRUE
    /\ crowdError' = FALSE

\* The start of fetchData, up to its await.
Fetch(closure) ==
    IF closure.of = None
    THEN UNCHANGED <<polls, crowdLoading, crowdError>>
    ELSE /\ polls' = polls \cup {closure}
         /\ crowdLoading' = TRUE
         /\ crowdError' = FALSE

\* Mutant: the interval of the effect before is left running.
SubscribeWithoutCleanup(n, s) ==
    /\ timers' = timers \cup {[made |-> n, of |-> s]}
    /\ Fetch([made |-> n, of |-> s])

\* The effect for the n-th selection, after the clean-up of the one before,
\* which clears the interval that intervalRef holds: the newest.
Subscribe(n, s) ==
    /\ timers' = {t \in timers : t.made # n - 1} \cup {[made |-> n, of |-> s]}
    /\ Fetch([made |-> n, of |-> s])

\* An interval fires.
Poll(s) ==
    /\ \E t \in timers :
          /\ t.of = s
          /\ t \notin polls
          /\ Fetch(t)
    /\ UNCHANGED <<timers, snapshot, appVars, panelVars>>

PollSettles(p) ==
    /\ p \in polls
    /\ polls' = polls \ {p}
    /\ crowdLoading' = FALSE
    /\ UNCHANGED <<timers, appVars, panelVars>>

PollAnswered(s) ==
    /\ \E p \in polls : p.of = s /\ PollSettles(p)
    /\ snapshot' = s
    /\ UNCHANGED crowdError

PollFailed(s) ==
    /\ \E p \in polls : p.of = s /\ PollSettles(p)
    /\ crowdError' = TRUE
    /\ UNCHANGED snapshot

-----------------------------------------------------------------------------
(* NavigationPanel and useNavigation.                                       *)

\* A panel that is mounted has the hooks' initial state.  React ignores the
\* state a request sets after its panel was unmounted.
FreshPanel ==
    /\ formFilled' = FALSE
    /\ formError' = FALSE
    /\ routeRequests' = {}
    /\ route' = None
    /\ routeLoading' = FALSE
    /\ routeError' = FALSE
    /\ lastRequest' = None
    /\ UNCHANGED submits

FillForm ==
    /\ stadium # None
    /\ formFilled' = ~formFilled
    /\ UNCHANGED <<formError, submits, routeRequests, route, routeLoading, routeError,
                   lastRequest, appVars, crowdVars>>

\* handleSubmit with a zone missing, or the same zone twice.
RefuseForm ==
    /\ stadium # None
    /\ ~routeLoading
    /\ ~formFilled
    /\ formError' = TRUE
    /\ UNCHANGED <<formFilled, submits, routeRequests, route, routeLoading, routeError,
                   lastRequest, appVars, crowdVars>>

\* handleSubmit with a complete form, and requestRoute up to its await.
Request ==
    /\ stadium # None
    /\ formFilled
    /\ submits < MaxSubmits
    /\ formError' = FALSE
    /\ submits' = submits + 1
    /\ lastRequest' = [number |-> submits + 1, stadium |-> stadium]
    /\ routeRequests' = routeRequests \cup {lastRequest'}
    /\ route' = None
    /\ routeLoading' = TRUE
    /\ routeError' = FALSE
    /\ UNCHANGED <<formFilled, appVars, crowdVars>>

\* Mutant: the button is not disabled.
SubmitAnytime == Request

\* The button is disabled while a route is loading.
Submit == ~routeLoading /\ Request

RouteSettles(r) ==
    /\ r \in routeRequests
    /\ routeRequests' = routeRequests \ {r}
    /\ routeLoading' = FALSE
    /\ UNCHANGED <<formFilled, formError, submits, lastRequest, appVars, crowdVars>>

RouteAnswered ==
    \E r \in routeRequests :
        /\ RouteSettles(r)
        /\ route' = r
        /\ UNCHANGED routeError

\* Mutant: isLoading is reset after an answer only.
RouteFailedLoading ==
    \E r \in routeRequests :
        /\ routeRequests' = routeRequests \ {r}
        /\ routeError' = TRUE
        /\ UNCHANGED <<route, routeLoading, formFilled, formError, submits, lastRequest,
                       appVars, crowdVars>>

RouteFailed ==
    \E r \in routeRequests :
        /\ RouteSettles(r)
        /\ routeError' = TRUE
        /\ UNCHANGED route

\* clearRoute: the banner that calls it is shown only with an error.
ClearRoute ==
    /\ routeError
    /\ route' = None
    /\ routeError' = FALSE
    /\ UNCHANGED <<formFilled, formError, submits, routeRequests, routeLoading,
                   lastRequest, appVars, crowdVars>>

-----------------------------------------------------------------------------
(* App.                                                                     *)

\* The panel is mounted while there are details to show, and is not keyed by
\* the stadium.
ShowDetails(s) ==
    /\ stadium' = s
    /\ IF None \in {s, stadium} THEN FreshPanel ELSE UNCHANGED panelVars

\* The user picks another entry of the list; the effects of App and of
\* useCrowdData follow.
Select(s) ==
    /\ s # selected
    /\ selections < MaxSelections
    /\ selections' = selections + 1
    /\ selected' = s
    /\ IF s = None
       THEN ShowDetails(None) /\ UNCHANGED detailRequests
       ELSE /\ detailRequests' = detailRequests \cup {[made |-> selections + 1, of |-> s]}
            /\ UNCHANGED <<stadium, panelVars>>
    /\ alone' = (detailRequests = {})
    /\ Subscribe(selections + 1, s)
    /\ UNCHANGED <<loadError, snapshot>>

DetailsAnswered ==
    \E d \in detailRequests :
        /\ detailRequests' = detailRequests \ {d}
        /\ ShowDetails(d.of)
        /\ UNCHANGED <<selected, selections, loadError, alone, crowdVars>>

DetailsFailed ==
    \E d \in detailRequests :
        /\ detailRequests' = detailRequests \ {d}
        /\ loadError' = TRUE
        /\ alone' = FALSE
        /\ UNCHANGED <<selected, selections, stadium, crowdVars, panelVars>>

Init ==
    /\ selected = None
    /\ selections = 0
    /\ stadium = None
    /\ loadError = FALSE
    /\ detailRequests = {}
    /\ alone = TRUE
    /\ timers = {[made |-> 0, of |-> None]}
    /\ polls = {}
    /\ snapshot = None
    /\ crowdLoading = FALSE
    /\ crowdError = FALSE
    /\ formFilled = FALSE
    /\ formError = FALSE
    /\ submits = 0
    /\ routeRequests = {}
    /\ route = None
    /\ routeLoading = FALSE
    /\ routeError = FALSE
    /\ lastRequest = None

Next ==
    \/ \E s \in Stadiums \cup {None} : Select(s)
    \/ \E s \in Stadiums : Poll(s) \/ PollAnswered(s) \/ PollFailed(s)
    \/ DetailsAnswered
    \/ DetailsFailed
    \/ FillForm
    \/ RefuseForm
    \/ Submit
    \/ RouteAnswered
    \/ RouteFailed
    \/ ClearRoute

Spec == Init /\ [][Next]_fanAppVars

\* Intervals fire, requests settle, and the network lets some polls through.
Fairness ==
    /\ \A s \in Stadiums :
          /\ WF_fanAppVars(Poll(s))
          /\ WF_fanAppVars(PollAnswered(s) \/ PollFailed(s))
          /\ SF_fanAppVars(PollAnswered(s))
    /\ WF_fanAppVars(DetailsAnswered \/ DetailsFailed)

FairSpec == Spec /\ Fairness

-----------------------------------------------------------------------------

\* The route on screen answers the request sent last, and is shown neither
\* beside an error nor while another is computed: whatever happened to the
\* earlier requests, to the panel and to the selection meanwhile.
RouteAnswersLastRequest ==
    route # None => route = lastRequest /\ ~routeLoading /\ ~routeError

\* A busy indicator is never left behind, however a request ended: while one
\* shows, an answer is awaited.  The route button would stay disabled for ever.
BusyOnlyWhileWaiting ==
    /\ crowdLoading => polls # {}
    /\ routeLoading => routeRequests # {}

\* useCrowdData.ts:34-74, App.tsx:44-53.  A stadium that stays selected is in
\* the end the only one that is polled and the one whose crowd is shown: answers
\* for stadiums selected before it run out, and do not replace it for ever.  Its
\* details are in the end those on the page too, provided no request for other
\* details was in flight when it was selected and its own did not fail: nothing
\* keeps a late answer from replacing them, and nothing asks for them again.
SelectionPrevails ==
    /\ \A s \in Stadiums :
          <>[](selected = s) => <>[](snapshot = s /\ \A p \in polls : p.of = s)
    /\ \A s \in Stadiums \cup {None} :
          <>[](selected = s /\ alone) => <>[](stadium = s)
=============================================================================
