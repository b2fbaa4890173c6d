---------------------------- MODULE FanAppProofs ----------------------------
(* Theorems about the fan's page, for every set of stadiums and every number *)
(* of selections and route requests.                                         *)
EXTENDS FanApp, TLAPS

\* The request in flight is the one sent last, and while it is in flight
\* nothing of an earlier one is on screen.
OneRequest ==
    /\ routeLoading <=> routeRequests # {}
    /\ routeRequests # {} => routeRequests = {lastRequest}
    /\ routeLoading => route = None /\ ~routeError

PageInv == TypeOK /\ OneRequest /\ RouteAnswersLastRequest /\ BusyOnlyWhileWaiting

-----------------------------------------------------------------------------
(* What the parts of the actions preserve.                                  *)

\* fetchData keeps the state of useCrowdData well typed and its busy indicator
\* truthful.
LEMMA FetchKeeps ==
    ASSUME TypeOK, NEW c \in [made : 0 .. MaxSelections, of : Stadiums \cup {None}],
           Fetch(c), crowdLoading => polls # {}
    PROVE  /\ polls' \subseteq Closure
           /\ {crowdLoading, crowdError}' \subseteq BOOLEAN
           /\ crowdLoading' => polls' # {}
<1>1. CASE c.of = None
  BY <1>1 DEF Fetch, TypeOK
<1>2. CASE c.of # None
  <2>1. c \in Closure
    BY <1>2 DEF Closure
  <2> QED
    BY <1>2, <2>1 DEF Fetch, TypeOK
<1> QED
  BY <1>1, <1>2

\* What holds of the panel survives every step of the rest of the page.
LEMMA PanelUntouched ==
    ASSUME PageInv, UNCHANGED panelVars
    PROVE  OneRequest' /\ RouteAnswersLastRequest' /\ (routeLoading' => routeRequests' # {})
BY DEF PageInv, OneRequest, RouteAnswersLastRequest, BusyOnlyWhileWaiting, panelVars

\* New details keep the panel's invariants: the panel goes on or starts afresh.
LEMMA ShowDetailsKeeps ==
    ASSUME PageInv, NEW s \in Stadiums \cup {None}, ShowDetails(s)
    PROVE  /\ stadium' \in Stadiums \cup {None}
           /\ submits' \in 0 .. MaxSubmits
           /\ routeRequests' \subseteq RouteRequest
           /\ {route', lastRequest'} \subseteq RouteRequest \cup {None}
           /\ {formFilled', formError', routeLoading', routeError'} \subseteq BOOLEAN
           /\ OneRequest' /\ RouteAnswersLastRequest'
           /\ routeLoading' => routeRequests' # {}
<1>1. CASE None \in {s, stadium}
  BY <1>1 DEF ShowDetails, FreshPanel, PageInv, TypeOK, OneRequest, RouteAnswersLastRequest
<1>2. CASE None \notin {s, stadium}
  <2>1. UNCHANGED panelVars
    BY <1>2 DEF ShowDetails
  <2> QED
    BY <2>1, PanelUntouched DEF ShowDetails, PageInv, TypeOK, panelVars
<1> QED
  BY <1>1, <1>2

-----------------------------------------------------------------------------

\* The first page has nothing in flight.
LEMMA PageInit == Init => PageInv
<1> SUFFICES ASSUME Init PROVE PageInv
  OBVIOUS
<1>1. selections \in 0 .. MaxSelections /\ submits \in 0 .. MaxSubmits
  BY FanAppAssumption DEF Init
<1>2. timers \subseteq [made : 0 .. MaxSelections, of : Stadiums \cup {None}]
  BY FanAppAssumption DEF Init
<1>3. TypeOK
  BY <1>1, <1>2 DEF Init, TypeOK
<1>4. OneRequest /\ RouteAnswersLastRequest /\ BusyOnlyWhileWaiting
  BY DEF Init, OneRequest, RouteAnswersLastRequest, BusyOnlyWhileWaiting
<1> QED
  BY <1>3, <1>4 DEF PageInv

\* Every event of the page preserves the inductive invariant.
LEMMA PageStep == PageInv /\ [Next]_fanAppVars => PageInv'
<1> SUFFICES ASSUME PageInv, [Next]_fanAppVars
             PROVE  PageInv'
  OBVIOUS
<1> USE FanAppAssumption
<1>1. ASSUME NEW s \in Stadiums \cup {None}, Select(s)
      PROVE  PageInv'
  <2> DEFINE c == [made |-> selections + 1, of |-> s]
  <2>1. c \in [made : 0 .. MaxSelections, of : Stadiums \cup {None}]
    BY <1>1 DEF Select, PageInv, TypeOK
  <2>2. /\ polls' \subseteq Closure
        /\ {crowdLoading, crowdError}' \subseteq BOOLEAN
        /\ crowdLoading' => polls' # {}
    BY <1>1, <2>1, FetchKeeps DEF Select, Subscribe, PageInv, BusyOnlyWhileWaiting
  <2>3. timers' \subseteq [made : 0 .. MaxSelections, of : Stadiums \cup {None}]
    BY <1>1, <2>1 DEF Select, Subscribe, PageInv, TypeOK
  <2>4. CASE s = None
    <3>1. ShowDetails(None) /\ UNCHANGED detailRequests
      BY <1>1, <2>4 DEF Select
    <3> QED
      BY <1>1, <2>2, <2>3, <2>4, <3>1, ShowDetailsKeeps
         DEF Select, PageInv, TypeOK, BusyOnlyWhileWaiting
  <2>5. CASE s # None
    <3>1. c \in Closure
      BY <2>1, <2>5 DEF Closure
    <3>2. /\ detailRequests' = detailRequests \cup {c}
          /\ UNCHANGED <<stadium, panelVars>>
      BY <1>1, <2>5 DEF Select
    <3> QED
      BY <1>1, <2>2, <2>3, <3>1, <3>2, PanelUntouched
         DEF Select, PageInv, TypeOK, BusyOnlyWhileWaiting, panelVars
  <2> QED
    BY <2>4, <2>5
<1>2. ASSUME NEW s \in Stadiums, Poll(s)
      PROVE  PageInv'
  <2>1. PICK t \in timers : Fetch(t)
    BY <1>2 DEF Poll
  <2>2. /\ polls' \subseteq Closure
        /\ {crowdLoading, crowdError}' \subseteq BOOLEAN
        /\ crowdLoading' => polls' # {}
    BY <2>1, FetchKeeps DEF PageInv, TypeOK, BusyOnlyWhileWaiting
  <2> QED
    BY <1>2, <2>2, PanelUntouched
       DEF Poll, PageInv, TypeOK, BusyOnlyWhileWaiting, appVars, panelVars
<1>3. ASSUME NEW s \in Stadiums, PollAnswered(s) \/ PollFailed(s)
      PROVE  PageInv'
  <2>1. PICK p \in polls : PollSettles(p)
    BY <1>3 DEF PollAnswered, PollFailed
  <2>2. /\ snapshot' \in Stadiums \cup {None}
        /\ crowdError' \in BOOLEAN
    BY <1>3 DEF PollAnswered, PollFailed, PageInv, TypeOK
  <2> QED
    BY <2>1, <2>2, PanelUntouched
       DEF PollSettles, PageInv, TypeOK, BusyOnlyWhileWaiting, appVars, panelVars
<1>4. CASE DetailsAnswered
  <2>1. PICK d \in detailRequests :
          /\ detailRequests' = detailRequests \ {d}
          /\ ShowDetails(d.of)
          /\ UNCHANGED <<selected, selections, loadError, alone, crowdVars>>
    BY <1>4 DEF DetailsAnswered
  <2>2. d.of \in Stadiums \cup {None}
    BY DEF PageInv, TypeOK, Closure
  <2> QED
    BY <2>1, <2>2, ShowDetailsKeeps DEF PageInv, TypeOK, BusyOnlyWhileWaiting, crowdVars
<1>5. CASE DetailsFailed
  <2>1. /\ detailRequests' \subseteq detailRequests
        /\ loadError' = TRUE /\ alone' = FALSE
        /\ UNCHANGED <<selected, selections, stadium, crowdVars, panelVars>>
    BY <1>5 DEF DetailsFailed
  <2>2. TypeOK'
    BY <2>1 DEF PageInv, TypeOK, crowdVars, panelVars
  <2> QED
    BY <2>1, <2>2, PanelUntouched DEF PageInv, BusyOnlyWhileWaiting, crowdVars
<1>6. CASE FillForm \/ RefuseForm \/ ClearRoute
  <2>1. /\ UNCHANGED <<submits, routeRequests, routeLoading, lastRequest, appVars, crowdVars>>
        /\ route' \in {route, None}
    BY <1>6 DEF FillForm, RefuseForm, ClearRoute
  <2>2. {formFilled', formError', routeError'} \subseteq BOOLEAN
    BY <1>6 DEF FillForm, RefuseForm, ClearRoute, PageInv, TypeOK
  <2>3. routeError' => routeError
    BY <1>6 DEF FillForm, RefuseForm, ClearRoute
  <2>4. TypeOK'
    BY <2>1, <2>2 DEF PageInv, TypeOK, appVars, crowdVars
  <2>5. OneRequest' /\ RouteAnswersLastRequest' /\ BusyOnlyWhileWaiting'
    BY <2>1, <2>3
       DEF PageInv, OneRequest, RouteAnswersLastRequest, BusyOnlyWhileWaiting, crowdVars
  <2> QED
    BY <2>4, <2>5 DEF PageInv
<1>7. CASE Submit
  <2>1. lastRequest' \in RouteRequest
    BY <1>7 DEF Submit, Request, PageInv, TypeOK, RouteRequest
  <2>2. routeRequests = {} /\ routeRequests' = {lastRequest'}
    BY <1>7 DEF Submit, Request, PageInv, OneRequest
  <2>3. submits' \in 0 .. MaxSubmits
    BY <1>7 DEF Submit, Request, PageInv, TypeOK
  <2> QED
    BY <1>7, <2>1, <2>2, <2>3
       DEF Submit, Request, PageInv, TypeOK, OneRequest, RouteAnswersLastRequest,
           BusyOnlyWhileWaiting, appVars, crowdVars
<1>8. CASE RouteAnswered \/ RouteFailed
  <2>1. PICK r \in routeRequests : RouteSettles(r)
    BY <1>8 DEF RouteAnswered, RouteFailed
  <2>2. /\ r = lastRequest
        /\ routeRequests' = {}
        /\ route = None /\ ~routeError
    BY <2>1 DEF RouteSettles, PageInv, OneRequest
  <2>3. \/ route' = lastRequest /\ routeError' = FALSE
        \/ route' = None /\ routeError' = TRUE
    BY <1>8, <2>2 DEF RouteAnswered, RouteFailed, PageInv, OneRequest, TypeOK
  <2> QED
    BY <2>1, <2>2, <2>3
       DEF RouteSettles, PageInv, TypeOK, OneRequest, RouteAnswersLastRequest,
           BusyOnlyWhileWaiting, appVars, crowdVars
<1>9. CASE UNCHANGED fanAppVars
  BY <1>9
     DEF fanAppVars, PageInv, TypeOK, OneRequest, RouteAnswersLastRequest, BusyOnlyWhileWaiting
<1> QED
  BY <1>1, <1>2, <1>3, <1>4, <1>5, <1>6, <1>7, <1>8, <1>9 DEF Next

LEMMA PageInvariant == Spec => []PageInv
BY PageInit, PageStep, PTL DEF Spec

\* The state of the page keeps its types.
THEOREM PageIsTyped == Spec => []TypeOK
<1>1. PageInv => TypeOK
  BY DEF PageInv
<1> QED
  BY PageInvariant, <1>1, PTL

\* However requests end and overlap with changes of the stadium, the route on
\* screen is the answer to the last request.
THEOREM ShownRouteIsCurrent == Spec => []RouteAnswersLastRequest
<1>1. PageInv => RouteAnswersLastRequest
  BY DEF PageInv
<1> QED
  BY PageInvariant, <1>1, PTL

\* The busy indicators, and with them the disabled button, always have an
\* outstanding request to end them.
THEOREM BusyEnds == Spec => []BusyOnlyWhileWaiting
<1>1. PageInv => BusyOnlyWhileWaiting
  BY DEF PageInv
<1> QED
  BY PageInvariant, <1>1, PTL
=============================================================================
