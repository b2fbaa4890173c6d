# Verification of the FIFA 2026 crowd navigation system

TLA+ models of the crowd-aware navigation backend, the TLC runs that check
them on small instances and the TLAPS proofs that hold for every value of the
constants.  All file paths are relative to the repository; a name without a
directory is under `src/backend/app/`.

## 1. Inventory

The repository holds two backends side by side.

* The **service stack** (`routers/`, `services/`, `middleware/`, `models/`,
  `utils/`, `dependencies.py`) is the one `main.py` mounts and the one the
  tests drive.
* The **domain stack** (`api/v1/`, `core/`, `domain/`, `infrastructure/`) is a
  second implementation of the same product.  Nothing mounts it and it imports
  names `dependencies.py` does not define, so it cannot be started as it is.

`config.py` lacks fields the service stack reads (`genai_api_key`,
`rate_limit_fan_rpm`, `cache_ttl_seconds` and others): the settings of the
models are therefore constants, with the assumptions the code needs.

| Component | State | Operations | Talks to | What makes it correct |
|---|---|---|---|---|
| Rate limiter `middleware/rate_limiter.py` | a bucket per `ip:role` | `check_and_consume` | every endpoint | bounded bursts; an honest Retry-After |
| Authentication `middleware/auth.py` | the role put on the request | `get_current_user`, `require_role` | limiter, endpoints | the role is there when it is read |
| Crowd flow `services/crowd_flow.py` | current and previous occupancy of every zone, with times | `ingest`, `get_snapshot`, `get_density_multipliers` | routers, navigation | never below what sensors said; levels, predictions and alarms agree |
| Graph `utils/graph.py` | none between calls | `shortest_path` | navigation | returns a cheapest allowed route, always |
| Cache `services/cache.py` | an `OrderedDict` with expiry times, or Redis | `get`, `set`, `delete`, `flush_pattern` | translation | LRU, TTL, bounded |
| Translation `services/genai_translation.py` | none but the shared cache | `generate_navigation_instruction`, `generate_crowd_warning` | cache, GenAI API | always answers, and for the right request |
| Navigation `services/navigation.py` | local to a request, across awaits | `navigate` | registry, crowd, graph, translation | one consistent crowd per route; refuses only with reason |
| Registry `services/stadium_registry.py` | constant data: zones, capacities, graph | lookups | all | every zone can be reached; no edge leaves an exit |
| Frontend page `src/frontend/src/App.tsx`, `hooks/`, `NavigationPanel.tsx` | selection, details, snapshot, form, route, busy and error flags | selections, polls, requests, clear | the API | what is shown belongs to what was asked for last; no busy indicator is left behind |
| Domain analytics `domain/services/crowd_analytics.py` | none | `compute_snapshot` | the mock graph | predictions never contradict the report |
| Domain feed `api/v1/crowd.py`, `infrastructure/cache.py` | the cached snapshot, the channel, the pool of connections, one subscription per socket | ingest, read, stream | Redis, analytics | cache, channel and screens agree once an ingest ran undisturbed; fans who stay get every message |
| Domain guidance `api/v1/navigation.py`, `domain/services/genai_navigator.py`, `infrastructure/genai_client.py` | cached guidance, the pool of threads | `get_navigation_route`, `generate_text` | feed, router, Redis, Gemini | a text fits its request and says who wrote it; every fan is answered |
| Domain sessions `api/v1/auth.py`, `core/security.py` | none: tokens are signed and not stored | login, refresh | - | not modelled, see section 6 |

What is hard here: the asyncio interleavings of the translation service and of
`navigate` (state read before an await and used after it), retries against an
API that fails in several ways, a cache that expires, evicts and fails, the
bookkeeping of a Dijkstra search with stale heap entries, the arithmetic of
lazy refills and truncated waits, thresholds at their boundaries, and in the
frontend answers that arrive in another order than they were asked for.  The
crowd feed adds two awaits per ingest that others may overtake, and a pool of
connections that subscriptions never give back.
`PROJECT.json` lists these hazards at their lines.

## 2. Modules

| Module | Models | Role |
|---|---|---|
| `RateLimiter`, `RateLimiterProofs` | `middleware/rate_limiter.py` | component, proofs of it and of `ApiPipeline` |
| `Stadium` | the zones every module about a stadium shares | a constant and its assumption |
| `CrowdFlow`, `MCCrowdFlow`, `CrowdFlowProofs` | `services/crowd_flow.py`, batches of `models/crowd.py` | component, instance, proofs of it and of `Navigation` |
| `ShortestPath`, `MCShortestPath`, `ShortestPathProofs` | `WeightedGraph.shortest_path` | algorithm, instance, proofs |
| `GraphRouter` | `GraphRouter.find_route` of `domain/services/graph_router.py` | variant of `ShortestPath` that implements it |
| `CacheContract` | what `CacheService` promises | abstract specification |
| `InMemoryCache`, `InMemoryCacheProofs` | `InMemoryCacheService` | implementation, refinement, proofs |
| `GenAITranslation`, `MCGenAITranslation`, `GenAITranslationProofs` | `services/genai_translation.py` with Redis failures | component, instance, proofs |
| `StadiumRegistry` | `services/stadium_registry.py` | data |
| `Navigation`, `MCNavigation` | `services/navigation.py`, `routers/navigation.py` | composition: extends `CrowdFlow` and `StadiumRoutes`, the contract of the search; instance on registry data |
| `ApiPipeline`, `MCApiPipeline` | the dependencies of all endpoints | composition: extends `RateLimiter`; instance |
| `StadiumRoutes` | walks of a graph and their costs | the contract of both searches |
| `FanApp`, `FanAppProofs` | `App.tsx`, `useCrowdData.ts`, `useNavigation.ts`, `NavigationPanel.tsx` | component, proofs |
| `CrowdAnalytics` | `domain/services/crowd_analytics.py` over the ring of `stadium_repository.py` | algorithms |
| `GuidedRoute`, `MCGuidedRoute`, `GuidedRouteProofs` | ingest, route requests and guidance of the domain stack | composition, instance, proofs |
| `CrowdFeed`, `CrowdFeedProofs` | `api/v1/crowd.py`, `infrastructure/cache.py` with Redis and its client | component, proofs |

### How state and actions correspond to the code

**RateLimiter.**  `buckets` is `self._buckets`; a missing key is `NoBucket`.
`check_and_consume` holds no await, so a call is one step: `Admit` or `Reject`,
both after the refill `Refilled`.  Tokens are counted in units of
1/(window * ticks per second), which makes the float arithmetic exact; float
rounding is not modelled.  Two history variables remember what was let through
and when a client was told to come back.

**CrowdFlow.**  One stadium; `zone` is `self._state[stadium_id]`.  `Ingest` is the
whole method, with the maximum per zone, the cap at the capacity, the dropped
unknown zones and the shift of current to previous.  Densities, predictions and
alarms are operators over the state, as `get_snapshot` computes them, with
ratios compared by cross multiplication.  A batch is a set of readings: sensor
ids, timestamps and batch ids are read by no statement of the service.  The
overall level of a snapshot, which nothing else reads, is left out.

**ShortestPath.**  A behaviour is one call; an action is one round of one of its
loops.  Heap ties and edge order are left open.  The heap is a set, because an
entry is pushed only when it is strictly better than every earlier one of its
node.  `GraphRouter` is the search of the domain stack, which skips the edges to
settled nodes; a call from a zone to itself returns at once and is no behaviour
of it.  The walking time and distance it sums up afterwards are left out.

**InMemoryCache and CacheContract.**  The order of the `OrderedDict` is the relation
`newer`.  The contract keeps what was written and how many other keys were used
since; the implementation maps to it by its history variables, identically.

**GenAITranslation.**  A call is a coroutine with a program counter at its awaits:
lookup, post, back-off, store.  The outcomes of a post are the branches of the
code: a text, a 429, a timeout or empty text, any other error.  Entries of the
cache may vanish at any time, and a Redis failure is a failed lookup or a lost
store.

**Navigation.**  `Plan` is everything from the read of the multipliers to the first
await, one step; `Guide` is one zone of the route; `Sense` is a batch that
arrives between two of them: the module extends `CrowdFlow`, whose variables
change in `Sense` only, by its `Ingest`.  The search is replaced by its contract,
the set of the cheapest simple routes the arguments allow; `ShortestPath` and its
proofs are about the code's search.
`StadiumRegistry` has the graph every registered stadium is given; the instance
takes the four concourses and an exit of it, with their own capacities and
weights.  `optimized` is the flag `is_crowd_optimized`.  The search of the code is
deterministic, and a second search of the same arguments returns the same route:
`Plan` says so of the naive route where the first search had no exclusion and no
multiplier.  Which of several equal routes the heap yields depends on everything
it holds, crowded zones off the route included, so that it is left open between
searches whose arguments differ.

**ApiPipeline.**  `Enforce` is the decorator's dependency, `Serve` the rest of the
dependencies and the handler.  Between them the request waits for the thread
pool and others run.  The module extends `RateLimiter`: its keys are the clients
of the limiter, whose steps are taken in `Enforce` and, for the clock, in
`ClockTick`.  A request ends with a 429, refused by `get_current_user` or
`require_role`, or handled, whatever the handler then answers; the status of a
refusal is left out, since that of a missing token depends on the version of
fastapi.  The history variable `ordinarySince` counts what was let through for
callers who are owed no more than a fan, in every span of time.

**FanApp.**  JavaScript runs one callback at a time, so an action is a user's event
with the effects React flushes after it, a tick of an interval, or the settling
of one request.  A request in flight is the closure that sent it; requests
settle in any order.  `Subscribe` is the effect of `useCrowdData` with the clean-up
of the one before.  The panel loses its state when the details it is shown for
go away, and keeps it when they are replaced.  The second run of effects in
React's strict mode is left out: it exists in development builds only.  The history
variable `alone` says that no request for details was in flight when those of
the current selection were asked for: nothing cancels such a request, so the
details of a stadium left long ago may still replace those of the selected one.

**CrowdAnalytics.**  A snapshot is kept as the levels of its report and its event;
the critical zones, the overall level and the bottlenecks are functions of
both.  The surge search is written by the distance from the nearest seed.
Counts are natural numbers: pydantic rejects a negative count with an error.  A
report may name zones the graph lacks, which are given the default capacity,
`StrayCapacity`, and which no surge and no route reaches.

**GuidedRoute.**  A route request is a coroutine with a place at each await: the
snapshot, the guidance, Gemini, the store.  `Plan` is everything between the
first two.  A call of Gemini waits in the executor's queue, holds a thread, and
keeps it after the timeout until Gemini returns; a call that has no thread yet
is cancelled by the timeout.  A Redis failure is a missing answer or a lost
store, and any entry may expire at any time.  A text is what it was written
from.  The SET of the snapshot and its broadcast are the matter of `CrowdFeed`.

**CrowdFeed.**  One stadium, one worker, WebSockets enabled.  An ingest computes its
snapshot in one step (`Compute`), then awaits SET and PUBLISH; a socket's handler
subscribes, waits in `listen` and forwards.  `cached` and the inboxes are Redis's
side, `held` counts the connections that subscriptions keep.  The check and the
creation of the pool in `get_cache_client` have no await that suspends between
them, so its lock is never contended and the pool is simply there.  Redis and
redis-py are external: a command takes effect before its caller goes on or
never; with `retry_on_timeout` it may take effect twice; a channel that is silent
for the 5 s of the socket timeout makes the client connect and subscribe again
(`Reconnect`), and what was published meanwhile is lost.  A command holds a
connection for no time.  Three things a reader of the code may not expect are
in the model because the code does them:

* The handler unsubscribes and never closes the PubSub object, so `held` does not
  shrink: after as many visits as the pool has connections (50) the worker
  refuses every socket and every command fails, so that REST answers 404.
  `WorksBelowTheLimit` says that this is the only cause of a refusal while
  Redis answers, and how many visits are needed.
* The handler hears of a fan's leaving only when it next sends.
* No snapshot is sent on connection, although the docstring at
  `api/v1/crowd.py:183` says that the cached one is.

## 3. Runs

| Run | Instance | Why it is enough |
|---|---|---|
| `crowd_flow` | a gate of 4 and a stand of 20, three counts, batches of two readings, 2 s | every level is reached, counts above the capacity, disagreeing sensors, a batch within the second |
| `memory_cache` | three keys, capacity two, short TTLs | eviction, overwrite of a full cache, expiry before and after eviction |
| `shortest_path` | both searches, small graphs with a detour, a cycle, an inaccessible edge, all queries | stale entries, ties, exclusion of every kind, no route |
| `translation` | two calls, two keys, two attempts | overlap on one key and on two, every sequence of outcomes |
| `navigation` | the registry's ring of four concourses and its south exit, counts in thousands, batches of two readings, two of them | batches before the plan, between steps, both ways round blocked, an exit as destination and as origin |
| `api_pipeline` | one address of 1 request per 2 s (2 for operators), two interchangeable tasks, requests of every kind, half-second ticks, 4 s | a bucket is drained with requests in flight, a Retry-After of several seconds is waited out, and the bucket is drained again |
| `fan_app` | two stadiums, three changes of the selection, two route requests | a stadium is left and selected again with polls of both in flight; a second request after an answer, an error or a new panel |
| `guided_route` | a ring of five zones, two ingests of three reports, two calls of five requests, one thread | both ways round the ring, each closed by some report; a queue behind a thread that hangs; a text cached by the other call, of another language, crowd or route |
| `crowd_feed` | two ingests in flight, two snapshots, two fans, three connections | ingests that overlap or follow each other, the second mending what the first left; every visit may leak, and second visits exhaust the pool |

Bounds: `MaxSelections` and `MaxSubmits` (events of the fan), `NumZones` (12 to 22 in
the code), `MaxThreads` (cores + 4, at most 32, in Python), `MaxTime` (clock), `MaxReadings` (batch size, 500 in the code),
`MaxHops` (walks a route is compared with), `MaxRetries` (a setting),
`MaxSize` (1024 in the code), `MaxIngests` (batches during one request),
`MaxConnections` (50 in the code), `MaxSnapshots` (ingests in all).

Three runs expect a violation; each shows a place where the program does not do
what the repository says of it.

* `guidance_of_another`: the key of the guidance cache is said to identify the
  request and leaves out the zones the fan avoids and the accessibility, so a
  fan may be given the directions Gemini wrote for another route.
* `operator_bucket`: the rate limiter runs before the token is decoded, so
  operators are charged to the bucket of the fans at their address.

* `crowd_flag`: the flag `is_crowd_optimized` is said to mean that the route
  deviates to avoid congestion (`models/navigation.py:112`); it is set in an empty
  stadium for a fan who asks to avoid a zone of the shortest route.

Other texts that differ from the code.  The models follow the code, and no
property relies on the text:

* `services/genai_translation.py:204` promises exponential back-off for 429 and
  503; the first 503 ends the attempts.  `GivesUpForAReason` makes no claim of a
  call that a 503 ended.
* `utils/graph.py:142-144` says that multipliers inflate the outbound edges of a
  zone; the code (lines 199-203, and their comment) inflates the edges into it.
* `models/navigation.py:99-100` speaks of penalties of 2x and 5x for high and
  critical crowds; the code multiplies by 3.5 and 8.0.
* `api/v1/navigation.py:63` promises a 404 without crowd data; the code routes as
  if the stadium were empty.
* `domain/services/genai_navigator.py:135` speaks of zones of high or critical
  level; the caller passes the critical ones only.
* `domain/services/crowd_analytics.py:17` gives a surge 80 % and 40 % one and two
  hops away; the code halves it per hop.
* `api/v1/crowd.py:183` is mentioned in section 2.

Deadlock checking is switched off where the behaviour ends by design: a search
that returned (`shortest_path`), a request that was answered (`navigation`,
`guided_route`), a fan who has used up the bounds on events (`fan_app`).

### Fairness

`ShortestPath` and `Navigation` assume weak fairness of the call's own steps and
`GenAITranslation` of every call's steps: the event loop resumes every coroutine
whose await is over, the HTTP client ends every request by its timeout, and a
sleep ends.  No fairness is assumed of sensors, of new calls, of expiry, nor of
any particular outcome of the API.

`FanApp` assumes that intervals fire, that requests settle (axios ends them after
15 s), and that the network lets some polls of a stadium through when it is
polled for ever (strong fairness of `PollAnswered`).  The details of a stadium
may fail for good; `SelectionPrevails` then promises the crowd only.  `GuidedRoute` assumes that the
event loop serves every request, that Redis answers or fails and that the timer
of `wait_for` fires; of Gemini and its threads it assumes nothing.  `CrowdFeed`
assumes weak fairness of `Push` for each fan: the loop serves a handler that has
a message, and a fan who stays reads.  It assumes nothing of Redis, so a
message may be lost to a reconnection, which `EveryPushArrives` allows.

## 4. Proofs

All proofs are for every value of the constants under the named assumptions of
the modules: any number of clients, requests, zones, sockets or calls.  A proof
module extends the module it is about; `RateLimiterProofs` and `CrowdFlowProofs`
extend the composition of their component, so that the theorems of the
component serve those of the composition.  Every invariant of every passing run
is proved.

* **RateLimiter**: `BurstBound` is not inductive.  The invariant `IInv` adds that what
  was let through since any instant, plus what is left in the bucket, is at most
  the capacity plus what was earned since; and that a client with advice has,
  at the promised time, a full token.  Both action properties follow from it.
* **ApiPipeline**: every step is a step of the limiter or leaves it alone
  (`PipelineIsLimited`), so `IInv` and the theorems of the limiter hold of every
  bucket.  `OrdinaryShareOneBudget` bounds what all callers without a verified
  operator's token get together from one address, whatever their tokens claim.
  `PipelineInv` adds that a request the limiter has not seen yet has no role, so
  that it is charged to the fans' bucket, and that `ordinarySince` counts no more
  than the history of that bucket; the rest is `BurstBound`.  This section alone
  uses `KeysAssumption`, that the limiter's clients are the pairs of addresses and
  roles.
* **CrowdFlow**: types carry the caps and the order of times; `NoUnderestimate` is
  inductive with them, and the two pointwise properties follow from the types
  alone by case analysis of the thresholds (linear arithmetic over the products
  with `Horizon` and elapsed time).
* **Navigation**: its properties compare an answer with the crowd at the moment of the
  plan, while the state holds the crowd of now and the multipliers that were
  read then.  The invariant `Planned` says that the multipliers are those of the
  remembered crowd, that the route is still a cheapest one under them, that a
  refusal means an empty choice, and that each step built is the one `StepFor`
  gives.  `OneCrowdPerRoute` then rests on the table of multipliers being
  invertible.  `FlagNeedsACrowd` says when the flag can be trusted: if the fan
  avoids nothing, it is owed to a crowd, and to one on the shortest route if
  there is only one such route.  It rests on the cost of a route being a sum in
  which higher multipliers cost more; `KeepsClear` on the shape of allowed routes; `RefusedOnlyBehindCut` on
  the set of zones that the allowed routes from the origin reach: an open edge
  out of it would extend the route to its start.
  The cost is a recursive sum over the legs: that the function it is written
  with exists, adds up and is monotone is proved from the set of indices, by
  `SetInduction` and `LeastNat`, which stand at the head of the module.
* **InMemoryCache**: the invariant says that `newer` is a strict total order of the
  stored keys, that a newer key was used since, and that history and store
  agree.  Size, order and the refinement of `CacheContract` follow.
* **ShortestPath**: the invariant is the one of Dijkstra's algorithm with lazy
  deletion: labels of settled nodes are below all heap costs, every labelled
  unsettled node has a heap entry of its label, edges of settled nodes are
  relaxed or pending.  A walk that is cheaper than a label would leave the
  settled set at an edge that contradicts it; the least such position exists by
  `LeastNat`.  That the walk back ends at the origin and meets no node twice
  (`RouteIsReal`) does not follow from the labels, because an edge may cost
  nothing and leave them equal.  The invariant adds `Ranks`: there is an order in
  which nodes were labelled where each predecessor was settled before its
  successor, and the walk back descends in it.  `GraphRouter` implements
  `ShortestPath`: an edge to a settled node improves nothing, so that skipping it
  and looking at it are the same step; its optimality and the reality of its
  routes follow.
* **GenAITranslation**: the invariant ties each call's instruction, attempt and posts
  to its place, and says of the cache that each entry fits its key.
* **FanApp**: a route request in flight is always the one sent last, because the
  button is disabled until it has settled, and a fresh panel forgets the
  requests of the one before; while it is in flight nothing is shown.
* **GuidedRoute**: `ExplainsItsCrowd` is not inductive.  The invariant adds that a
  planned route fits its request and crowd, a written text its call, and every
  cached entry its key, with a flag that names its writer.  That the routes of
  the search lead from the origin to the destination around the critical zones
  is a lemma about `StadiumRoutes`.  `TypeOK` bounds the threads in use, and for that
  needs `Pool`: no call is queued twice or while it holds a thread, so that a
  thread is started only for a call that has none.  `NoZoneIsPlayedDown` is a fact
  about the surge search for every report: a seed scores at least its own level,
  and a zone that a weaker surge reaches keeps the higher score.
* **CrowdFeed**: `WorksBelowTheLimit` needs that no more connections are held than
  were ever opened for a subscription (`Spare`), that those of the live
  subscriptions are among the held ones (`Kept`), and that a snapshot is either published or still in the hands of its
  ingest.  `QuietFeedAgrees` speaks of the end of an undisturbed ingest; the
  invariant `Alone` follows one from its computation on: it is the only one in
  flight, it holds the newest snapshot, after its SET the cache holds that
  snapshot, and after its PUBLISH the channel and the last message of every
  inbox do.

Three kinds of statements are only model-checked.

* Liveness (`Terminates`, `EveryCallIsAnswered`, `EveryRequestAnswered`,
  `SelectionPrevails`, `EveryFanAnswered`, `EveryPushArrives`): fairness and `ENABLED`
  are out of the prover's reach.
* That the data of `StadiumRegistry` fits the assumptions of the modules: the
  instance evaluates it.
* The three violations of section 3, which need a counterexample and no proof.

The proofs about `Navigation` and `GuidedRoute` take the searches at their contract.
That the searches meet it is proved as two facts of `ShortestPath`, cost and walk
(`FindsTheBest`, `ReturnsARealRoute`); the step from there to the set `CheapestOf` of
`StadiumRoutes` is an argument on paper, since the two modules write the length
of a walk differently.

## 5. Plan

Done: the models of all components of section 1 but sessions, and the proofs of
all invariants and of the action properties that are no liveness.

Next:

1. The contract of the search as a theorem: what `ShortestPath` returns is a
   member of `CheapestOf`, over the same edges and multipliers.
2. Stronger forms of what holds: how long a client of `ApiPipeline` that waits as
   told waits in all when others share its address; which messages a fan may
   miss in `CrowdFeed`.
3. The surge search as a state machine against the distances of `CrowdAnalytics`.

## 6. Not modelled

* **Login and refresh** of the domain stack: a pair of tokens is signed at each call
  and nothing is stored or revoked, so there is no state for an action to change.
  A refresh therefore leaves the old refresh token valid until it expires.
* **Configuration, wiring, health and metrics endpoints, security headers, logging**:
  constants, or decoration of answers; no other part reads them.
* **The sanitizer**: a pure rewriting of strings; no property of the other parts
  depends on the text.
* **The domain stack's rate limiter**: the configuration of a library.
* **The other TSX components and the deployment files**: rendering of the state of
  `FanApp`.
* **Several worker processes**, each with a crowd and buckets of its own; the
  limiter's docstring limits itself to a single process.

One behaviour is in the models and no property speaks of it, because no text of
the repository does: a report that leaves a critical zone out reopens it to
routes (`GuidedRoute`).
