---------------------------- MODULE ApiPipeline ----------------------------
(***************************************************************************)
(* A request on its way through the dependencies of an endpoint: the rate  *)
(* limiter, the bearer token, the role, the handler (routers/*.py,         *)
(* middleware/auth.py, middleware/rate_limiter.py).                        *)
(*                                                                         *)
(* The framework solves the dependencies of the decorator before those of  *)
(* the signature, so enforce_rate_limit runs first.  The service provider  *)
(* that follows is a plain function: it runs in the thread pool, and other *)
(* requests run meanwhile.  From the token to the handler nothing suspends *)
(* the request (what navigate awaits is the subject of Navigation).        *)
(*                                                                         *)
(* The limiter is that of RateLimiter, with a bucket for every address and *)
(* role; its steps happen in Enforce and Tick only.                         *)
(***************************************************************************)
EXTENDS RateLimiter

CONSTANTS
    Addresses,    \* client addresses: X-Forwarded-For, or the peer's
    Tasks,        \* requests that may be in flight together
    Requests,     \* the requests a client may send, as they are received
    Idle          \* a task that serves no request

VARIABLES
    task,            \* the request every task serves, and how far it has come
    ordinarySince    \* history: requests of an address let through at or after a
                     \* time that do not carry the token of an operator or admin

pipelineVars == <<now, buckets, admittedSince, advice, task, ordinarySince>>

Roles == {"fan", "operator", "admin"}

\* f"{ip}:{role}", and the keys that are given the rate of operators.
Keys == Addresses \X Roles
OperatorKeys == Addresses \X {"operator", "admin"}

ASSUME KeysAssumption == Clients = Keys /\ Operators = OperatorKeys

\* What the Authorization header holds: no token, one that get_current_user
\* refuses, whatever it claims, or the token of a user with some role.
Credentials == {"none", "invalid"} \cup Roles

\* The public endpoints, those for every user, and the one that is restricted.
Endpoints == {"stadiums", "navigate", "ingest"}

\* "refused": by get_current_user or require_role, with whichever status;
\* "handled": the handler ran, whatever it answered.
Request == [address : Addresses, endpoint : Endpoints, credential : Credentials,
            userRole : Roles \cup {"unset"},   \* request.state.user_role
            stage : {"received", "admitted", "429", "refused", "handled"}]

ASSUME RequestsAssumption ==
    /\ Requests \subseteq {r \in Request : r.stage = "received" /\ r.userRole = "unset"}
    /\ Idle \notin Request

PipelineInit ==
    /\ Init
    /\ task = [t \in Tasks |-> Idle]
    /\ ordinarySince = [a \in Addresses |-> [s \in Times |-> 0]]

-----------------------------------------------------------------------------

Receive(t) ==
    /\ task[t] = Idle
    /\ \E r \in Requests : task' = [task EXCEPT ![t] = r]
    /\ UNCHANGED <<now, buckets, admittedSince, advice, ordinarySince>>

\* Mutant: the limiter believes the role that a token nobody verified claims.
KeyOfClaim(r) ==
    <<r.address, CASE r.credential \in Roles -> r.credential
                   [] r.credential = "invalid" -> "operator"
                   [] r.credential = "none" -> "fan">>

\* _get_client_key: the address and the role of the request's state, if set.
Key(r) == <<r.address, IF r.userRole = "unset" THEN "fan" ELSE r.userRole>>

Ordinary(r) == r.credential \notin {"operator", "admin"}

\* enforce_rate_limit.
Enforce(t) ==
    /\ task[t] # Idle /\ task[t].stage = "received"
    /\ \/ /\ Admit(Key(task[t]))
          /\ task' = [task EXCEPT ![t].stage = "admitted"]
          /\ ordinarySince' = IF Ordinary(task[t])
                THEN [ordinarySince EXCEPT ![task[t].address] =
                        [s \in Times |-> IF s <= now THEN @[s] + 1 ELSE @[s]]]
                ELSE ordinarySince
       \/ /\ Reject(Key(task[t]))
          /\ task' = [task EXCEPT ![t].stage = "429"]
          /\ UNCHANGED ordinarySince

\* get_current_user accepts the token of the request; public endpoints ask for none.
Verified(r) == r.endpoint # "stadiums" /\ r.credential \in Roles

\* No refusal of get_current_user or require_role.
Granted(r) ==
    \/ r.endpoint = "stadiums"
    \/ Verified(r) /\ (r.endpoint = "ingest" => r.credential # "fan")

\* The dependencies after the limiter, and the handler.
Serve(t) ==
    /\ task[t] # Idle /\ task[t].stage = "admitted"
    /\ LET r == task[t]
       IN  task' = [task EXCEPT ![t] =
               [r EXCEPT !.userRole = IF Verified(r) THEN r.credential ELSE @,
                         !.stage = IF Granted(r) THEN "handled" ELSE "refused"]]
    /\ UNCHANGED <<now, buckets, admittedSince, advice, ordinarySince>>

Answered(t) == task[t] # Idle /\ task[t].stage \in {"429", "refused", "handled"}

Respond(t) ==
    /\ Answered(t)
    /\ task' = [task EXCEPT ![t] = Idle]
    /\ UNCHANGED <<now, buckets, admittedSince, advice, ordinarySince>>

ClockTick == Tick /\ UNCHANGED <<task, ordinarySince>>

PipelineNext ==
    \/ \E t \in Tasks : Receive(t) \/ Enforce(t) \/ Serve(t) \/ Respond(t)
    \/ ClockTick

PipelineSpec == PipelineInit /\ [][PipelineNext]_pipelineVars

-----------------------------------------------------------------------------

(* README.md:134, rate_limiter.py:87-90, :92-97.  Only an operator's or an *)
(* admin's token can buy more than a fan's budget.  All the other requests  *)
(* of an address together, of fans, without a token or with one that does   *)
(* not verify, to whatever endpoint and however they overlap, pass at the   *)
(* rate of one fan: claiming a role opens no second bucket.                 *)
OrdinaryShareOneBudget ==
    \A a \in Addresses : \A s \in 0 .. now :
        ordinarySince[a][s] * OneToken <= FanRpm * OneToken + FanRpm * (now - s)

(* rate_limiter.py:15, :88: "Include role in the key so operators get a    *)
(* separate bucket from fans".  At an endpoint that reads tokens, an        *)
(* operator is not turned away while the bucket of operators at its address *)
(* holds a token.                                                           *)
OperatorsHaveTheirBucket ==
    [][\A t \in Tasks :
          /\ task[t] # Idle /\ task[t].stage = "received" /\ task'[t] # Idle
          /\ Verified(task[t]) /\ task[t].credential \in {"operator", "admin"}
          /\ task'[t].stage = "429"
          => Refilled(<<task[t].address, task[t].credential>>) < OneToken]_pipelineVars
=============================================================================
