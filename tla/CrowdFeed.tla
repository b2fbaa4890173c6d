----------------------------- MODULE CrowdFeed -----------------------------
(***************************************************************************)
(* The crowd feed of one stadium in one worker process: the endpoints of   *)
(* api/v1/crowd.py over the Redis client of infrastructure/cache.py.       *)
(*                                                                         *)
(* An ingest computes a snapshot in one step of the event loop, awaits its *)
(* SET and then its PUBLISH.  A WebSocket handler subscribes and forwards  *)
(* what arrives.  Both are coroutines of one loop over one pool of         *)
(* connections; get_cache_client never suspends between its check and the  *)
(* creation of that pool, so the pool is simply there.                     *)
(*                                                                         *)
(* Redis and redis-py are external and taken at their documentation.  A    *)
(* subscription takes a connection of the pool and keeps it until the      *)
(* PubSub object is closed; a command uses one while it runs, which counts *)
(* here as no time at all.  With retry_on_timeout a command that timed out *)
(* is sent once more, although the first one may have taken effect, and a  *)
(* stream that timed out reconnects and subscribes anew.  A command that   *)
(* fails takes effect before its caller goes on, or never.                 *)
(***************************************************************************)
EXTENDS Naturals, Sequences, Functions

CONSTANTS
    Ingests,          \* ingest requests that may be in flight together
    Sockets,          \* WebSocket clients
    MaxConnections,   \* max_connections of the pool
    MaxSnapshots,     \* bound on the snapshots computed
    Nothing           \* no snapshot: an absent or expired key

ASSUME FeedAssumption ==
    /\ MaxConnections \in Nat /\ MaxSnapshots \in Nat
    /\ Nothing \notin 1 .. MaxSnapshots

VARIABLES
    computed,    \* number of snapshots computed so far; names them
    ingest,      \* how far every ingest has come
    cached,      \* the value of snapshot:<stadium>
    published,   \* the snapshots that went through crowd:<stadium>
    latest,      \* the one published last
    stage,       \* how far the handler of every socket has come
    gone,        \* sockets whose fan has left
    inbox,       \* messages of the subscription not read yet
    shown,       \* the snapshot pushed last to every socket
    held,        \* connections that subscriptions keep
    \* history
    reached,     \* sockets a snapshot was published to since they subscribed
    opened,      \* subscriptions ever begun, counted up to MaxConnections
    faulty,      \* a Redis command or stream failed with connections left
    clean        \* nothing went wrong with the snapshot computed last

redisVars == <<cached, published, latest, inbox, reached>>
ingestVars == <<computed, ingest, clean>>
socketVars == <<stage, gone, shown, held, opened>>
feedVars == <<computed, ingest, cached, published, latest, stage, gone, inbox, shown,
              held, reached, opened, faulty, clean>>

Snapshots == 1 .. MaxSnapshots

Resting == [stage |-> "idle", snap |-> Nothing, retried |-> FALSE]

TypeOK ==
    /\ computed \in 0 .. MaxSnapshots
    /\ ingest \in [Ingests -> {Resting} \cup
                     [stage : {"caching", "publishing"}, snap : Snapshots, retried : BOOLEAN]]
    /\ published \subseteq 1 .. computed
    /\ {cached, latest} \subseteq 1 .. computed \cup {Nothing}
    /\ stage \in [Sockets -> {"new", "subscribing", "streaming", "closed", "error"}]
    /\ inbox \in [Sockets -> Seq(published)]
    /\ shown \in [Sockets -> published \cup {Nothing}]
    /\ gone \subseteq Sockets /\ reached \subseteq Sockets
    /\ held \in 0 .. MaxConnections /\ opened \in 0 .. MaxConnections
    /\ {faulty, clean} \subseteq BOOLEAN

Init ==
    /\ computed = 0
    /\ ingest = [i \in Ingests |-> Resting]
    /\ cached = Nothing /\ published = {} /\ latest = Nothing
    /\ stage = [c \in Sockets |-> "new"]
    /\ gone = {} /\ reached = {}
    /\ inbox = [c \in Sockets |-> <<>>]
    /\ shown = [c \in Sockets |-> Nothing]
    /\ held = 0 /\ opened = 0
    /\ faulty = FALSE /\ clean = TRUE

\* The pool has a connection to give.
Free == held < MaxConnections

-----------------------------------------------------------------------------
(* Ingest.                                                                  *)

InFlight(i) == ingest[i].stage # "idle"

\* compute_snapshot, up to the first await.
Compute(i) ==
    /\ ~InFlight(i)
    /\ computed < MaxSnapshots
    /\ computed' = computed + 1
    /\ ingest' = [ingest EXCEPT ![i] =
                    [stage |-> "caching", snap |-> computed + 1, retried |-> FALSE]]
    /\ clean' = ~(\E j \in Ingests : InFlight(j))
    /\ UNCHANGED <<redisVars, socketVars, faulty>>

\* Mutant: SET with nx=True, which keeps the value that is there.
StoreIfAbsent(n) ==
    /\ cached' = IF cached = Nothing THEN n ELSE cached
    /\ UNCHANGED <<published, latest, inbox, reached>>

\* SET replaces the value and starts its TTL anew.
Store(n) ==
    /\ cached' = n
    /\ UNCHANGED <<published, latest, inbox, reached>>

Subscribed == {c \in Sockets : stage[c] = "streaming"}

\* PUBLISH hands the message to every connection that is subscribed.
Broadcast(n) ==
    /\ published' = published \cup {n}
    /\ latest' = n
    /\ inbox' = [c \in Sockets |-> IF c \in Subscribed THEN Append(inbox[c], n) ELSE inbox[c]]
    /\ reached' = reached \cup Subscribed
    /\ UNCHANGED cached

\* The command an ingest waits for takes effect at Redis.
Execute(i) ==
    IF ingest[i].stage = "caching" THEN Store(ingest[i].snap) ELSE Broadcast(ingest[i].snap)

\* set and publish swallow errors: whatever happened, the ingest goes on.
Advance(i) ==
    /\ ingest' = [ingest EXCEPT ![i] =
                    IF @.stage = "caching"
                    THEN [@ EXCEPT !.stage = "publishing", !.retried = FALSE]
                    ELSE Resting]
    /\ UNCHANGED <<computed, socketVars>>

CommandSucceeds(i) ==
    /\ InFlight(i)
    /\ Free \/ ingest[i].retried
    /\ Execute(i)
    /\ Advance(i)
    /\ UNCHANGED <<faulty, clean>>

CommandTimesOut(i) ==
    /\ InFlight(i) /\ ~ingest[i].retried
    /\ Free
    /\ Execute(i) \/ UNCHANGED redisVars
    /\ ingest' = [ingest EXCEPT ![i].retried = TRUE]
    /\ UNCHANGED <<computed, socketVars, faulty, clean>>

CommandFails(i) ==
    /\ InFlight(i)
    /\ Free \/ ingest[i].retried
    /\ Execute(i) \/ UNCHANGED redisVars
    /\ Advance(i)
    /\ faulty' = TRUE /\ clean' = FALSE

\* Subscriptions hold every connection: the command raises at once.
CommandGetsNoConnection(i) ==
    /\ InFlight(i) /\ ~ingest[i].retried
    /\ ~Free
    /\ Advance(i)
    /\ clean' = FALSE
    /\ UNCHANGED <<redisVars, faulty>>

\* The TTL of the cached snapshot runs out.
Expire ==
    /\ cached # Nothing
    /\ cached' = Nothing
    /\ clean' = (clean /\ cached # computed)
    /\ UNCHANGED <<computed, ingest, published, latest, inbox, reached, socketVars, faulty>>

\* What get_crowd_snapshot returns at this moment, Nothing for a 404: an error
\* of the client counts as a miss.
Served == IF Free THEN cached ELSE Nothing

-----------------------------------------------------------------------------
(* The WebSocket handler.                                                   *)

\* Mutant: a connection is opened although the pool has reached its limit.
ConnectUnpooled(c) ==
    /\ stage[c] = "new"
    /\ stage' = [stage EXCEPT ![c] = "subscribing"]
    /\ held' = held + 1
    /\ opened' = IF opened < MaxConnections THEN opened + 1 ELSE opened
    /\ UNCHANGED <<gone, shown, redisVars, ingestVars, faulty>>

\* accept and the start of subscribe.
Connect(c) ==
    /\ stage[c] = "new"
    /\ Free
    /\ stage' = [stage EXCEPT ![c] = "subscribing"]
    /\ held' = held + 1
    /\ opened' = IF opened < MaxConnections THEN opened + 1 ELSE opened
    /\ UNCHANGED <<gone, shown, redisVars, ingestVars, faulty>>

\* No connection is left for the subscription: close with code 1011.
Refuse(c) ==
    /\ stage[c] = "new"
    /\ ~Free
    /\ stage' = [stage EXCEPT ![c] = "error"]
    /\ UNCHANGED <<gone, shown, held, opened, redisVars, ingestVars, faulty>>

\* Redis has the subscription: what is published from now on arrives.
Subscribe(c) ==
    /\ stage[c] = "subscribing"
    /\ stage' = [stage EXCEPT ![c] = "streaming"]
    /\ UNCHANGED <<gone, shown, held, opened, redisVars, ingestVars, faulty>>

\* A connection that cannot be opened goes back to the pool, one that breaks
\* later does not.
SubscribeFails(c) ==
    /\ stage[c] = "subscribing"
    /\ stage' = [stage EXCEPT ![c] = "error"]
    /\ held' \in {held, held - 1}
    /\ faulty' = TRUE
    /\ UNCHANGED <<gone, shown, opened, redisVars, ingestVars>>

\* What the server has not read of a subscription that ends is lost.
Unread(c) ==
    /\ inbox' = [inbox EXCEPT ![c] = <<>>]
    /\ reached' = reached \ {c}
    /\ UNCHANGED <<cached, published, latest>>

\* Mutant: the subscription that is made anew takes another connection.
ReconnectOnAnother(c) ==
    /\ stage[c] = "streaming"
    /\ stage' = [stage EXCEPT ![c] = "subscribing"]
    /\ held' = IF Free THEN held + 1 ELSE held
    /\ Unread(c)
    /\ UNCHANGED <<gone, shown, opened, ingestVars, faulty>>

\* listen timed out: redis-py connects and subscribes again by itself.
Reconnect(c) ==
    /\ stage[c] = "streaming"
    /\ stage' = [stage EXCEPT ![c] = "subscribing"]
    /\ Unread(c)
    /\ UNCHANGED <<gone, shown, held, opened, ingestVars, faulty>>

\* listen raises: close with code 1011, unsubscribe.
StreamBreaks(c) ==
    /\ stage[c] = "streaming"
    /\ stage' = [stage EXCEPT ![c] = "error"]
    /\ Unread(c)
    /\ faulty' = TRUE
    /\ UNCHANGED <<gone, shown, held, opened, ingestVars>>

\* Mutant: only the newest message is sent, those before it are skipped.
PushNewest(c) ==
    /\ stage[c] = "streaming" /\ c \notin gone
    /\ inbox[c] # <<>>
    /\ shown' = [shown EXCEPT ![c] = inbox[c][Len(inbox[c])]]
    /\ inbox' = [inbox EXCEPT ![c] = <<>>]
    /\ UNCHANGED <<stage, gone, held, opened, cached, published, latest, reached,
                   ingestVars, faulty>>

\* send_text of the next message.
Push(c) ==
    /\ stage[c] = "streaming" /\ c \notin gone
    /\ inbox[c] # <<>>
    /\ shown' = [shown EXCEPT ![c] = Head(inbox[c])]
    /\ inbox' = [inbox EXCEPT ![c] = Tail(@)]
    /\ UNCHANGED <<stage, gone, held, opened, cached, published, latest, reached,
                   ingestVars, faulty>>

\* send_text is the first to notice that the fan has left.  The handler
\* unsubscribes; nothing closes the PubSub object, so held does not change.
PushToGone(c) ==
    /\ stage[c] = "streaming" /\ c \in gone
    /\ inbox[c] # <<>>
    /\ stage' = [stage EXCEPT ![c] = "closed"]
    /\ Unread(c)
    /\ UNCHANGED <<gone, shown, held, opened, ingestVars, faulty>>

\* The fan leaves; the handler, which waits in listen, does not hear of it.
Leave(c) ==
    /\ stage[c] \in {"subscribing", "streaming"}
    /\ c \notin gone
    /\ gone' = gone \cup {c}
    /\ UNCHANGED <<stage, shown, held, opened, redisVars, ingestVars, faulty>>

\* A fan whose socket was closed opens another.
Return(c) ==
    /\ stage[c] \in {"closed", "error"}
    /\ stage' = [stage EXCEPT ![c] = "new"]
    /\ gone' = gone \ {c}
    /\ shown' = [shown EXCEPT ![c] = Nothing]
    /\ UNCHANGED <<held, opened, redisVars, ingestVars, faulty>>

-----------------------------------------------------------------------------

Next ==
    \/ \E i \in Ingests :
          \/ Compute(i)
          \/ CommandSucceeds(i) \/ CommandTimesOut(i) \/ CommandFails(i)
          \/ CommandGetsNoConnection(i)
    \/ Expire
    \/ \E c \in Sockets :
          \/ Connect(c) \/ Refuse(c) \/ Subscribe(c) \/ SubscribeFails(c)
          \/ Reconnect(c) \/ StreamBreaks(c)
          \/ Push(c) \/ PushToGone(c)
          \/ Leave(c) \/ Return(c)

Spec == Init /\ [][Next]_feedVars

\* The loop runs every handler that has something to forward, and a fan who
\* stays reads what is sent.
FairSpec == Spec /\ \A c \in Sockets : WF_feedVars(Push(c))

-----------------------------------------------------------------------------

(* crowd.py:106-118, :135-168, :206-208.  One ingest that runs alone and    *)
(* without an error repairs the feed, whatever went wrong before it: the    *)
(* snapshot it computed is the one REST readers get, the one published last *)
(* and, once their messages are forwarded, the one on the screen of every   *)
(* fan who was subscribed when it was published.                            *)
QuietFeedAgrees ==
    clean /\ computed > 0 /\ (\A i \in Ingests : ~InFlight(i)) =>
        /\ Free => Served = computed
        /\ cached = computed /\ latest = computed
        /\ \A c \in reached : inbox[c] = <<>> => shown[c] = computed

(* crowd.py:171-219, cache.py:54.  As long as Redis answers and fewer       *)
(* subscriptions were begun than the pool has connections, the feed works:  *)
(* no socket is closed with 1011, however many fans come, leave and time    *)
(* out, and every snapshot whose ingest has ended was published.  (Nothing  *)
(* of the kind holds after that: see the README.)                           *)
WorksBelowTheLimit ==
    ~faulty /\ opened < MaxConnections =>
        /\ \A c \in Sockets : stage[c] # "error"
        /\ \A n \in 1 .. computed :
              n \in published \/ \E i \in Ingests : ingest[i].snap = n

(* crowd.py:179-184, :206-208.  "Server pushes: new snapshot JSON on every  *)
(* crowd data ingest": a message that has reached the subscription of a fan *)
(* who stays is shown in the end, unless the stream is interrupted first.   *)
EveryPushArrives ==
    \A c \in Sockets : \A n \in Snapshots :
        (stage[c] = "streaming" /\ c \notin gone /\ n \in Range(inbox[c]))
            ~> (shown[c] = n \/ stage[c] # "streaming" \/ c \in gone)
=============================================================================
