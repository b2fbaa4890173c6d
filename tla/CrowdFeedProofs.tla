-------------------------- MODULE CrowdFeedProofs --------------------------
(***************************************************************************)
(* TLAPS proofs about CrowdFeed, for any number of ingests and sockets in  *)
(* flight, any size of the pool and any number of snapshots.               *)
(*                                                                         *)
(* The feed's properties speak of quiet states and of states below the     *)
(* limit of the pool; FeedInv carries them through the states between.     *)
(* Alone follows the one ingest that nothing has disturbed from command to *)
(* command; Heard says that only the sockets that are subscribed are said  *)
(* to have been reached, so that an interrupted stream owes nothing; Kept  *)
(* and Spare count the connections: those of the live subscriptions are    *)
(* among the held ones, and no more are held than were ever opened.        *)
(***************************************************************************)
EXTENDS CrowdFeed, Integers, FiniteSets, FiniteSetTheorems, SequenceTheorems, TLAPS

Known == \A i \in Ingests : InFlight(i) => ingest[i].snap \in 1 .. computed

Heard == reached \subseteq Subscribed

Live == {c \in Sockets : stage[c] \in {"subscribing", "streaming"}}

Kept == IsFiniteSet(Live) /\ Cardinality(Live) <= held

Spare == opened < MaxConnections => held <= opened

\* What is still to come on the screen of a socket ends with the snapshot n.
EndsWith(c, n) == IF inbox[c] = <<>> THEN shown[c] = n ELSE inbox[c][Len(inbox[c])] = n

Agrees ==
    /\ cached = computed /\ latest = computed
    /\ \A c \in reached : EndsWith(c, computed)

Alone ==
    clean /\ computed > 0 =>
        /\ \A i, j \in Ingests : InFlight(i) /\ InFlight(j) => i = j
        /\ \A i \in Ingests : InFlight(i) =>
              /\ ingest[i].snap = computed
              /\ ingest[i].stage = "publishing" => cached = computed
        /\ (\A i \in Ingests : ~InFlight(i)) => Agrees

FeedInv ==
    /\ TypeOK
    /\ Known
    /\ Heard
    /\ Kept
    /\ Spare
    /\ WorksBelowTheLimit
    /\ Alone

-----------------------------------------------------------------------------

LEMMA InitFeed == Init => FeedInv
<1> SUFFICES ASSUME Init PROVE FeedInv
  OBVIOUS
<1>1. TypeOK
  <2>1. /\ computed = 0 /\ computed \in 0 .. MaxSnapshots
        /\ held = 0 /\ held \in 0 .. MaxConnections
        /\ opened = 0 /\ opened \in 0 .. MaxConnections
    BY FeedAssumption DEF Init
  <2>2. inbox \in [Sockets -> Seq(published)]
    <3>1. <<>> \in Seq(published)
      OBVIOUS
    <3> QED BY <3>1 DEF Init
  <2>3. ingest \in [Ingests -> {Resting}]
    BY DEF Init
  <2> QED BY <2>1, <2>2, <2>3 DEF Init, TypeOK
<1>2. \A i \in Ingests : ~InFlight(i)
  BY DEF Init, InFlight, Resting
<1>3. Kept
  <2>1. Live = {}
    BY DEF Init, Live
  <2> QED BY <2>1, FS_EmptySet DEF Init, Kept
<1>4. Heard /\ Spare
  BY DEF Init, Heard, Spare, Subscribed
<1>5. WorksBelowTheLimit
  BY DEF Init, WorksBelowTheLimit
<1>6. Alone
  BY DEF Init, Alone
<1> QED BY <1>1, <1>2, <1>3, <1>4, <1>5, <1>6 DEF FeedInv, Known

(* A snapshot that was published stays published, and in every inbox.       *)
LEMMA Wider ==
    ASSUME NEW S, NEW T, S \subseteq T, NEW s \in Seq(S)
    PROVE  s \in Seq(T)
OBVIOUS

(* What a command may do at Redis, whether or not its caller hears of it.   *)
LEMMA Effect ==
    ASSUME FeedInv, NEW i \in Ingests, InFlight(i), Execute(i) \/ UNCHANGED redisVars
    PROVE  /\ published \subseteq published' /\ published' \subseteq 1 .. computed
           /\ {cached', latest'} \subseteq 1 .. computed \cup {Nothing}
           /\ inbox' \in [Sockets -> Seq(published')]
           /\ reached' \subseteq Subscribed
<1> DEFINE n == ingest[i].snap
<1>1. n \in 1 .. computed
  BY DEF FeedInv, Known
<1>2. /\ published \subseteq 1 .. computed /\ inbox \in [Sockets -> Seq(published)]
      /\ {cached, latest} \subseteq 1 .. computed \cup {Nothing}
      /\ reached \subseteq Subscribed
  BY DEF FeedInv, TypeOK, Heard
<1> HIDE DEF n
<1>3. CASE Store(n)
  BY <1>1, <1>2, <1>3 DEF Store
<1>4. CASE Broadcast(n)
  <2>1. published' = published \cup {n} /\ n \in published'
    BY <1>4 DEF Broadcast
  <2>2. ASSUME NEW c \in Sockets
        PROVE  inbox[c] \in Seq(published') /\ Append(inbox[c], n) \in Seq(published')
    <3>1. inbox[c] \in Seq(published')
      BY <1>2, <2>1, Wider
    <3> QED BY <3>1, <2>1, AppendProperties
  <2>3. inbox' \in [Sockets -> Seq(published')]
    BY <1>4, <2>2 DEF Broadcast
  <2> QED BY <1>1, <1>2, <1>4, <2>1, <2>3 DEF Broadcast
<1>5. CASE UNCHANGED redisVars
  BY <1>2, <1>5 DEF redisVars
<1> QED BY <1>3, <1>4, <1>5 DEF Execute, n

(* The stages an ingest goes through.                                       *)
LEMMA Stages ==
    ASSUME TypeOK, NEW i \in Ingests, InFlight(i)
    PROVE  /\ ingest[i] \in [stage : {"caching", "publishing"}, snap : Snapshots, retried : BOOLEAN]
           /\ ingest[i].stage \in {"caching", "publishing"}
BY DEF TypeOK, InFlight, Resting

LEMMA AdvanceType ==
    ASSUME TypeOK, NEW i \in Ingests, InFlight(i), Advance(i)
    PROVE  ingest' \in [Ingests -> {Resting} \cup
               [stage : {"caching", "publishing"}, snap : Snapshots, retried : BOOLEAN]]
<1>1. ingest[i] \in [stage : {"caching", "publishing"}, snap : Snapshots, retried : BOOLEAN]
  BY Stages
<1>2. [ingest[i] EXCEPT !.stage = "publishing", !.retried = FALSE]
        \in [stage : {"caching", "publishing"}, snap : Snapshots, retried : BOOLEAN]
  BY <1>1
<1> QED BY <1>1, <1>2 DEF Advance, TypeOK

LEMMA TypeKept == FeedInv /\ [Next]_feedVars => TypeOK'
<1> SUFFICES ASSUME FeedInv, [Next]_feedVars PROVE TypeOK'
  OBVIOUS
<1>0. /\ computed \in Nat /\ computed <= MaxSnapshots /\ MaxSnapshots \in Nat
      /\ held \in 0 .. MaxConnections /\ opened \in 0 .. MaxConnections
      /\ MaxConnections \in Nat
  BY FeedAssumption DEF FeedInv, TypeOK
<1>1. ASSUME NEW i \in Ingests, Compute(i) PROVE TypeOK'
  <2>1. computed' = computed + 1 /\ computed' \in 0 .. MaxSnapshots
        /\ computed + 1 \in Snapshots /\ 1 .. computed \subseteq 1 .. computed'
    BY <1>0, <1>1 DEF Compute, Snapshots
  <2>2. ingest' \in [Ingests -> {Resting} \cup
               [stage : {"caching", "publishing"}, snap : Snapshots, retried : BOOLEAN]]
    BY <1>1, <2>1 DEF Compute, FeedInv, TypeOK
  <2>3. clean' \in BOOLEAN
    BY <1>1 DEF Compute
  <2> QED BY <1>1, <2>1, <2>2, <2>3 DEF Compute, FeedInv, TypeOK, redisVars, socketVars
<1>2. ASSUME NEW i \in Ingests,
             CommandSucceeds(i) \/ CommandFails(i) \/ CommandGetsNoConnection(i)
      PROVE  TypeOK'
  <2>1. InFlight(i) /\ (Execute(i) \/ UNCHANGED redisVars) /\ Advance(i)
    BY <1>2 DEF CommandSucceeds, CommandFails, CommandGetsNoConnection
  <2>2. ingest' \in [Ingests -> {Resting} \cup
               [stage : {"caching", "publishing"}, snap : Snapshots, retried : BOOLEAN]]
    BY <2>1, AdvanceType DEF FeedInv
  <2>3. computed' = computed /\ UNCHANGED socketVars
    BY <2>1 DEF Advance
  <2>4. {faulty', clean'} \subseteq BOOLEAN
    BY <1>2 DEF CommandSucceeds, CommandFails, CommandGetsNoConnection, FeedInv, TypeOK
  <2>5. /\ published \subseteq published' /\ published' \subseteq 1 .. computed
        /\ {cached', latest'} \subseteq 1 .. computed \cup {Nothing}
        /\ inbox' \in [Sockets -> Seq(published')]
        /\ reached' \subseteq Sockets
    BY <2>1, Effect DEF Subscribed
  <2> QED BY <2>2, <2>3, <2>4, <2>5 DEF FeedInv, TypeOK, socketVars
<1>3. ASSUME NEW i \in Ingests, CommandTimesOut(i) PROVE TypeOK'
  <2>1. InFlight(i) /\ (Execute(i) \/ UNCHANGED redisVars)
    BY <1>3 DEF CommandTimesOut
  <2>2. [ingest[i] EXCEPT !.retried = TRUE]
          \in [stage : {"caching", "publishing"}, snap : Snapshots, retried : BOOLEAN]
    BY <2>1, Stages DEF FeedInv
  <2>3. ingest' = [ingest EXCEPT ![i] = [ingest[i] EXCEPT !.retried = TRUE]]
    BY <1>3 DEF CommandTimesOut
  <2>4. ingest' \in [Ingests -> {Resting} \cup
               [stage : {"caching", "publishing"}, snap : Snapshots, retried : BOOLEAN]]
    BY <2>2, <2>3 DEF FeedInv, TypeOK
  <2>5. /\ published \subseteq published' /\ published' \subseteq 1 .. computed
        /\ {cached', latest'} \subseteq 1 .. computed \cup {Nothing}
        /\ inbox' \in [Sockets -> Seq(published')]
        /\ reached' \subseteq Sockets
    BY <2>1, Effect DEF Subscribed
  <2> QED BY <1>3, <2>4, <2>5 DEF CommandTimesOut, FeedInv, TypeOK, socketVars
<1>4. CASE Expire
  BY <1>4 DEF Expire, FeedInv, TypeOK, socketVars
<1>5. ASSUME NEW c \in Sockets, Connect(c) PROVE TypeOK'
  <2>1. held' \in 0 .. MaxConnections /\ opened' \in 0 .. MaxConnections
    BY <1>0, <1>5 DEF Connect, Free
  <2> QED BY <1>5, <2>1 DEF Connect, FeedInv, TypeOK, redisVars, ingestVars
<1>6. ASSUME NEW c \in Sockets, SubscribeFails(c) PROVE TypeOK'
  <2>1. c \in Live
    BY <1>6 DEF SubscribeFails, Live
  <2>2. Cardinality(Live) \in Nat /\ Cardinality(Live) # 0 /\ Cardinality(Live) <= held
    BY <2>1, FS_EmptySet, FS_CardinalityType DEF FeedInv, Kept
  <2>3. held' \in 0 .. MaxConnections
    BY <1>0, <1>6, <2>2 DEF SubscribeFails
  <2> QED BY <1>6, <2>3 DEF SubscribeFails, FeedInv, TypeOK, redisVars, ingestVars
<1>7. ASSUME NEW c \in Sockets, Refuse(c) \/ Subscribe(c) \/ Leave(c) \/ Return(c)
      PROVE  TypeOK'
  <2>1. stage' \in [Sockets -> {"new", "subscribing", "streaming", "closed", "error"}]
    BY <1>7 DEF Refuse, Subscribe, Leave, Return, FeedInv, TypeOK
  <2>2. gone' \subseteq Sockets /\ shown' \in [Sockets -> published \cup {Nothing}]
    BY <1>7 DEF Refuse, Subscribe, Leave, Return, FeedInv, TypeOK
  <2>3. UNCHANGED <<computed, ingest, published, cached, latest, inbox, reached, held,
                    opened, faulty, clean>>
    BY <1>7 DEF Refuse, Subscribe, Leave, Return, redisVars, ingestVars
  <2> QED BY <2>1, <2>2, <2>3 DEF FeedInv, TypeOK
<1>8. ASSUME NEW c \in Sockets, Reconnect(c) \/ StreamBreaks(c) \/ PushToGone(c)
      PROVE  TypeOK'
  <2>1. inbox' \in [Sockets -> Seq(published)]
    <3>1. <<>> \in Seq(published)
      OBVIOUS
    <3>2. inbox' = [inbox EXCEPT ![c] = <<>>]
      BY <1>8 DEF Reconnect, StreamBreaks, PushToGone, Unread
    <3> QED BY <3>1, <3>2 DEF FeedInv, TypeOK
  <2>2. stage' \in [Sockets -> {"new", "subscribing", "streaming", "closed", "error"}]
    BY <1>8 DEF Reconnect, StreamBreaks, PushToGone, FeedInv, TypeOK
  <2>3. reached' \subseteq Sockets /\ faulty' \in BOOLEAN
    BY <1>8 DEF Reconnect, StreamBreaks, PushToGone, Unread, FeedInv, TypeOK
  <2>4. UNCHANGED <<computed, ingest, published, cached, latest, gone, shown, held,
                    opened, clean>>
    BY <1>8 DEF Reconnect, StreamBreaks, PushToGone, Unread, ingestVars
  <2> QED BY <2>1, <2>2, <2>3, <2>4 DEF FeedInv, TypeOK
<1>9. ASSUME NEW c \in Sockets, Push(c) PROVE TypeOK'
  <2>1. inbox[c] \in Seq(published) /\ inbox[c] # <<>>
    BY <1>9 DEF Push, FeedInv, TypeOK
  <2>2. Head(inbox[c]) \in published /\ Tail(inbox[c]) \in Seq(published)
    BY <2>1
  <2>3. inbox' \in [Sockets -> Seq(published)] /\ shown' \in [Sockets -> published \cup {Nothing}]
    BY <1>9, <2>2 DEF Push, FeedInv, TypeOK
  <2> QED BY <1>9, <2>3 DEF Push, FeedInv, TypeOK, ingestVars
<1>10. CASE UNCHANGED feedVars
  BY <1>10 DEF feedVars, FeedInv, TypeOK
<1> QED BY <1>1, <1>2, <1>3, <1>4, <1>5, <1>6, <1>7, <1>8, <1>9, <1>10 DEF Next

-----------------------------------------------------------------------------

(* An ingest only counts as in flight with a snapshot that was computed.    *)
LEMMA KnownKept == FeedInv /\ [Next]_feedVars => Known'
<1> SUFFICES ASSUME FeedInv, [Next]_feedVars PROVE Known'
  OBVIOUS
<1>0. computed \in Nat /\ ingest \in [Ingests -> {Resting} \cup
                     [stage : {"caching", "publishing"}, snap : Snapshots, retried : BOOLEAN]]
  BY DEF FeedInv, TypeOK
<1>1. ASSUME NEW i \in Ingests, Compute(i) PROVE Known'
  <2>1. /\ computed' = computed + 1 /\ computed' \in 1 .. computed'
        /\ 1 .. computed \subseteq 1 .. computed'
    BY <1>0, <1>1 DEF Compute
  <2>2. /\ ingest'[i].snap = computed'
        /\ \A j \in Ingests \ {i} : ingest'[j] = ingest[j]
    BY <1>0, <1>1, <2>1 DEF Compute
  <2> QED BY <2>1, <2>2 DEF FeedInv, Known, InFlight
<1>2. ASSUME NEW i \in Ingests, Advance(i), InFlight(i) PROVE Known'
  <2>1. \A j \in Ingests \ {i} : ingest'[j] = ingest[j]
    BY <1>2 DEF Advance
  <2>2. ingest'[i] = Resting \/ ingest'[i].snap = ingest[i].snap
    BY <1>0, <1>2, Stages DEF Advance, FeedInv
  <2>3. computed' = computed
    BY <1>2 DEF Advance
  <2> QED BY <1>2, <2>1, <2>2, <2>3 DEF FeedInv, Known, InFlight, Resting
<1>3. ASSUME NEW i \in Ingests, CommandTimesOut(i) PROVE Known'
  <2>1. \A j \in Ingests \ {i} : ingest'[j] = ingest[j]
    BY <1>3 DEF CommandTimesOut
  <2>2. ingest'[i].snap = ingest[i].snap /\ InFlight(i)
    BY <1>0, <1>3, Stages DEF CommandTimesOut, FeedInv
  <2>3. computed' = computed
    BY <1>3 DEF CommandTimesOut
  <2> QED BY <2>1, <2>2, <2>3 DEF FeedInv, Known, InFlight
<1>4. ASSUME ingest' = ingest, computed' = computed PROVE Known'
  BY <1>4 DEF FeedInv, Known, InFlight
<1>5. ASSUME Expire \/ UNCHANGED feedVars PROVE Known'
  BY <1>4, <1>5 DEF Expire, feedVars
<1>6. ASSUME NEW c \in Sockets,
             \/ Connect(c) \/ Refuse(c) \/ Subscribe(c) \/ SubscribeFails(c)
             \/ Reconnect(c) \/ StreamBreaks(c)
             \/ Push(c) \/ PushToGone(c)
             \/ Leave(c) \/ Return(c)
      PROVE  Known'
  BY <1>4, <1>6 DEF Connect, Refuse, Subscribe, SubscribeFails, Reconnect, StreamBreaks,
                    Push, PushToGone, Leave, Return, ingestVars
<1> QED BY <1>1, <1>2, <1>3, <1>5, <1>6
        DEF Next, CommandSucceeds, CommandFails, CommandGetsNoConnection

(* Whoever stops streaming has lost what was unread, and is owed nothing.   *)
LEMMA HeardKept == FeedInv /\ [Next]_feedVars => Heard'
<1> SUFFICES ASSUME FeedInv, [Next]_feedVars PROVE Heard'
  OBVIOUS
<1>0. reached \subseteq Subscribed
  BY DEF FeedInv, Heard
<1>1. ASSUME NEW i \in Ingests,
             \/ CommandSucceeds(i) \/ CommandTimesOut(i) \/ CommandFails(i)
             \/ CommandGetsNoConnection(i)
      PROVE  Heard'
  <2>1. InFlight(i) /\ (Execute(i) \/ UNCHANGED redisVars) /\ stage' = stage
    BY <1>1 DEF CommandSucceeds, CommandTimesOut, CommandFails, CommandGetsNoConnection,
                Advance, socketVars
  <2>2. reached' \subseteq Subscribed
    BY <2>1, Effect
  <2> QED BY <2>1, <2>2 DEF Heard, Subscribed
<1>2. ASSUME reached' = reached, stage' = stage PROVE Heard'
  BY <1>0, <1>2 DEF Heard, Subscribed
<1>3. ASSUME Expire \/ UNCHANGED feedVars \/ \E i \in Ingests : Compute(i) PROVE Heard'
  BY <1>2, <1>3 DEF Expire, feedVars, Compute, redisVars, socketVars
<1>4. ASSUME NEW c \in Sockets, Push(c) \/ Leave(c) PROVE Heard'
  BY <1>2, <1>4 DEF Push, Leave, redisVars
<1>5. ASSUME NEW c \in Sockets, stage[c] # "streaming",
             reached' = reached, \A d \in Sockets \ {c} : stage'[d] = stage[d]
      PROVE  Heard'
  BY <1>0, <1>5 DEF Heard, Subscribed
<1>6. ASSUME NEW c \in Sockets,
             Connect(c) \/ Refuse(c) \/ Subscribe(c) \/ SubscribeFails(c) \/ Return(c)
      PROVE  Heard'
  <2>1. stage[c] # "streaming" /\ reached' = reached
    BY <1>6 DEF Connect, Refuse, Subscribe, SubscribeFails, Return, redisVars
  <2>2. \A d \in Sockets \ {c} : stage'[d] = stage[d]
    BY <1>6 DEF Connect, Refuse, Subscribe, SubscribeFails, Return, FeedInv, TypeOK
  <2> QED BY <1>5, <2>1, <2>2
<1>7. ASSUME NEW c \in Sockets, Reconnect(c) \/ StreamBreaks(c) \/ PushToGone(c)
      PROVE  Heard'
  <2>1. reached' = reached \ {c}
    BY <1>7 DEF Reconnect, StreamBreaks, PushToGone, Unread
  <2>2. \A d \in Sockets \ {c} : stage'[d] = stage[d]
    BY <1>7 DEF Reconnect, StreamBreaks, PushToGone, FeedInv, TypeOK
  <2> QED BY <1>0, <2>1, <2>2 DEF Heard, Subscribed
<1> QED BY <1>1, <1>3, <1>4, <1>6, <1>7 DEF Next

(* A live subscription has its connection, and below the limit every one    *)
(* that is held was counted when it was opened.                             *)
LEMMA ConnectionsKept == FeedInv /\ [Next]_feedVars => Kept' /\ Spare'
<1> SUFFICES ASSUME FeedInv, [Next]_feedVars PROVE Kept' /\ Spare'
  OBVIOUS
<1>0. /\ held \in Nat /\ opened \in Nat /\ opened <= MaxConnections /\ MaxConnections \in Nat
      /\ IsFiniteSet(Live) /\ Cardinality(Live) <= held /\ Cardinality(Live) \in Nat
      /\ opened < MaxConnections => held <= opened
      /\ stage \in [Sockets -> {"new", "subscribing", "streaming", "closed", "error"}]
  BY FeedAssumption, FS_CardinalityType DEF FeedInv, TypeOK, Kept, Spare
<1>1. ASSUME held' = held, opened' = opened, Live' \subseteq Live PROVE Kept' /\ Spare'
  <2>1. /\ IsFiniteSet(Live') /\ Cardinality(Live') <= Cardinality(Live)
        /\ Cardinality(Live') \in Nat
    BY <1>0, <1>1, FS_Subset, FS_CardinalityType
  <2> QED BY <1>0, <1>1, <2>1 DEF Kept, Spare
<1>2. ASSUME NEW c \in Sockets, Connect(c) PROVE Kept' /\ Spare'
  <2>1. Live' = Live \cup {c}
    BY <1>0, <1>2 DEF Connect, Live
  <2>2. IsFiniteSet(Live') /\ Cardinality(Live') <= Cardinality(Live) + 1
        /\ Cardinality(Live') \in Nat
    <3>1. IsFiniteSet(Live \cup {c})
          /\ Cardinality(Live \cup {c}) =
                IF c \in Live THEN Cardinality(Live) ELSE Cardinality(Live) + 1
      BY <1>0, FS_AddElement
    <3> QED BY <1>0, <2>1, <3>1
  <2>3. held' = held + 1 /\ opened' = IF opened < MaxConnections THEN opened + 1 ELSE opened
    BY <1>2 DEF Connect
  <2> QED BY <1>0, <2>2, <2>3 DEF Kept, Spare
<1>3. ASSUME NEW c \in Sockets, SubscribeFails(c) PROVE Kept' /\ Spare'
  <2>1. Live' = Live \ {c} /\ c \in Live
    BY <1>0, <1>3 DEF SubscribeFails, Live
  <2>2. IsFiniteSet(Live') /\ Cardinality(Live') = Cardinality(Live) - 1
    <3>1. IsFiniteSet(Live \ {c}) /\ Cardinality(Live \ {c}) = Cardinality(Live) - 1
      BY <1>0, <2>1, FS_RemoveElement
    <3> QED BY <2>1, <3>1
  <2>3. held' \in {held, held - 1} /\ opened' = opened
    BY <1>3 DEF SubscribeFails
  <2> QED BY <1>0, <2>2, <2>3 DEF Kept, Spare
<1>4. ASSUME NEW c \in Sockets,
             \/ Refuse(c) \/ Subscribe(c) \/ Reconnect(c) \/ StreamBreaks(c)
             \/ Push(c) \/ PushToGone(c) \/ Leave(c) \/ Return(c)
      PROVE  Kept' /\ Spare'
  <2>1. held' = held /\ opened' = opened
    BY <1>4 DEF Refuse, Subscribe, Reconnect, StreamBreaks, Push, PushToGone, Leave, Return
  <2>2. ASSUME NEW d \in Live' PROVE d \in Live
    BY <1>0, <1>4, <2>2 DEF Refuse, Subscribe, Reconnect, StreamBreaks, Push, PushToGone,
                            Leave, Return, Live
  <2> QED BY <1>1, <2>1, <2>2
<1>5. ASSUME stage' = stage, held' = held, opened' = opened PROVE Kept' /\ Spare'
  BY <1>1, <1>5 DEF Live
<1>6. ASSUME \/ Expire \/ UNCHANGED feedVars
             \/ \E i \in Ingests : \/ Compute(i) \/ CommandSucceeds(i) \/ CommandTimesOut(i)
                                   \/ CommandFails(i) \/ CommandGetsNoConnection(i)
      PROVE  Kept' /\ Spare'
  BY <1>5, <1>6 DEF Expire, feedVars, Compute, CommandSucceeds, CommandTimesOut,
                    CommandFails, CommandGetsNoConnection, Advance, socketVars
<1> QED BY <1>2, <1>3, <1>4, <1>6 DEF Next

-----------------------------------------------------------------------------

(* Below the limit the pool has a connection, and it had one before.        *)
LEMMA BelowTheLimit ==
    ASSUME FeedInv, [Next]_feedVars, ~faulty', opened' < MaxConnections
    PROVE  ~faulty /\ opened < MaxConnections /\ Free
<1>1. opened <= opened' /\ (faulty => faulty')
  <2>1. opened \in Nat /\ faulty \in BOOLEAN
    BY DEF FeedInv, TypeOK
  <2>2. ASSUME NEW c \in Sockets, Connect(c)
        PROVE  opened <= opened' /\ (faulty => faulty')
    BY <2>1, <2>2 DEF Connect
  <2>3. ASSUME NEW c \in Sockets,
               \/ Refuse(c) \/ Subscribe(c) \/ SubscribeFails(c) \/ Reconnect(c)
               \/ StreamBreaks(c) \/ Push(c) \/ PushToGone(c) \/ Leave(c) \/ Return(c)
        PROVE  opened <= opened' /\ (faulty => faulty')
    <3>1. opened' = opened /\ (faulty' = faulty \/ faulty' = TRUE)
      BY <2>3 DEF Refuse, Subscribe, SubscribeFails, Reconnect, StreamBreaks, Push,
                  PushToGone, Leave, Return
    <3> QED BY <2>1, <3>1
  <2>4. ASSUME \/ Expire \/ UNCHANGED feedVars
               \/ \E i \in Ingests : \/ Compute(i) \/ CommandSucceeds(i) \/ CommandTimesOut(i)
                                     \/ CommandFails(i) \/ CommandGetsNoConnection(i)
        PROVE  opened <= opened' /\ (faulty => faulty')
    <3>1. opened' = opened /\ (faulty' = faulty \/ faulty' = TRUE)
      BY <2>4 DEF Expire, feedVars, Compute, CommandSucceeds, CommandTimesOut,
                  CommandFails, CommandGetsNoConnection, Advance, socketVars
    <3> QED BY <2>1, <3>1
  <2> QED BY <2>2, <2>3, <2>4 DEF Next
<1>2. /\ opened \in Nat /\ opened' \in Nat /\ MaxConnections \in Nat /\ held \in Nat
      /\ opened < MaxConnections => held <= opened
  BY TypeKept, FeedAssumption DEF FeedInv, TypeOK, Spare
<1> QED BY <1>1, <1>2 DEF Free

(* What an ingest is still to publish is in flight, and is dropped only     *)
(* when a command fails or the pool is exhausted.                           *)
LEMMA WorksKept == FeedInv /\ [Next]_feedVars => WorksBelowTheLimit'
<1> SUFFICES ASSUME FeedInv, [Next]_feedVars, ~faulty', opened' < MaxConnections
             PROVE  /\ \A c \in Sockets : stage'[c] # "error"
                    /\ \A n \in 1 .. computed' :
                          n \in published' \/ \E i \in Ingests : ingest'[i].snap = n
  BY DEF WorksBelowTheLimit
<1>0. /\ ~faulty /\ Free
      /\ \A c \in Sockets : stage[c] # "error"
      /\ \A n \in 1 .. computed : n \in published \/ \E i \in Ingests : ingest[i].snap = n
      /\ computed \in Nat /\ computed <= MaxSnapshots /\ MaxSnapshots \in Nat
      /\ ingest \in [Ingests -> {Resting} \cup
                     [stage : {"caching", "publishing"}, snap : Snapshots, retried : BOOLEAN]]
  BY BelowTheLimit, FeedAssumption DEF FeedInv, TypeOK, WorksBelowTheLimit
<1>a. \A n \in 1 .. computed : Resting.snap # n
  BY <1>0, FeedAssumption DEF Resting
<1>1. \A c \in Sockets : stage'[c] # "error"
  <2>1. ASSUME NEW c \in Sockets,
               \/ Connect(c) \/ Refuse(c) \/ Subscribe(c) \/ SubscribeFails(c) \/ Reconnect(c)
               \/ StreamBreaks(c) \/ Push(c) \/ PushToGone(c) \/ Leave(c) \/ Return(c)
        PROVE  \A d \in Sockets : stage'[d] # "error"
    BY <1>0, <2>1 DEF Connect, Refuse, Subscribe, SubscribeFails, Reconnect, StreamBreaks,
                      Push, PushToGone, Leave, Return, FeedInv, TypeOK
  <2>2. ASSUME \/ Expire \/ UNCHANGED feedVars
               \/ \E i \in Ingests : \/ Compute(i) \/ CommandSucceeds(i) \/ CommandTimesOut(i)
                                     \/ CommandFails(i) \/ CommandGetsNoConnection(i)
        PROVE  stage' = stage
    BY <2>2 DEF Expire, feedVars, Compute, CommandSucceeds, CommandTimesOut,
                CommandFails, CommandGetsNoConnection, Advance, socketVars
  <2> QED BY <1>0, <2>1, <2>2 DEF Next
<1> DEFINE Saved(n) == n \in published' \/ \E i \in Ingests : ingest'[i].snap = n
<1>2. ASSUME NEW i \in Ingests, Compute(i) PROVE \A n \in 1 .. computed' : Saved(n)
  <2>1. ingest[i] = Resting /\ computed' = computed + 1 /\ published' = published
    BY <1>0, <1>2 DEF Compute, InFlight, redisVars
  <2>2. ingest'[i].snap = computed + 1 /\ \A j \in Ingests \ {i} : ingest'[j] = ingest[j]
    BY <1>0, <1>2 DEF Compute
  <2>3. \A n \in 1 .. computed' : n = computed + 1 \/ n \in 1 .. computed
    BY <1>0, <2>1
  <2>4. ASSUME NEW n \in 1 .. computed PROVE Saved(n)
    <3>1. CASE n \in published
      BY <2>1, <3>1
    <3>2. CASE \E j \in Ingests : ingest[j].snap = n
      <4>1. PICK j \in Ingests : ingest[j].snap = n
        BY <3>2
      <4>2. j # i
        BY <1>a, <2>1, <4>1
      <4> QED BY <2>2, <4>1, <4>2
    <3> QED BY <1>0, <3>1, <3>2
  <2> QED BY <2>2, <2>3, <2>4
<1>3. ASSUME NEW i \in Ingests, CommandSucceeds(i) PROVE \A n \in 1 .. computed' : Saved(n)
  <2> SUFFICES ASSUME NEW n \in 1 .. computed PROVE Saved(n)
    BY <1>3 DEF CommandSucceeds, Advance
  <2>1. /\ InFlight(i) /\ Execute(i) /\ Advance(i)
        /\ \A j \in Ingests \ {i} : ingest'[j] = ingest[j]
    BY <1>3 DEF CommandSucceeds, Advance
  <2>2. published \subseteq published'
    BY <2>1, Effect
  <2>3. CASE ingest[i].stage = "caching"
    <3>1. ingest'[i].snap = ingest[i].snap
      BY <1>0, <2>1, <2>3, Stages DEF Advance, FeedInv
    <3> QED BY <1>0, <2>1, <2>2, <3>1
  <2>4. CASE ingest[i].stage # "caching"
    <3>1. ingest[i].snap \in published'
      BY <2>1, <2>4 DEF Execute, Broadcast
    <3> QED BY <1>0, <2>1, <2>2, <3>1
  <2> QED BY <2>3, <2>4
<1>4. ASSUME NEW i \in Ingests, CommandTimesOut(i) PROVE \A n \in 1 .. computed' : Saved(n)
  <2>1. computed' = computed /\ published \subseteq published'
    BY <1>4, Effect DEF CommandTimesOut
  <2>2. \A j \in Ingests : ingest'[j].snap = ingest[j].snap
    BY <1>0, <1>4, Stages DEF CommandTimesOut, FeedInv
  <2> QED BY <1>0, <2>1, <2>2
<1>5. ASSUME NEW i \in Ingests, CommandFails(i) \/ CommandGetsNoConnection(i) PROVE FALSE
  BY <1>0, <1>5 DEF CommandFails, CommandGetsNoConnection
<1>6. ASSUME ingest' = ingest, computed' = computed, published' = published
      PROVE  \A n \in 1 .. computed' : Saved(n)
  BY <1>0, <1>6
<1>7. ASSUME Expire \/ UNCHANGED feedVars PROVE \A n \in 1 .. computed' : Saved(n)
  BY <1>6, <1>7 DEF Expire, feedVars
<1>8. ASSUME NEW c \in Sockets,
             \/ Connect(c) \/ Refuse(c) \/ Subscribe(c) \/ SubscribeFails(c) \/ Reconnect(c)
             \/ StreamBreaks(c) \/ Push(c) \/ PushToGone(c) \/ Leave(c) \/ Return(c)
      PROVE  \A n \in 1 .. computed' : Saved(n)
  <2>1. ingest' = ingest /\ computed' = computed /\ published' = published
    BY <1>8 DEF Connect, Refuse, Subscribe, SubscribeFails, Reconnect, StreamBreaks, Push,
                PushToGone, Leave, Return, ingestVars, redisVars, Unread
  <2> QED BY <1>6, <2>1
<1>9. \A n \in 1 .. computed' : Saved(n)
  <2> HIDE DEF Saved
  <2> QED BY <1>2, <1>3, <1>4, <1>5, <1>7, <1>8 DEF Next
<1> QED BY <1>1, <1>9

-----------------------------------------------------------------------------
(* The ingest that nothing has disturbed.                                   *)

LEMMA AloneCompute ==
    ASSUME FeedInv, NEW i \in Ingests, Compute(i)
    PROVE  Alone'
<1> SUFFICES ASSUME clean'
             PROVE  /\ \A j, k \in Ingests : (InFlight(j) /\ InFlight(k))' => j = k
                    /\ \A j \in Ingests : InFlight(j)' =>
                          /\ ingest'[j].snap = computed'
                          /\ ingest'[j].stage = "publishing" => cached' = computed'
                    /\ (\A j \in Ingests : ~InFlight(j)') => Agrees'
  BY DEF Alone
<1>1. \A j \in Ingests : ~InFlight(j)
  BY DEF Compute
<1>2. /\ ingest'[i] = [stage |-> "caching", snap |-> computed', retried |-> FALSE]
      /\ \A j \in Ingests \ {i} : ingest'[j] = ingest[j]
  BY DEF Compute, FeedInv, TypeOK
<1>3. InFlight(i)' /\ \A j \in Ingests \ {i} : ~InFlight(j)'
  BY <1>1, <1>2 DEF InFlight
<1> QED BY <1>2, <1>3

(* A command that succeeds moves the ingest on, or ends it with the feed in *)
(* agreement: the message went to every socket that is subscribed.          *)
LEMMA AloneSucceeds ==
    ASSUME FeedInv, NEW i \in Ingests, CommandSucceeds(i)
    PROVE  Alone'
<1> SUFFICES ASSUME clean', computed' > 0
             PROVE  /\ \A j, k \in Ingests : (InFlight(j) /\ InFlight(k))' => j = k
                    /\ \A j \in Ingests : InFlight(j)' =>
                          /\ ingest'[j].snap = computed'
                          /\ ingest'[j].stage = "publishing" => cached' = computed'
                    /\ (\A j \in Ingests : ~InFlight(j)') => Agrees'
  BY DEF Alone
<1>1. /\ InFlight(i) /\ Execute(i) /\ Advance(i)
      /\ computed' = computed /\ clean /\ computed > 0 /\ shown' = shown
  BY DEF CommandSucceeds, Advance, socketVars
<1>2. /\ ingest[i].snap = computed
      /\ ingest[i].stage = "publishing" => cached = computed
      /\ \A j \in Ingests \ {i} : ~InFlight(j)
  BY <1>1 DEF FeedInv, Alone
<1>3. \A j \in Ingests \ {i} : ingest'[j] = ingest[j] /\ ~InFlight(j)'
  BY <1>1, <1>2 DEF Advance, InFlight
<1>4. CASE ingest[i].stage = "caching"
  <2>1. cached' = computed
    BY <1>1, <1>2, <1>4 DEF Execute, Store
  <2>2. ingest'[i] = [ingest[i] EXCEPT !.stage = "publishing", !.retried = FALSE]
    BY <1>1, <1>4 DEF Advance, FeedInv, TypeOK
  <2>3. ingest'[i].snap = computed /\ ingest'[i].stage = "publishing" /\ InFlight(i)'
    BY <1>1, <1>2, <2>2, Stages DEF FeedInv, InFlight
  <2> QED BY <1>1, <1>3, <2>1, <2>3
<1>5. CASE ingest[i].stage # "caching"
  <2>1. ingest[i].stage = "publishing"
    BY <1>1, <1>5, Stages DEF FeedInv
  <2>2. Broadcast(computed) /\ cached' = computed /\ latest' = computed
    BY <1>1, <1>2, <2>1 DEF Execute, Broadcast
  <2>3. ASSUME NEW c \in reached' PROVE EndsWith(c, computed)'
    <3>1. c \in Subscribed /\ c \in Sockets
      BY <2>2 DEF Broadcast, FeedInv, Heard, Subscribed
    <3>2. inbox[c] \in Seq(published \cup {computed})
      BY <3>1, Wider DEF FeedInv, TypeOK
    <3>3. inbox'[c] = Append(inbox[c], computed)
      BY <2>2, <3>1 DEF Broadcast
    <3>4. /\ inbox'[c] # <<>> /\ Len(inbox'[c]) = Len(inbox[c]) + 1
          /\ inbox'[c][Len(inbox[c]) + 1] = computed
      BY <3>2, <3>3, AppendProperties
    <3> QED BY <1>1, <3>4 DEF EndsWith
  <2>4. Agrees'
    BY <1>1, <2>2, <2>3 DEF Agrees
  <2>5. ~InFlight(i)'
    BY <1>1, <1>5 DEF Advance, InFlight, Resting, FeedInv, TypeOK
  <2> QED BY <1>3, <2>4, <2>5
<1> QED BY <1>4, <1>5

(* A command that timed out will be sent again, and repeats what it may     *)
(* have done.                                                               *)
LEMMA AloneTimesOut ==
    ASSUME FeedInv, NEW i \in Ingests, CommandTimesOut(i)
    PROVE  Alone'
<1> SUFFICES ASSUME clean', computed' > 0
             PROVE  /\ \A j, k \in Ingests : (InFlight(j) /\ InFlight(k))' => j = k
                    /\ \A j \in Ingests : InFlight(j)' =>
                          /\ ingest'[j].snap = computed'
                          /\ ingest'[j].stage = "publishing" => cached' = computed'
                    /\ (\A j \in Ingests : ~InFlight(j)') => Agrees'
  BY DEF Alone
<1>1. /\ InFlight(i) /\ computed' = computed /\ clean /\ computed > 0
      /\ Execute(i) \/ UNCHANGED redisVars
  BY DEF CommandTimesOut
<1>2. /\ ingest[i].snap = computed
      /\ ingest[i].stage = "publishing" => cached = computed
      /\ \A j \in Ingests \ {i} : ~InFlight(j)
  BY <1>1 DEF FeedInv, Alone
<1>3. \A j \in Ingests \ {i} : ingest'[j] = ingest[j] /\ ~InFlight(j)'
  BY <1>2 DEF CommandTimesOut, InFlight
<1>4. ingest'[i].snap = computed /\ ingest'[i].stage = ingest[i].stage /\ InFlight(i)'
  BY <1>1, <1>2, Stages DEF CommandTimesOut, FeedInv, TypeOK, InFlight
<1>5. ingest[i].stage = "publishing" => cached' = computed
  BY <1>1, <1>2 DEF Execute, Broadcast, redisVars
<1> QED BY <1>1, <1>3, <1>4, <1>5

(* Taking the head of a sequence leaves its last element where it was, or   *)
(* was taking that element.                                                 *)
LEMMA TailEnds ==
    ASSUME NEW S, NEW s \in Seq(S), s # <<>>, NEW x, s[Len(s)] = x
    PROVE  IF Tail(s) = <<>> THEN Head(s) = x ELSE Tail(s)[Len(Tail(s))] = x
<1>1. /\ Head(s) = s[1] /\ Tail(s) \in Seq(S) /\ Len(Tail(s)) = Len(s) - 1
      /\ \A k \in 1 .. Len(Tail(s)) : Tail(s)[k] = s[k + 1]
  BY HeadTailProperties
<1> DEFINE n == Len(s)
           m == Len(Tail(s))
<1>2. n \in Nat /\ m \in Nat
  BY <1>1, LenProperties
<1>3. m + 1 = n
  <2> HIDE DEF n, m
  <2>1. m = n - 1
    BY <1>1 DEF n, m
  <2> QED BY <1>2, <2>1
<1>4. CASE Tail(s) = <<>>
  <2>1. m = 0
    BY <1>4, EmptySeq
  <2>2. n = 1
    <3> HIDE DEF n, m
    <3> QED BY <1>2, <1>3, <2>1
  <2> QED BY <1>1, <1>4, <2>2
<1>5. CASE Tail(s) # <<>>
  <2>1. m # 0
    BY <1>1, <1>5, EmptySeq
  <2>2. m \in 1 .. m
    <3> HIDE DEF m
    <3> QED BY <1>2, <2>1
  <2>3. Tail(s)[m] = s[m + 1]
    BY <1>1, <2>2
  <2> QED BY <1>3, <1>5, <2>3
<1> QED BY <1>4, <1>5

(* Forwarding a message, or losing the stream, leaves what is to come.      *)
LEMMA AlonePush ==
    ASSUME FeedInv, NEW c \in Sockets, Push(c)
    PROVE  Alone'
<1>1. UNCHANGED <<computed, ingest, clean, cached, latest, reached>>
  BY DEF Push, ingestVars
<1>2. ASSUME Agrees PROVE Agrees'
  <2> SUFFICES ASSUME NEW d \in reached, EndsWith(d, computed) PROVE EndsWith(d, computed)'
    BY <1>1, <1>2 DEF Agrees
  <2>1. d \in Sockets
    BY DEF FeedInv, Heard, Subscribed
  <2>2. CASE d # c
    BY <2>1, <2>2 DEF Push, EndsWith, FeedInv, TypeOK, ingestVars
  <2>3. CASE d = c
    <3> DEFINE s == inbox[c]
    <3>1. s \in Seq(published) /\ s # <<>> /\ s[Len(s)] = computed
      BY <2>3 DEF Push, EndsWith, FeedInv, TypeOK
    <3>2. inbox'[c] = Tail(s) /\ shown'[c] = Head(s) /\ computed' = computed
      BY DEF Push, FeedInv, TypeOK, ingestVars
    <3>3. IF Tail(s) = <<>> THEN Head(s) = computed ELSE Tail(s)[Len(Tail(s))] = computed
      <4> HIDE DEF s
      <4> QED BY <3>1, TailEnds
    <3> HIDE DEF s
    <3> QED BY <2>3, <3>2, <3>3 DEF EndsWith
  <2> QED BY <2>2, <2>3
<1> QED BY <1>1, <1>2 DEF FeedInv, Alone, InFlight

LEMMA AloneUnread ==
    ASSUME FeedInv, NEW c \in Sockets, Reconnect(c) \/ StreamBreaks(c) \/ PushToGone(c)
    PROVE  Alone'
<1>1. /\ UNCHANGED <<computed, ingest, clean, cached, latest, shown>>
      /\ reached' = reached \ {c} /\ inbox' = [inbox EXCEPT ![c] = <<>>]
  BY DEF Reconnect, StreamBreaks, PushToGone, Unread, ingestVars
<1>2. \A d \in reached' : d \in reached /\ inbox'[d] = inbox[d]
  BY <1>1 DEF FeedInv, Heard, Subscribed, TypeOK
<1>3. Agrees => Agrees'
  BY <1>1, <1>2 DEF Agrees, EndsWith
<1> QED BY <1>1, <1>3 DEF FeedInv, Alone, InFlight

(* What is shown to a socket that is not subscribed is nobody's concern.    *)
LEMMA AloneSocket ==
    ASSUME FeedInv, NEW c \in Sockets,
           \/ Connect(c) \/ Refuse(c) \/ Subscribe(c) \/ SubscribeFails(c)
           \/ Leave(c) \/ Return(c)
    PROVE  Alone'
<1>1. UNCHANGED <<computed, ingest, clean, cached, latest, reached, inbox>>
  BY DEF Connect, Refuse, Subscribe, SubscribeFails, Leave, Return, redisVars, ingestVars
<1>2. \A d \in reached : shown'[d] = shown[d]
  <2>1. \A d \in reached : stage[d] = "streaming" /\ d \in Sockets
    BY DEF FeedInv, Heard, Subscribed
  <2>2. CASE Return(c)
    <3>1. c \notin reached
      BY <2>1, <2>2 DEF Return
    <3> QED BY <2>1, <2>2, <3>1 DEF Return, FeedInv, TypeOK
  <2>3. CASE Connect(c) \/ Refuse(c) \/ Subscribe(c) \/ SubscribeFails(c) \/ Leave(c)
    BY <2>3 DEF Connect, Refuse, Subscribe, SubscribeFails, Leave
  <2> QED BY <2>2, <2>3
<1>3. Agrees => Agrees'
  BY <1>1, <1>2 DEF Agrees, EndsWith
<1> QED BY <1>1, <1>3 DEF FeedInv, Alone, InFlight

(* When the TTL of the newest snapshot runs out, it is no longer served.    *)
LEMMA AloneExpire == FeedInv /\ Expire => Alone'
<1> SUFFICES ASSUME FeedInv, Expire, clean', computed > 0
             PROVE  /\ \A j, k \in Ingests : InFlight(j) /\ InFlight(k) => j = k
                    /\ \A j \in Ingests : InFlight(j) =>
                          /\ ingest[j].snap = computed
                          /\ ingest[j].stage = "publishing" => cached' = computed
                    /\ (\A j \in Ingests : ~InFlight(j)) => Agrees'
  BY DEF Alone, Expire, InFlight
<1>1. clean /\ cached # computed
  BY DEF Expire
<1> QED BY <1>1 DEF FeedInv, Alone, Agrees

LEMMA NextFeed == FeedInv /\ [Next]_feedVars => FeedInv'
<1> SUFFICES ASSUME FeedInv, [Next]_feedVars PROVE Alone'
  BY TypeKept, KnownKept, HeardKept, ConnectionsKept, WorksKept DEF FeedInv
<1>1. ASSUME NEW i \in Ingests, CommandFails(i) \/ CommandGetsNoConnection(i) PROVE Alone'
  BY <1>1 DEF CommandFails, CommandGetsNoConnection, Alone
<1>2. CASE UNCHANGED feedVars
  BY <1>2 DEF feedVars, FeedInv, Alone, InFlight, Agrees, EndsWith
<1> QED BY <1>1, <1>2, AloneCompute, AloneSucceeds, AloneTimesOut, AlonePush, AloneUnread,
           AloneSocket, AloneExpire DEF Next

-----------------------------------------------------------------------------

(* crowd.py:92-219: the invariant of the feed, whatever commands time out,  *)
(* fail or are sent twice and whoever comes and leaves.                     *)
THEOREM FeedInvariance == Spec => []FeedInv
BY InitFeed, NextFeed, PTL DEF Spec

(* crowd.py:92-219: only snapshots that were computed are cached, published *)
(* and shown, and the pool never lends more connections than it has.        *)
THEOREM FeedTypes == Spec => []TypeOK
<1>1. FeedInv => TypeOK
  BY DEF FeedInv
<1> QED BY <1>1, FeedInvariance, PTL

(* crowd.py:106-118, :135-168, :206-208: one undisturbed ingest brings the  *)
(* cache, the channel and every subscribed screen to agree.                 *)
THEOREM QuietFeed == Spec => []QuietFeedAgrees
<1>1. FeedInv => QuietFeedAgrees
  <2> SUFFICES ASSUME FeedInv, clean, computed > 0, \A i \in Ingests : ~InFlight(i)
               PROVE  /\ Free => Served = computed
                      /\ cached = computed /\ latest = computed
                      /\ \A c \in reached : inbox[c] = <<>> => shown[c] = computed
    BY DEF QuietFeedAgrees
  <2>1. Agrees
    BY DEF FeedInv, Alone
  <2> QED BY <2>1 DEF Agrees, EndsWith, Served
<1> QED BY <1>1, FeedInvariance, PTL

(* crowd.py:171-219, cache.py:54: until the pool has been asked for as many *)
(* subscriptions as it has connections, nobody is refused and nothing is    *)
(* lost.                                                                    *)
THEOREM FeedWorksBelowTheLimit == Spec => []WorksBelowTheLimit
<1>1. FeedInv => WorksBelowTheLimit
  BY DEF FeedInv
<1> QED BY <1>1, FeedInvariance, PTL
=============================================================================
