------------------------- MODULE GuidedRouteProofs -------------------------
(* Theorems about guided routes, for every ring, report, request and number *)
(* of overlapping calls.                                                    *)
EXTENDS GuidedRoute, FiniteSetTheorems, TLAPS

Planned == {"looking", "asking", "storing", "200"}
Written == {"storing", "200"}

\* The route leads from the origin to the destination, around the crowd.
RouteFits(c) ==
    /\ Head(route[c]) = request[c].origin
    /\ Last(route[c]) = request[c].destination
    /\ \A n \in 2 .. Len(route[c]) : route[c][n] \notin crowded[c]

\* The entry of a key was written for a request with this key.
EntryFits(k) ==
    /\ Head(guidance[k].text.route) = k[1]
    /\ Last(guidance[k].text.route) = k[2]
    /\ guidance[k].text.language = k[3]
    /\ guidance[k].text.crowded = k[4]
    /\ guidance[k].isGenai <=> guidance[k].text.by = "gemini"

TextFits(c) ==
    /\ Head(text[c].route) = request[c].origin
    /\ Last(text[c].route) = request[c].destination
    /\ text[c].language = request[c].language
    /\ text[c].crowded = crowded[c]
    /\ isGenai[c] <=> text[c].by = "gemini"

Shape ==
    /\ snapshot \in Snapshots \cup {None}
    /\ pending \in [Ingests -> Snapshots \cup {None}]
    /\ request \in [Calls -> Requests]
    /\ stage = [c \in Calls |-> stage[c]]
    /\ crowded = [c \in Calls |-> crowded[c]]
    /\ route = [c \in Calls |-> route[c]]
    /\ text = [c \in Calls |-> text[c]]
    /\ isGenai = [c \in Calls |-> isGenai[c]]

\* Routes fit from the moment they are planned, texts from the moment they are
\* written, and cached entries always; no flag is set before its text.
GuideInv ==
    /\ Shape
    /\ \A c \in Calls : stage[c] \in Planned => RouteFits(c)
    /\ \A c \in Calls : stage[c] \in Written => TextFits(c)
    /\ \A c \in Calls : stage[c] \notin Written => ~isGenai[c]
    /\ \A k \in DOMAIN guidance : EntryFits(k)

-----------------------------------------------------------------------------

\* What find_route returns is a route of the request that enters no zone that
\* is critical in the snapshot.
LEMMA RoutesLeadThere ==
    ASSUME NEW s \in Snapshots \cup {None}, NEW q \in Requests,
           NEW r \in RoutesThrough[s][q]
    PROVE  /\ Head(r) = q.origin
           /\ Last(r) = q.destination
           /\ \A n \in 2 .. Len(r) : r[n] \notin CrowdedIn(s)
<1> DEFINE avoid == q.avoid \cup CrowdedIn(s)
<1>1. r \in Graph!RoutesFor(q.origin, q.destination, avoid, q.accessible)
  BY DEF RoutesThrough, Graph!CheapestOf
<1>2. /\ r \in Graph!Routes
      /\ r[1] = q.origin
      /\ r[Len(r)] = q.destination
      /\ \A e \in Graph!EdgesOf(r) : e.to \notin avoid
  BY <1>1 DEF Graph!RoutesFor
<1>3. PICK n \in 1 .. Graph!Cardinality(Zones) : r \in Graph!RoutesOfLength(n)
  BY <1>2 DEF Graph!Routes
<1>4. /\ n \in Int /\ n >= 1
      /\ r \in Seq(Zones)
      /\ Len(r) = n
  <2>1. n \in Nat /\ n >= 1
    <3>1. Cardinality(Zones) \in Nat
      BY CrowdAnalyticsAssumption, FS_Interval, FS_CardinalityType DEF Zones
    <3>2. Graph!Cardinality(Zones) = Cardinality(Zones)
      BY Zenon DEF Cardinality, Graph!Cardinality
    <3> QED
      BY <1>3, <3>1, <3>2
  <2>2. r \in [1 .. n -> Zones]
    BY <1>3 DEF Graph!RoutesOfLength
  <2>3. r \in Seq(Zones)
    BY <2>1, <2>2
  <2>4. Len(r) = n
    BY <2>1, <2>2
  <2> QED
    BY <2>1, <2>3, <2>4
<1>5. Head(r) = q.origin /\ Last(r) = q.destination
  BY <1>2, <1>4 DEF Last
<1>6. ASSUME NEW m \in 2 .. Len(r)
      PROVE  r[m] \notin CrowdedIn(s)
  <2>1. m - 1 \in 1 .. n - 1 /\ (m - 1) + 1 = m
    BY <1>4
  <2>2. PICK e \in Graph!EdgeBetween(r[m - 1], r[m]) : TRUE
    BY <1>3, <1>4, <2>1 DEF Graph!RoutesOfLength
  <2>3. e \in Graph!EdgesOf(r)
    BY <1>4, <2>1, <2>2 DEF Graph!EdgesOf
  <2>4. e.to = r[m]
    BY <2>2 DEF Graph!EdgeBetween
  <2> QED
    BY <1>2, <2>3, <2>4
<1> QED
  BY <1>5, <1>6

\* The template and Gemini write of the call's own request and route.
LEMMA TextForFits ==
    ASSUME NEW c \in Calls, NEW writer, RouteFits(c)
    PROVE  /\ Head(TextFor(c, writer).route) = request[c].origin
           /\ Last(TextFor(c, writer).route) = request[c].destination
           /\ TextFor(c, writer).language = request[c].language
           /\ TextFor(c, writer).crowded = crowded[c]
           /\ TextFor(c, writer).by = writer
BY DEF TextFor, RouteFits

\* A step of one call after which its text, if it has one by then, was just
\* written for it, keeps the invariant.
LEMMA CallStep ==
    ASSUME GuideInv, NEW c \in Calls, NEW newStage \in Planned,
           stage[c] \in Planned,
           stage' = [stage EXCEPT ![c] = newStage],
           UNCHANGED <<snapshot, pending, guidance, request, crowded, route>>,
           text' = [text EXCEPT ![c] = text'[c]],
           isGenai' = [isGenai EXCEPT ![c] = isGenai'[c]],
           newStage \in Written => TextFits(c)',
           newStage \notin Written => ~isGenai'[c]
    PROVE  GuideInv'
<1>1. Shape'
  BY DEF GuideInv, Shape
<1>2. /\ stage'[c] = newStage
      /\ \A d \in Calls \ {c} :
            stage'[d] = stage[d] /\ text'[d] = text[d] /\ isGenai'[d] = isGenai[d]
  BY DEF GuideInv, Shape
<1>3. ASSUME NEW d \in Calls, stage'[d] \in Planned
      PROVE  RouteFits(d)'
  <2>1. stage[d] \in Planned
    BY <1>2, <1>3
  <2> QED
    BY <2>1 DEF GuideInv, RouteFits
<1>4. ASSUME NEW d \in Calls, stage'[d] \in Written
      PROVE  TextFits(d)'
  BY <1>2, <1>4 DEF GuideInv, TextFits
<1>5. ASSUME NEW d \in Calls, stage'[d] \notin Written
      PROVE  ~isGenai'[d]
  BY <1>2, <1>5 DEF GuideInv
<1>6. \A k \in DOMAIN guidance' : EntryFits(k)'
  BY DEF GuideInv, EntryFits
<1> QED
  BY <1>1, <1>3, <1>4, <1>5, <1>6 DEF GuideInv

\* Both ways into the template keep the invariant.
LEMMA FallbackKeeps ==
    ASSUME GuideInv, NEW c \in Calls, stage[c] \in {"looking", "asking"}, Fallback(c),
           UNCHANGED <<snapshot, pending, guidance, request, crowded, route>>
    PROVE  GuideInv'
<1>1. RouteFits(c) /\ ~isGenai[c]
  BY DEF GuideInv, Planned, Written
<1>2. text'[c] = TextFor(c, "template") /\ text' = [text EXCEPT ![c] = text'[c]]
  BY DEF Fallback, GuideInv, Shape
<1>3. isGenai' = [isGenai EXCEPT ![c] = isGenai'[c]] /\ ~isGenai'[c]
  BY <1>1 DEF Fallback, GuideInv, Shape
<1>4. TextFits(c)'
  BY <1>1, <1>2, <1>3, TextForFits DEF TextFits
<1>5. stage' = [stage EXCEPT ![c] = "storing"]
  BY DEF Fallback
<1> QED
  BY <1>2, <1>3, <1>4, <1>5, CallStep DEF Planned, Written

-----------------------------------------------------------------------------
\* The invariant.

LEMMA GuidedStart == Init => GuideInv
BY DEF Init, GuideInv, Shape, Planned, Written

\* The actions that touch neither calls nor cached texts.
LEMMA OthersKeep ==
    ASSUME GuideInv, UNCHANGED <<guidance, callVars>>,
           snapshot' \in Snapshots \cup {None},
           pending' \in [Ingests -> Snapshots \cup {None}]
    PROVE  GuideInv'
BY DEF GuideInv, Shape, callVars, RouteFits, TextFits, EntryFits

LEMMA PlanKeeps ==
    ASSUME GuideInv, NEW c \in Calls, Plan(c)
    PROVE  GuideInv'
<1>1. PICK s \in {snapshot, None} :
        /\ crowded' = [crowded EXCEPT ![c] = CrowdedIn(s)]
        /\ \/ stage' = [stage EXCEPT ![c] = "422"]
           \/ stage' = [stage EXCEPT ![c] = "503"]
           \/ \E r \in RoutesThrough[s][request[c]] :
                /\ stage' = [stage EXCEPT ![c] = "looking"]
                /\ route' = [route EXCEPT ![c] = r]
  BY DEF Plan
<1>2. /\ stage[c] = "loading"
      /\ UNCHANGED <<snapshot, pending, guidance, request, text, isGenai>>
      /\ stage'[c] = "looking" \/ route' = route
  BY DEF Plan, feedVars, GuideInv, Shape
<1>3. /\ s \in Snapshots \cup {None}
      /\ request[c] \in Requests
  BY DEF GuideInv, Shape
<1>4. /\ crowded'[c] = CrowdedIn(s)
      /\ stage'[c] \in {"422", "503", "looking"}
      /\ \A d \in Calls \ {c} :
            stage'[d] = stage[d] /\ route'[d] = route[d] /\ crowded'[d] = crowded[d]
  BY <1>1, <1>2 DEF GuideInv, Shape
<1>5. Shape'
  BY <1>1, <1>2 DEF GuideInv, Shape
<1>6. ASSUME stage'[c] = "looking"
      PROVE  RouteFits(c)'
  <2>1. PICK r \in RoutesThrough[s][request[c]] : route' = [route EXCEPT ![c] = r]
    BY <1>1, <1>6 DEF GuideInv, Shape
  <2>2. route'[c] = r
    BY <2>1 DEF GuideInv, Shape
  <2> QED
    BY <1>2, <1>3, <1>4, <2>2, RoutesLeadThere DEF RouteFits
<1>7. ASSUME NEW d \in Calls, stage'[d] \in Planned
      PROVE  RouteFits(d)'
  BY <1>2, <1>4, <1>6, <1>7 DEF GuideInv, RouteFits, Planned
<1>8. ASSUME NEW d \in Calls, stage'[d] \in Written
      PROVE  TextFits(d)'
  BY <1>2, <1>4, <1>8 DEF GuideInv, TextFits, Written
<1>9. ASSUME NEW d \in Calls, stage'[d] \notin Written
      PROVE  ~isGenai'[d]
  BY <1>2, <1>4, <1>9 DEF GuideInv, Written
<1>10. \A k \in DOMAIN guidance' : EntryFits(k)'
  BY <1>2 DEF GuideInv, EntryFits
<1> QED
  BY <1>5, <1>7, <1>8, <1>9, <1>10 DEF GuideInv

\* A text from the cache was written for another request with the same key.
LEMMA HitKeeps ==
    ASSUME GuideInv, NEW c \in Calls, Hit(c)
    PROVE  GuideInv'
<1>1. /\ EntryFits(Key(c))
      /\ RouteFits(c)
  BY DEF Hit, GuideInv, Planned
<1>2. /\ text' = [text EXCEPT ![c] = text'[c]]
      /\ text'[c] = guidance[Key(c)].text
      /\ isGenai' = [isGenai EXCEPT ![c] = isGenai'[c]]
      /\ isGenai'[c] = guidance[Key(c)].isGenai
      /\ UNCHANGED <<snapshot, pending, guidance, request, crowded, route>>
      /\ stage[c] = "looking" /\ stage' = [stage EXCEPT ![c] = "200"]
  BY DEF Hit, GuideInv, Shape, feedVars
<1>3. TextFits(c)'
  BY <1>1, <1>2 DEF TextFits, EntryFits, Key
<1> QED
  BY <1>2, <1>3, CallStep DEF Planned, Written

LEMMA MissKeeps ==
    ASSUME GuideInv, NEW c \in Calls, Miss(c)
    PROVE  GuideInv'
<1>1. UNCHANGED <<snapshot, pending, guidance, request, crowded, route>>
  BY DEF Miss, feedVars
<1>2. CASE genaiEnabled
  <2>1. /\ stage[c] = "looking"
        /\ stage' = [stage EXCEPT ![c] = "asking"]
        /\ UNCHANGED <<text, isGenai>>
    BY <1>2 DEF Miss
  <2>2. /\ text' = [text EXCEPT ![c] = text'[c]]
        /\ isGenai' = [isGenai EXCEPT ![c] = isGenai'[c]]
        /\ ~isGenai'[c]
    BY <2>1 DEF GuideInv, Shape, Written
  <2> QED
    BY <1>1, <2>1, <2>2, CallStep DEF Planned, Written
<1>3. CASE ~genaiEnabled
  BY <1>1, <1>3, FallbackKeeps DEF Miss
<1> QED
  BY <1>2, <1>3

LEMMA AnswerKeeps ==
    ASSUME GuideInv, NEW c \in Calls, GeminiAnswers(c)
    PROVE  GuideInv'
<1>1. /\ stage[c] = "asking" /\ stage' = [stage EXCEPT ![c] = "storing"]
      /\ UNCHANGED <<snapshot, pending, guidance, request, crowded, route>>
      /\ text' = [text EXCEPT ![c] = text'[c]]
      /\ text'[c] = TextFor(c, "gemini")
      /\ isGenai' = [isGenai EXCEPT ![c] = isGenai'[c]]
      /\ isGenai'[c] = TRUE
  BY DEF GeminiAnswers, GuideInv, Shape, feedVars
<1>2. RouteFits(c)
  BY <1>1 DEF GuideInv, Planned
<1>3. TextFits(c)'
  BY <1>1, <1>2, TextForFits DEF TextFits
<1> QED
  BY <1>1, <1>3, CallStep DEF Planned, Written

LEMMA StoreKeeps ==
    ASSUME GuideInv, NEW c \in Calls, Store(c)
    PROVE  GuideInv'
<1>1. /\ stage[c] = "storing" /\ stage' = [stage EXCEPT ![c] = "200"]
      /\ UNCHANGED <<snapshot, pending, request, crowded, route, text, isGenai>>
  BY DEF Store, feedVars
<1>2. TextFits(c)
  BY <1>1 DEF GuideInv, Written
<1>3. Shape'
  BY <1>1 DEF GuideInv, Shape
<1>4. /\ stage'[c] = "200"
      /\ \A d \in Calls \ {c} : stage'[d] = stage[d]
  BY <1>1 DEF GuideInv, Shape
<1>5. /\ \A d \in Calls : stage'[d] \in Planned => RouteFits(d)'
      /\ \A d \in Calls : stage'[d] \in Written => TextFits(d)'
      /\ \A d \in Calls : stage'[d] \notin Written => ~isGenai'[d]
  BY <1>1, <1>4 DEF GuideInv, RouteFits, TextFits, Planned, Written
<1>6. ASSUME NEW k \in DOMAIN guidance'
      PROVE  EntryFits(k)'
  <2>1. CASE UNCHANGED guidance
    BY <1>6, <2>1 DEF GuideInv, EntryFits
  <2>2. CASE guidance' = [l \in DOMAIN guidance \cup {Key(c)} |->
                            IF l = Key(c) THEN [text |-> text[c], isGenai |-> isGenai[c]]
                            ELSE guidance[l]]
    <3>1. CASE k = Key(c)
      <4>1. guidance'[k] = [text |-> text[c], isGenai |-> isGenai[c]]
        BY <2>2, <3>1
      <4> QED
        BY <1>2, <3>1, <4>1 DEF EntryFits, TextFits, Key
    <3>2. CASE k # Key(c)
      <4>1. k \in DOMAIN guidance /\ guidance'[k] = guidance[k]
        BY <1>6, <2>2, <3>2
      <4> QED
        BY <4>1 DEF GuideInv, EntryFits
    <3> QED
      BY <3>1, <3>2
  <2> QED
    BY <2>1, <2>2 DEF Store
<1> QED
  BY <1>3, <1>5, <1>6 DEF GuideInv

LEMMA ExpireKeeps ==
    ASSUME GuideInv, Expire
    PROVE  GuideInv'
<1>1. UNCHANGED <<pending, callVars>> /\ snapshot' \in {snapshot, None}
  BY DEF Expire
<1>2. CASE UNCHANGED guidance
  BY <1>1, <1>2, OthersKeep DEF GuideInv, Shape
<1>3. CASE \E k \in DOMAIN guidance :
             guidance' = [l \in DOMAIN guidance \ {k} |-> guidance[l]]
  <2>1. \A k \in DOMAIN guidance' : k \in DOMAIN guidance /\ guidance'[k] = guidance[k]
    BY <1>3
  <2>2. \A k \in DOMAIN guidance' : EntryFits(k)'
    BY <2>1 DEF GuideInv, EntryFits
  <2> QED
    BY <1>1, <2>2 DEF GuideInv, Shape, callVars, RouteFits, TextFits
<1> QED
  BY <1>2, <1>3 DEF Expire

LEMMA GuidedStep == GuideInv /\ [Next]_guidedVars => GuideInv'
<1> SUFFICES ASSUME GuideInv, [Next]_guidedVars
             PROVE  GuideInv'
  OBVIOUS
<1>1. ASSUME NEW i \in Ingests, Compute(i)
      PROVE  GuideInv'
  BY <1>1, OthersKeep DEF Compute, GuideInv, Shape
<1>2. ASSUME NEW i \in Ingests, CacheSnapshot(i)
      PROVE  GuideInv'
  BY <1>2, OthersKeep DEF CacheSnapshot, GuideInv, Shape
<1>3. ASSUME NEW c \in Calls, TimeOut(c)
      PROVE  GuideInv'
  BY <1>3, FallbackKeeps DEF TimeOut, feedVars
<1>4. ASSUME NEW c \in Calls, GeminiFails(c)
      PROVE  GuideInv'
  BY <1>4, FallbackKeeps DEF GeminiFails, feedVars
<1>5. ASSUME NEW c \in Calls, GeminiTooLate(c)
      PROVE  GuideInv'
  BY <1>5, OthersKeep DEF GeminiTooLate, feedVars, GuideInv, Shape
<1>6. CASE StartThread
  BY <1>6, OthersKeep DEF StartThread, feedVars, GuideInv, Shape
<1>7. CASE UNCHANGED guidedVars
  BY <1>7, OthersKeep DEF guidedVars, callVars, GuideInv, Shape
<1> QED
  BY <1>1, <1>2, <1>3, <1>4, <1>5, <1>6, <1>7, PlanKeeps, HitKeeps, MissKeeps, AnswerKeeps,
     StoreKeeps, ExpireKeeps DEF Next

LEMMA GuidedInvariant == Spec => []GuideInv
BY GuidedStart, GuidedStep, PTL DEF Spec

\* A fan who is answered gets a text in the language and between the zones of
\* the request, about the crowd the route was planned around, also when another
\* request wrote it (genai_navigator.py, the cache key).
THEOREM TextsExplainTheCrowd == Spec => []ExplainsItsCrowd
<1>1. GuideInv => ExplainsItsCrowd
  BY DEF GuideInv, ExplainsItsCrowd, RouteFits, TextFits, Planned, Written
<1> QED
  BY <1>1, GuidedInvariant, PTL

\* A text is flagged as Gemini's if and only if Gemini wrote it.
THEOREM FlagsAreHonest == Spec => []FlagIsHonest
<1>1. GuideInv => FlagIsHonest
  BY DEF GuideInv, FlagIsHonest, TextFits, Written
<1> QED
  BY <1>1, GuidedInvariant, PTL

-----------------------------------------------------------------------------
\* Levels and snapshots.

LEMMA LevelsAreLevels ==
    ASSUME NEW z, NEW n
    PROVE  LevelOf(z, n) \in Levels
<1> DEFINE T == {t \in {40, 70, 90} : 100 * Clamped(z, n) >= t * CapacityOf(z)}
<1>1. IsFiniteSet({40, 70, 90}) /\ Cardinality({40, 70, 90}) <= 3
  <2>1. IsFiniteSet({40}) /\ Cardinality({40}) = 1
    BY FS_Singleton
  <2>2. IsFiniteSet({40} \cup {70}) /\ Cardinality({40} \cup {70}) = 2
    BY <2>1, FS_AddElement
  <2>3. IsFiniteSet(({40} \cup {70}) \cup {90}) /\ Cardinality(({40} \cup {70}) \cup {90}) = 3
    BY <2>2, FS_AddElement
  <2>4. ({40} \cup {70}) \cup {90} = {40, 70, 90}
    OBVIOUS
  <2> QED
    BY <2>3, <2>4
<1>2. T \in SUBSET {40, 70, 90}
  OBVIOUS
<1> HIDE DEF T
<1>3. IsFiniteSet(T) /\ Cardinality(T) <= Cardinality({40, 70, 90})
  BY <1>1, <1>2, FS_Subset
<1>4. Cardinality(T) \in Nat /\ Cardinality({40, 70, 90}) \in Nat
  BY <1>1, <1>3, FS_CardinalityType
<1>5. Cardinality(T) \in 0 .. 3
  BY <1>1, <1>3, <1>4
<1> QED
  BY <1>5 DEF LevelOf, Levels, T

\* The greatest of some levels.
LEMMA MaxOfLevels ==
    ASSUME NEW T \in SUBSET Levels, T # {}
    PROVE  Max(T) \in T /\ \A l \in T : Max(T) >= l
<1>1. \E x \in T : \A l \in T : x >= l
  <2>1. \A l \in T : l \in 0 .. 3
    BY DEF Levels
  <2>2. CASE 3 \in T
    BY <2>1, <2>2
  <2>3. CASE 3 \notin T /\ 2 \in T
    BY <2>1, <2>3
  <2>4. CASE 3 \notin T /\ 2 \notin T /\ 1 \in T
    BY <2>1, <2>4
  <2>5. CASE 3 \notin T /\ 2 \notin T /\ 1 \notin T
    BY <2>1, <2>5
  <2> QED
    BY <2>2, <2>3, <2>4, <2>5
<1> QED
  BY <1>1, Zenon DEF Max

LEMMA SnapshotShape ==
    ASSUME NEW s \in Snapshots
    PROVE  /\ DOMAIN s.levels \subseteq ReportedZones
           /\ \A z \in DOMAIN s.levels : s.levels[z] \in Levels
           /\ CriticalZones(s) \subseteq ReportedZones
<1>1. PICK r \in Reports : s = SnapshotOf(r.counts, r.event)
  BY DEF Snapshots
<1>2. s.levels = [z \in DOMAIN r.counts |-> LevelOf(z, r.counts[z])]
  BY <1>1 DEF SnapshotOf
<1>3. \A z \in DOMAIN s.levels : s.levels[z] \in Levels
  BY <1>2, LevelsAreLevels
<1>4. DOMAIN s.levels \subseteq ReportedZones
  BY <1>2 DEF ReportedZones
<1> QED
  BY <1>3, <1>4 DEF CriticalZones

\* The analytics never play a zone down, in any snapshot they compute.
LEMMA NothingPlayedDown ==
    ASSUME NEW s \in Snapshots, NEW z \in DOMAIN s.levels
    PROVE  /\ s.levels[z] >= HIGH => z \in DOMAIN Bottlenecks(s)
           /\ z \in DOMAIN Bottlenecks(s) => Bottlenecks(s)[z] >= s.levels[z]
           /\ OverallCongestion(s) >= s.levels[z]
<1>1. s.levels[z] \in Levels
  BY SnapshotShape
<1>2. ASSUME s.levels[z] >= HIGH
      PROVE  z \in Seeds(s) /\ SurgeScore(s, z) = 100
  BY <1>1, <1>2 DEF Seeds, SurgeScore, Levels, HIGH, CRITICAL
<1>3. s.levels[z] >= HIGH => z \in DOMAIN Bottlenecks(s)
  BY <1>2 DEF Bottlenecks
<1>4. ASSUME z \in DOMAIN Bottlenecks(s)
      PROVE  Bottlenecks(s)[z] >= s.levels[z]
  <2>1. Bottlenecks(s)[z] = IF SurgeScore(s, z) >= 80 THEN CRITICAL
                            ELSE IF SurgeScore(s, z) >= 50 THEN HIGH ELSE MODERATE
    BY <1>4 DEF Bottlenecks
  <2>2. CASE s.levels[z] >= HIGH
    BY <1>1, <1>2, <2>1, <2>2 DEF Levels, CRITICAL
  <2>3. CASE ~(s.levels[z] >= HIGH)
    BY <1>1, <2>1, <2>3 DEF Levels, MODERATE, HIGH, CRITICAL
  <2> QED
    BY <2>2, <2>3
<1>5. OverallCongestion(s) >= s.levels[z]
  <2> DEFINE T == {LOW} \cup {s.levels[y] : y \in DOMAIN s.levels}
  <2>1. T \in SUBSET Levels /\ s.levels[z] \in T
    BY SnapshotShape DEF Levels, LOW
  <2> HIDE DEF T
  <2>2. Max(T) >= s.levels[z]
    BY <2>1, MaxOfLevels
  <2> QED
    BY <2>2 DEF OverallCongestion, T
<1> QED
  BY <1>3, <1>4, <1>5

\* No zone of the cached snapshot is predicted to be emptier than it is
\* reported, and no crowded zone is missing from the bottlenecks, though surges
\* from several seeds overlap (crowd_analytics.py, _predict_bottlenecks).
THEOREM CrowdIsNotPlayedDown == Spec => []NoZoneIsPlayedDown
<1>1. GuideInv => NoZoneIsPlayedDown
  BY NothingPlayedDown DEF GuideInv, Shape, NoZoneIsPlayedDown
<1> QED
  BY <1>1, GuidedInvariant, PTL

-----------------------------------------------------------------------------
\* Types.

\* A call holds one place in the pool at most, in its queue or in a thread, and
\* a thread may outlive the call's wait but not precede it.
Pool ==
    /\ queue \in Seq(Calls)
    /\ \A i, j \in DOMAIN queue : queue[i] = queue[j] => i = j
    /\ \A i \in DOMAIN queue : stage[queue[i]] = "asking" /\ queue[i] \notin threads
    /\ threads \subseteq Calls /\ IsFiniteSet(threads)
    /\ Cardinality(threads) <= MaxThreads
    /\ \A c \in threads : stage[c] \in {"asking", "storing", "200"}

Stages == {"loading", "looking", "asking", "storing"} \cup Answered

EntryTyped(k) == guidance[k].text \in Text /\ guidance[k].isGenai \in BOOLEAN

Typed ==
    /\ begun \subseteq Ingests
    /\ genaiEnabled \in BOOLEAN
    /\ \A k \in DOMAIN guidance : EntryTyped(k)
    /\ stage \in [Calls -> Stages]
    /\ crowded \in [Calls -> SUBSET ReportedZones]
    /\ route \in [Calls -> Graph!Routes \cup {<<>>}]
    /\ text \in [Calls -> Text \cup {None}]
    /\ isGenai \in [Calls -> BOOLEAN]
    /\ \A c \in Calls : stage[c] \in Planned => route[c] \in Graph!Routes
    /\ \A c \in Calls : stage[c] \in Written => text[c] \in Text

LEMMA TextForTyped ==
    ASSUME GuideInv, Typed, NEW c \in Calls, stage[c] \in Planned,
           NEW writer \in {"gemini", "template"}
    PROVE  TextFor(c, writer) \in Text
<1>1. request[c].language \in STRING
  BY GuidedRouteAssumption DEF GuideInv, Shape, Request
<1>2. route[c] \in Graph!Routes /\ crowded[c] \subseteq ReportedZones
  BY DEF Typed
<1> QED
  BY <1>1, <1>2 DEF TextFor, Text

\* A step of one call that changes its stage, its text and its flag.
LEMMA CallTyped ==
    ASSUME Typed, NEW c \in Calls, NEW newStage \in Planned, stage[c] \in Planned,
           stage' = [stage EXCEPT ![c] = newStage],
           UNCHANGED <<begun, guidance, genaiEnabled, crowded, route>>,
           UNCHANGED text \/ \E t \in Text : text' = [text EXCEPT ![c] = t],
           UNCHANGED isGenai \/ \E b \in BOOLEAN : isGenai' = [isGenai EXCEPT ![c] = b],
           newStage \in Written => text'[c] \in Text
    PROVE  Typed'
<1>1. newStage \in Stages
  BY DEF Planned, Stages, Answered
<1>2. /\ stage' \in [Calls -> Stages]
      /\ text' \in [Calls -> Text \cup {None}]
      /\ isGenai' \in [Calls -> BOOLEAN]
  BY <1>1 DEF Typed
<1>3. /\ stage'[c] = newStage
      /\ \A d \in Calls \ {c} : stage'[d] = stage[d] /\ text'[d] = text[d]
  BY DEF Typed
<1>4. ASSUME NEW d \in Calls, stage'[d] \in Planned
      PROVE  route'[d] \in Graph!Routes
  BY <1>3, <1>4 DEF Typed
<1>5. ASSUME NEW d \in Calls, stage'[d] \in Written
      PROVE  text'[d] \in Text
  BY <1>3, <1>5 DEF Typed
<1> QED
  BY <1>2, <1>4, <1>5 DEF Typed, EntryTyped

\* The stage of a call that has no place in the pool, or only a thread it may
\* keep, does not matter to the pool.
LEMMA PoolOfOthers ==
    ASSUME Pool, Typed, NEW c \in Calls, NEW newStage,
           stage' = [stage EXCEPT ![c] = newStage],
           \A i \in DOMAIN queue : queue[i] # c,
           c \in threads' => newStage \in {"asking", "storing", "200"},
           queue' = queue, threads' \subseteq threads
    PROVE  Pool'
<1>1. \A d \in Calls : d # c => stage'[d] = stage[d]
  BY DEF Typed
<1>2. stage'[c] = newStage
  BY DEF Typed
<1>3. \A i \in DOMAIN queue : queue[i] \in Calls
  BY DEF Pool
<1>4. IsFiniteSet(threads') /\ Cardinality(threads') <= MaxThreads
  <2>1. IsFiniteSet(threads') /\ Cardinality(threads') <= Cardinality(threads)
    BY FS_Subset DEF Pool
  <2>2. Cardinality(threads') \in Nat /\ Cardinality(threads) \in Nat
    BY <2>1, FS_CardinalityType DEF Pool
  <2> QED
    BY <2>1, <2>2, GuidedRouteAssumption DEF Pool
<1>5. \A i \in DOMAIN queue : stage'[queue[i]] = "asking" /\ queue[i] \notin threads'
  BY <1>1, <1>3 DEF Pool
<1>6. \A d \in threads' : stage'[d] \in {"asking", "storing", "200"}
  BY <1>1, <1>2 DEF Pool
<1> QED
  BY <1>4, <1>5, <1>6 DEF Pool

\* A queue without one of its places.
LEMMA Removed ==
    ASSUME NEW q \in Seq(Calls), NEW i \in DOMAIN q
    PROVE  /\ RemoveAt(q, i) \in Seq(Calls)
           /\ Len(RemoveAt(q, i)) = Len(q) - 1
           /\ \A k \in 1 .. Len(q) - 1 :
                RemoveAt(q, i)[k] = IF k < i THEN q[k] ELSE q[k + 1]
<1>1. Len(q) \in Nat /\ i \in 1 .. Len(q) /\ DOMAIN q = 1 .. Len(q)
  OBVIOUS
<1> DEFINE a == SubSeq(q, 1, i - 1)
           b == SubSeq(q, i + 1, Len(q))
<1>2. a \in Seq(Calls) /\ Len(a) = i - 1 /\ \A k \in 1 .. i - 1 : a[k] = q[k]
  BY <1>1
<1>3. b \in Seq(Calls) /\ Len(b) = Len(q) - i
      /\ \A k \in 1 .. Len(q) - i : b[k] = q[i + k]
  <2>1. b \in Seq(Calls) /\ Len(b) = Len(q) - i
    BY <1>1
  <2>2. ASSUME NEW k \in 1 .. Len(q) - i
        PROVE  b[k] = q[i + k]
    <3>1. k \in 1 .. Len(q) - (i + 1) + 1 /\ (i + 1) + k - 1 = i + k
      BY <1>1
    <3>2. b[k] = q[(i + 1) + k - 1]
      BY <1>1, <3>1
    <3> QED
      BY <3>1, <3>2
  <2> QED
    BY <2>1, <2>2
<1>4. RemoveAt(q, i) = a \o b
  BY DEF RemoveAt
<1> HIDE DEF a, b
<1>5. a \o b \in Seq(Calls) /\ Len(a \o b) = Len(q) - 1
  <2>1. a \o b \in Seq(Calls)
    BY <1>2, <1>3
  <2>2. Len(a \o b) = Len(a) + Len(b)
    <3>1. \A s, t \in Seq(Calls) : Len(s \o t) = Len(s) + Len(t)
      OBVIOUS
    <3> QED
      BY <1>2, <1>3, <3>1
  <2>3. \A m, n \in Nat : (m - 1) + (n - m) = n - 1
    OBVIOUS
  <2> QED
    BY <1>1, <1>2, <1>3, <2>1, <2>2, <2>3
<1>6. ASSUME NEW k \in 1 .. Len(q) - 1
      PROVE  (a \o b)[k] = IF k < i THEN q[k] ELSE q[k + 1]
  <2>1. CASE k < i
    BY <1>1, <1>2, <1>3, <2>1
  <2>2. CASE ~(k < i)
    <3>1. k - (i - 1) \in 1 .. Len(q) - i /\ i + (k - (i - 1)) = k + 1
      BY <1>1, <2>2
    <3>2. (a \o b)[k] = b[k - (i - 1)]
      BY <1>1, <1>2, <1>3, <2>2
    <3> QED
      BY <1>3, <2>2, <3>1, <3>2
  <2> QED
    BY <2>1, <2>2
<1> QED
  BY <1>4, <1>5, <1>6

LEMMA StartTyped == Init => Typed /\ Pool
<1> SUFFICES ASSUME Init
             PROVE  Typed /\ Pool
  OBVIOUS
<1>1. Typed
  BY DEF Init, Typed, Stages, Planned, Written
<1>2. IsFiniteSet({}) /\ Cardinality({}) = 0
  BY FS_EmptySet
<1>3. <<>> \in Seq(Calls) /\ DOMAIN <<>> = {}
  OBVIOUS
<1>4. Pool
  BY <1>2, <1>3, GuidedRouteAssumption DEF Init, Pool
<1> QED
  BY <1>1, <1>4

LEMMA PlanTyped ==
    ASSUME GuideInv, Typed, Pool, NEW c \in Calls, Plan(c)
    PROVE  Typed' /\ Pool'
<1>1. /\ stage[c] = "loading"
      /\ UNCHANGED <<begun, guidance, genaiEnabled, queue, threads, request, text, isGenai>>
  BY DEF Plan, feedVars, poolVars
<1>2. PICK s \in {snapshot, None} :
        /\ crowded' = [crowded EXCEPT ![c] = CrowdedIn(s)]
        /\ \/ stage' = [stage EXCEPT ![c] = "422"] /\ route' = route
           \/ stage' = [stage EXCEPT ![c] = "503"] /\ route' = route
           \/ \E r \in RoutesThrough[s][request[c]] :
                /\ stage' = [stage EXCEPT ![c] = "looking"]
                /\ route' = [route EXCEPT ![c] = r]
  BY DEF Plan
<1>3. s \in Snapshots \cup {None} /\ request[c] \in Requests
  BY DEF GuideInv, Shape
<1>4. CrowdedIn(s) \subseteq ReportedZones
  BY <1>3, SnapshotShape DEF CrowdedIn
<1>5. \A r \in RoutesThrough[s][request[c]] : r \in Graph!Routes
  BY <1>3 DEF RoutesThrough, Graph!CheapestOf, Graph!RoutesFor
<1>6. PICK v \in {"422", "503", "looking"} : stage' = [stage EXCEPT ![c] = v]
  BY <1>2
<1>7. Typed'
  <2>1. v \in Stages
    BY <1>6 DEF Stages, Answered
  <2>2. /\ stage' \in [Calls -> Stages]
        /\ crowded' \in [Calls -> SUBSET ReportedZones]
        /\ route' \in [Calls -> Graph!Routes \cup {<<>>}]
    BY <1>2, <1>4, <1>5, <1>6, <2>1 DEF Typed
  <2>3. stage'[c] = "looking" => route'[c] \in Graph!Routes
    BY <1>2, <1>5, <1>6 DEF Typed
  <2>4. stage'[c] \in {"422", "503", "looking"}
    BY <1>6 DEF Typed
  <2>5. \A d \in Calls \ {c} : stage'[d] = stage[d] /\ route'[d] = route[d]
    BY <1>2, <1>6 DEF Typed
  <2>6. \A d \in Calls : stage'[d] \in Planned => route'[d] \in Graph!Routes
    BY <2>3, <2>4, <2>5 DEF Typed, Planned
  <2>7. \A d \in Calls : stage'[d] \in Written => text'[d] \in Text
    BY <1>1, <2>4, <2>5 DEF Typed, Written
  <2> QED
    BY <1>1, <2>2, <2>6, <2>7 DEF Typed, EntryTyped
<1>8. Pool'
  <2>1. c \notin threads /\ \A i \in DOMAIN queue : queue[i] # c
    BY <1>1 DEF Pool
  <2> QED
    BY <1>1, <1>6, <2>1, PoolOfOthers
<1> QED
  BY <1>7, <1>8

LEMMA HitTyped ==
    ASSUME GuideInv, Typed, Pool, NEW c \in Calls, Hit(c)
    PROVE  Typed' /\ Pool'
<1>1. /\ stage[c] = "looking" /\ stage' = [stage EXCEPT ![c] = "200"]
      /\ UNCHANGED <<begun, guidance, genaiEnabled, queue, threads, crowded, route>>
      /\ text' = [text EXCEPT ![c] = guidance[Key(c)].text]
      /\ isGenai' = [isGenai EXCEPT ![c] = guidance[Key(c)].isGenai]
  BY DEF Hit, feedVars, poolVars
<1>2. guidance[Key(c)].text \in Text /\ guidance[Key(c)].isGenai \in BOOLEAN
  BY DEF Hit, Typed, EntryTyped
<1>3. text'[c] \in Text
  BY <1>1, <1>2 DEF Typed
<1>4. Typed'
  BY <1>1, <1>2, <1>3, CallTyped DEF Planned
<1>5. Pool'
  <2>1. c \notin threads /\ \A i \in DOMAIN queue : queue[i] # c
    BY <1>1 DEF Pool
  <2> QED
    BY <1>1, <2>1, PoolOfOthers
<1> QED
  BY <1>4, <1>5

\* The template, with whatever happens to the pool.
LEMMA FallbackTyped ==
    ASSUME GuideInv, Typed, NEW c \in Calls, stage[c] \in {"looking", "asking"}, Fallback(c),
           UNCHANGED <<begun, guidance, genaiEnabled, crowded, route>>
    PROVE  Typed'
<1>1. TextFor(c, "template") \in Text
  BY TextForTyped DEF Planned
<1>2. /\ stage' = [stage EXCEPT ![c] = "storing"]
      /\ text' = [text EXCEPT ![c] = TextFor(c, "template")] /\ isGenai' = isGenai
  BY DEF Fallback
<1>3. text'[c] \in Text
  BY <1>1, <1>2 DEF Typed
<1> QED
  BY <1>1, <1>2, <1>3, CallTyped DEF Planned

LEMMA MissTyped ==
    ASSUME GuideInv, Typed, Pool, NEW c \in Calls, Miss(c)
    PROVE  Typed' /\ Pool'
<1>1. /\ stage[c] = "looking"
      /\ UNCHANGED <<begun, guidance, genaiEnabled, threads, crowded, route>>
  BY DEF Miss, feedVars
<1>2. c \notin threads /\ \A i \in DOMAIN queue : queue[i] # c
  BY <1>1 DEF Pool
<1>3. CASE genaiEnabled
  <2>1. /\ stage' = [stage EXCEPT ![c] = "asking"]
        /\ queue' = Append(queue, c)
        /\ UNCHANGED <<text, isGenai>>
    BY <1>3 DEF Miss
  <2>2. Typed'
    BY <1>1, <2>1, CallTyped DEF Planned, Written
  <2>3. /\ queue' \in Seq(Calls)
        /\ DOMAIN queue' = 1 .. Len(queue) + 1 /\ DOMAIN queue = 1 .. Len(queue)
        /\ Len(queue) \in Nat
        /\ queue'[Len(queue) + 1] = c
        /\ \A i \in DOMAIN queue : queue'[i] = queue[i]
    BY <2>1 DEF Pool
  <2>4. \A i \in DOMAIN queue' : i \in DOMAIN queue \/ i = Len(queue) + 1
    BY <2>3
  <2>5. stage'[c] = "asking" /\ \A d \in Calls \ {c} : stage'[d] = stage[d]
    BY <2>1 DEF Typed
  <2>6. \A i \in DOMAIN queue : queue[i] \in Calls \ {c}
    BY <1>2 DEF Pool
  <2>7. ASSUME NEW i \in DOMAIN queue', NEW j \in DOMAIN queue', queue'[i] = queue'[j]
        PROVE  i = j
    BY <1>2, <2>3, <2>4, <2>7 DEF Pool
  <2>8. ASSUME NEW i \in DOMAIN queue'
        PROVE  stage'[queue'[i]] = "asking" /\ queue'[i] \notin threads
    <3>1. CASE i = Len(queue) + 1
      BY <1>2, <2>3, <2>5, <3>1
    <3>2. CASE i \in DOMAIN queue
      BY <2>3, <2>5, <2>6, <3>2 DEF Pool
    <3> QED
      BY <2>4, <3>1, <3>2
  <2>9. \A d \in threads : stage'[d] \in {"asking", "storing", "200"}
    BY <1>2, <2>5 DEF Pool
  <2>10. Pool'
    BY <1>1, <2>3, <2>7, <2>8, <2>9 DEF Pool
  <2> QED
    BY <2>2, <2>10
<1>4. CASE ~genaiEnabled
  <2>1. Fallback(c) /\ queue' = queue
    BY <1>4 DEF Miss
  <2>2. Typed'
    BY <1>1, <2>1, FallbackTyped
  <2>3. stage' = [stage EXCEPT ![c] = "storing"]
    BY <2>1 DEF Fallback
  <2> QED
    BY <1>1, <1>2, <2>1, <2>2, <2>3, PoolOfOthers
<1> QED
  BY <1>3, <1>4

LEMMA StartThreadTyped ==
    ASSUME Typed, Pool, StartThread
    PROVE  Typed' /\ Pool'
<1>1. /\ queue # <<>> /\ Cardinality(threads) < MaxThreads
      /\ threads' = threads \cup {Head(queue)} /\ queue' = Tail(queue)
      /\ UNCHANGED <<begun, guidance, genaiEnabled, stage, crowded, route, text, isGenai>>
  BY DEF StartThread, feedVars, callVars
<1>2. /\ queue \in Seq(Calls) /\ Len(queue) \in Nat \ {0} /\ DOMAIN queue = 1 .. Len(queue)
      /\ Head(queue) = queue[1] /\ 1 \in DOMAIN queue
  BY <1>1 DEF Pool
<1>3. /\ queue' \in Seq(Calls) /\ DOMAIN queue' = 1 .. Len(queue) - 1
      /\ \A i \in 1 .. Len(queue) - 1 : queue'[i] = queue[i + 1] /\ i + 1 \in DOMAIN queue
  BY <1>1, <1>2
<1>4. Head(queue) \in Calls /\ stage[Head(queue)] = "asking"
  BY <1>2 DEF Pool
<1>5. IsFiniteSet(threads') /\ Cardinality(threads') <= MaxThreads
  <2>1. Cardinality(threads) \in Nat
    BY FS_CardinalityType DEF Pool
  <2>2. IsFiniteSet(threads') /\ Cardinality(threads') <= Cardinality(threads) + 1
    <3>1. /\ IsFiniteSet(threads \cup {Head(queue)})
          /\ Cardinality(threads \cup {Head(queue)})
               = IF Head(queue) \in threads THEN Cardinality(threads)
                 ELSE Cardinality(threads) + 1
      BY FS_AddElement DEF Pool
    <3> QED
      BY <1>1, <2>1, <3>1
  <2>3. Cardinality(threads') \in Nat
    BY <2>2, FS_CardinalityType
  <2> QED
    BY <1>1, <2>1, <2>2, <2>3, GuidedRouteAssumption
<1>6. ASSUME NEW i \in DOMAIN queue', NEW j \in DOMAIN queue', queue'[i] = queue'[j]
      PROVE  i = j
  <2>1. queue[i + 1] = queue[j + 1] /\ i + 1 \in DOMAIN queue /\ j + 1 \in DOMAIN queue
    BY <1>3, <1>6
  <2>2. i + 1 = j + 1 /\ i \in Int /\ j \in Int
    BY <1>3, <2>1 DEF Pool
  <2> QED
    BY <2>2
<1>7. ASSUME NEW i \in DOMAIN queue'
      PROVE  stage[queue'[i]] = "asking" /\ queue'[i] \notin threads'
  <2>1. queue'[i] = queue[i + 1] /\ i + 1 \in DOMAIN queue /\ i + 1 # 1
    BY <1>3
  <2>2. queue[i + 1] # queue[1]
    BY <1>2, <2>1 DEF Pool
  <2> QED
    BY <1>1, <1>2, <2>1, <2>2 DEF Pool
<1>8. Pool'
  BY <1>1, <1>3, <1>4, <1>5, <1>6, <1>7 DEF Pool
<1> QED
  BY <1>1, <1>8 DEF Typed, EntryTyped

\* Gemini answers or fails: the call is over, and its thread is free.
LEMMA GeminiTyped ==
    ASSUME GuideInv, Typed, Pool, NEW c \in Calls, GeminiAnswers(c) \/ GeminiFails(c)
    PROVE  Typed' /\ Pool'
<1>1. /\ c \in threads /\ stage[c] = "asking" /\ stage' = [stage EXCEPT ![c] = "storing"]
      /\ threads' = threads \ {c} /\ queue' = queue
      /\ UNCHANGED <<begun, guidance, genaiEnabled, crowded, route>>
  BY DEF GeminiAnswers, GeminiFails, Fallback, feedVars
<1>2. Typed'
  <2>1. CASE GeminiAnswers(c)
    <3>1. TextFor(c, "gemini") \in Text
      BY <1>1, TextForTyped DEF Planned
    <3>2. /\ text' = [text EXCEPT ![c] = TextFor(c, "gemini")]
          /\ isGenai' = [isGenai EXCEPT ![c] = TRUE]
      BY <2>1 DEF GeminiAnswers
    <3>3. text'[c] \in Text
      BY <3>1, <3>2 DEF Typed
    <3> QED
      BY <1>1, <3>1, <3>2, <3>3, CallTyped DEF Planned
  <2>2. CASE GeminiFails(c)
    BY <1>1, <2>2, FallbackTyped DEF GeminiFails
  <2> QED
    BY <2>1, <2>2
<1>3. \A i \in DOMAIN queue : queue[i] # c
  BY <1>1 DEF Pool
<1> QED
  BY <1>1, <1>2, <1>3, PoolOfOthers

LEMMA TooLateTyped ==
    ASSUME Typed, Pool, NEW c \in Calls, GeminiTooLate(c)
    PROVE  Typed' /\ Pool'
<1>1. /\ c \in threads /\ threads' = threads \ {c} /\ queue' = queue
      /\ UNCHANGED <<begun, guidance, genaiEnabled, stage, crowded, route, text, isGenai>>
  BY DEF GeminiTooLate, feedVars, callVars
<1>2. \A i \in DOMAIN queue : queue[i] # c
  BY <1>1 DEF Pool
<1>3. stage' = [stage EXCEPT ![c] = stage[c]] /\ stage[c] \in {"asking", "storing", "200"}
  BY <1>1 DEF Typed, Pool
<1>4. Pool'
  BY <1>1, <1>2, <1>3, PoolOfOthers
<1> QED
  BY <1>1, <1>4 DEF Typed, EntryTyped

LEMMA TimeOutTyped ==
    ASSUME GuideInv, Typed, Pool, NEW c \in Calls, TimeOut(c)
    PROVE  Typed' /\ Pool'
<1>1. /\ stage[c] = "asking" /\ Fallback(c) /\ threads' = threads
      /\ stage' = [stage EXCEPT ![c] = "storing"]
      /\ UNCHANGED <<begun, guidance, genaiEnabled, crowded, route>>
  BY DEF TimeOut, Fallback, feedVars
<1>2. Typed'
  BY <1>1, FallbackTyped
<1>3. CASE c \notin ToSet(queue) /\ UNCHANGED queue
  <2>1. \A i \in DOMAIN queue : queue[i] # c
    BY <1>3 DEF ToSet
  <2> QED
    BY <1>1, <1>2, <1>3, <2>1, PoolOfOthers
<1>4. ASSUME NEW i \in DOMAIN queue, queue[i] = c, queue' = RemoveAt(queue, i)
      PROVE  Pool'
  <2> DEFINE Old(k) == IF k < i THEN k ELSE k + 1
  <2>1. /\ queue' \in Seq(Calls) /\ Len(queue') = Len(queue) - 1
        /\ \A k \in 1 .. Len(queue) - 1 : queue'[k] = queue[Old(k)]
    BY <1>4, Removed DEF Pool
  <2>2. /\ DOMAIN queue = 1 .. Len(queue) /\ Len(queue) \in Nat
        /\ DOMAIN queue' = 1 .. Len(queue) - 1
    BY <2>1 DEF Pool
  <2>3. /\ \A k \in DOMAIN queue' : k \in Int /\ Old(k) \in DOMAIN queue /\ Old(k) # i
        /\ \A k, l \in DOMAIN queue' : Old(k) = Old(l) => k = l
    BY <2>2
  <2> HIDE DEF Old
  <2>4. ASSUME NEW k \in DOMAIN queue', NEW l \in DOMAIN queue', queue'[k] = queue'[l]
        PROVE  k = l
    <3>1. queue[Old(k)] = queue[Old(l)]
      BY <2>1, <2>2, <2>4
    <3>2. Old(k) = Old(l)
      BY <2>3, <3>1 DEF Pool
    <3> QED
      BY <2>3, <3>2
  <2>5. ASSUME NEW k \in DOMAIN queue'
        PROVE  stage'[queue'[k]] = "asking" /\ queue'[k] \notin threads
    <3>1. queue'[k] = queue[Old(k)] /\ Old(k) \in DOMAIN queue
      BY <2>1, <2>2, <2>3
    <3>2. queue[Old(k)] # c
      BY <1>4, <2>3 DEF Pool
    <3>3. queue[Old(k)] \in Calls
      BY <3>1 DEF Pool
    <3> QED
      BY <1>1, <3>1, <3>2, <3>3 DEF Pool, Typed
  <2>6. \A d \in threads : stage'[d] \in {"asking", "storing", "200"}
    BY <1>1 DEF Pool, Typed
  <2> QED
    BY <1>1, <2>1, <2>4, <2>5, <2>6 DEF Pool
<1> QED
  BY <1>2, <1>3, <1>4 DEF TimeOut

LEMMA StoreTyped ==
    ASSUME GuideInv, Typed, Pool, NEW c \in Calls, Store(c)
    PROVE  Typed' /\ Pool'
<1>1. /\ stage[c] = "storing" /\ stage' = [stage EXCEPT ![c] = "200"]
      /\ UNCHANGED <<begun, genaiEnabled, queue, threads, crowded, route, text, isGenai>>
  BY DEF Store, feedVars, poolVars
<1>2. text[c] \in Text /\ isGenai[c] \in BOOLEAN
  BY <1>1 DEF Typed, Written
<1>3. ASSUME NEW k \in DOMAIN guidance'
      PROVE  EntryTyped(k)'
  <2>1. CASE UNCHANGED guidance
    BY <1>3, <2>1 DEF Typed, EntryTyped
  <2>2. CASE guidance' = [l \in DOMAIN guidance \cup {Key(c)} |->
                            IF l = Key(c) THEN [text |-> text[c], isGenai |-> isGenai[c]]
                            ELSE guidance[l]]
    <3>1. CASE k = Key(c)
      <4>1. guidance'[k] = [text |-> text[c], isGenai |-> isGenai[c]]
        BY <2>2, <3>1
      <4> QED
        BY <1>2, <4>1 DEF EntryTyped
    <3>2. CASE k # Key(c)
      <4>1. k \in DOMAIN guidance /\ guidance'[k] = guidance[k]
        BY <1>3, <2>2, <3>2
      <4> QED
        BY <4>1 DEF Typed, EntryTyped
    <3> QED
      BY <3>1, <3>2
  <2> QED
    BY <2>1, <2>2 DEF Store
<1>4. /\ stage' \in [Calls -> Stages] /\ stage'[c] = "200"
      /\ \A d \in Calls \ {c} : stage'[d] = stage[d]
  BY <1>1 DEF Typed, Stages, Answered
<1>5. Typed'
  BY <1>1, <1>3, <1>4 DEF Typed, Planned, Written
<1>6. \A i \in DOMAIN queue : queue[i] # c
  BY <1>1 DEF Pool
<1> QED
  BY <1>1, <1>5, <1>6, PoolOfOthers

LEMMA ExpireTyped ==
    ASSUME Typed, Pool, Expire
    PROVE  Typed' /\ Pool'
<1>1. UNCHANGED <<begun, genaiEnabled, queue, threads, stage, crowded, route, text, isGenai>>
  BY DEF Expire, poolVars, callVars
<1>2. \A k \in DOMAIN guidance' : k \in DOMAIN guidance /\ guidance'[k] = guidance[k]
  BY DEF Expire
<1> QED
  BY <1>1, <1>2 DEF Typed, EntryTyped, Pool

LEMMA TypedStep == GuideInv /\ Typed /\ Pool /\ [Next]_guidedVars => Typed' /\ Pool'
<1> SUFFICES ASSUME GuideInv, Typed, Pool, [Next]_guidedVars
             PROVE  Typed' /\ Pool'
  OBVIOUS
<1>1. ASSUME NEW i \in Ingests, Compute(i) \/ CacheSnapshot(i)
      PROVE  Typed' /\ Pool'
  <2>1. /\ UNCHANGED <<guidance, genaiEnabled, queue, threads, stage, crowded, route, text,
                       isGenai>>
        /\ begun' \subseteq Ingests
    BY <1>1 DEF Compute, CacheSnapshot, poolVars, callVars, Typed
  <2> QED
    BY <2>1 DEF Typed, EntryTyped, Pool
<1>2. CASE UNCHANGED guidedVars
  BY <1>2 DEF guidedVars, Typed, EntryTyped, Pool
<1> QED
  BY <1>1, <1>2, PlanTyped, HitTyped, MissTyped, StartThreadTyped, GeminiTyped, TooLateTyped,
     TimeOutTyped, StoreTyped, ExpireTyped DEF Next

\* Every variable keeps its type.  A call holds one place in the executor's pool
\* at most, no more threads run than it has, and a call that gave up waiting
\* gave up its place in the queue, though not its thread (genai_client.py).
THEOREM GuidedTypes == Spec => []TypeOK
<1>1. GuideInv /\ Typed /\ Pool => TypeOK
  <2> SUFFICES ASSUME GuideInv, Typed, Pool
               PROVE  TypeOK
    OBVIOUS
  <2>1. ToSet(queue) \subseteq {c \in Calls : stage[c] = "asking"} \ threads
    BY DEF Pool, ToSet
  <2> QED
    BY <2>1 DEF TypeOK, GuideInv, Shape, Typed, EntryTyped, Pool, Stages
<1> QED
  BY <1>1, StartTyped, TypedStep, GuidedStart, GuidedStep, PTL DEF Spec

=============================================================================
