------------------------- MODULE CandidateScan_proofs -------------------------
(***************************************************************************)
(* Proofs about CandidateScan, for any videos, uploaders, contents, trusts, *)
(* episodes due and budgets: what a check confirms is supported by what it  *)
(* has read, and it asks no more than it may.                               *)
(***************************************************************************)
EXTENDS CandidateScan, FiniteSetTheorems, TLAPS

-----------------------------------------------------------------------------
(* Lemmas about the evaluation.                                            *)

\* A title with an end mark of the episode, or of a collection, is no strong match.
LEMMA StrongMatch ==
  ASSUME NEW t, NEW n, MatchEpisode(t, n) = "strong"
  PROVE  ~t.collection /\ n \notin t.ends
BY DEF MatchEpisode

\* A convincing evaluation was made of read details, of a video about this episode
\* alone, whose uploader is not blocked.
LEMMA ConvincingMeans ==
  ASSUME NEW v, NEW n, NEW b \in BOOLEAN, Convincing(Evaluate(v, n, b))
  PROVE  /\ b
         /\ ~content[v].title.collection /\ n \notin content[v].title.ends
         /\ trust[UploaderOf[v]] # "blocked"
<1> DEFINE e == Evaluate(v, n, b)
<1>1. e.enriched = b /\ e.episode = MatchEpisode(content[v].title, n)
  BY DEF Evaluate
<1>2. ~e.reject => trust[UploaderOf[v]] # "blocked"
  BY DEF Evaluate
<1>3. e.enriched /\ e.episode = "strong" /\ ~e.reject
  BY DEF Convincing
<1> HIDE DEF e
<1>4. MatchEpisode(content[v].title, n) = "strong"
  BY <1>1, <1>3
<1>5. ~content[v].title.collection /\ n \notin content[v].title.ends
  BY <1>4, StrongMatch
<1>6. b
  BY <1>1, <1>3
<1> QED BY <1>2, <1>3, <1>5, <1>6

-----------------------------------------------------------------------------
(* The inductive invariant.                                                *)

ScanStep == {"next", "search", "judge", "confirm"}

ScanRecord ==
  [pc : ScanStep, episode : Nat, query : Nat, queue : SUBSET Videos, seen : SUBSET Videos,
   useful : BOOLEAN]

\* The types of what the check keeps; its rows are those of the episodes due.
ScanTypeOK ==
  /\ scan \in ScanRecord
  /\ DOMAIN cache = {"results", "searches", "detailed", "details", "paused"}
  /\ \A k \in DOMAIN cache.results : cache.results[k] \subseteq Videos
  /\ cache.searches \in Nat /\ cache.details \in Nat
  /\ cache.detailed \subseteq Videos /\ cache.paused \in BOOLEAN
  /\ Due \subseteq Nat /\ DOMAIN confirmed = Due
  /\ \A n \in Due : DOMAIN stored[n] = Videos /\ confirmed[n].video \in Videos \cup {NoVideo}

\* A stored evaluation is what evaluate makes of the video, and one that says so had
\* its details.
Computed ==
  \A n \in Due, v \in Videos :
    \/ stored[n][v] = NoEvaluation
    \/ \E b \in BOOLEAN : stored[n][v] = Evaluate(v, n, b) /\ (b => v \in cache.detailed)

\* The check is done with an episode that is confirmed.
ConfirmedIsPast ==
  \A n \in Due : confirmed[n].video # NoVideo =>
    n < scan.episode \/ (n = scan.episode /\ scan.pc = "next")

\* While the check is at an episode, it is one of those due.
AtDue == scan.pc # "next" => scan.episode \in Due

\* ConfirmedIsSupported in terms of the stored evaluations only: what each of them
\* says of the video follows from Computed.
Stands(n, v) == stored[n][v] # NoEvaluation /\ Convincing(stored[n][v])

\* The uploaders of convincing videos that reach the score and lie near a.
Voters(n, a) ==
  { UploaderOf[w] : w \in
    { w \in Videos : /\ Stands(n, w) /\ stored[n][w].score >= MinScore
                     /\ Apart(stored[n][w].seconds, stored[n][a].seconds) <= DurationDelta
                     /\ Apart(content[w].published, content[a].published) <= PublishDelta } }

SupportedBy(n, v) ==
  /\ Stands(n, v)
  /\ \/ IsTrusted(UploaderOf[v])
     \/ \E a \in { w \in Videos : Stands(n, w) } : Cardinality(Voters(n, a)) >= Required

Supported ==
  \A n \in Due : confirmed[n].video # NoVideo => SupportedBy(n, confirmed[n].video)

\* A check makes no more requests than it may, whatever fails and whatever is due.
WithinBudget == cache.searches <= MaxSearches /\ cache.details <= MaxDetails

ScanInv ==
  ScanTypeOK /\ Computed /\ ConfirmedIsPast /\ AtDue /\ Supported /\ WithinBudget

\* A stored evaluation that stands is one that fits.
LEMMA StandsFits ==
  ASSUME Computed, NEW n \in Due, NEW v \in Videos
  PROVE  Fit(n, v) <=> Stands(n, v)
<1>1. Fit(n, v) => Stands(n, v)
  BY DEF Fit, Stands
<1>2. ASSUME Stands(n, v) PROVE Fit(n, v)
  <2>1. PICK b \in BOOLEAN : /\ stored[n][v] = Evaluate(v, n, b)
                             /\ b => v \in cache.detailed
    BY <1>2 DEF Computed, Stands
  <2>2. Convincing(Evaluate(v, n, b))
    BY <1>2, <2>1 DEF Stands
  <2> QED BY <1>2, <2>1, <2>2, ConvincingMeans DEF Fit, Stands
<1> QED BY <1>1, <1>2

\* So the invariant has the property.
LEMMA SupportedIsConfirmed ==
  ASSUME ScanTypeOK, Computed, Supported
  PROVE  ConfirmedIsSupported
<1> SUFFICES ASSUME NEW n \in Due, confirmed[n].video # NoVideo
             PROVE  LET v == confirmed[n].video IN
      /\ Fit(n, v)
      /\ \/ IsTrusted(UploaderOf[v])
         \/ \E a \in { w \in Videos : Fit(n, w) } :
              Cardinality({ UploaderOf[w] : w \in
                { w \in Videos : /\ Fit(n, w) /\ stored[n][w].score >= MinScore
                                 /\ Apart(stored[n][w].seconds, stored[n][a].seconds) <= DurationDelta
                                 /\ Apart(content[w].published, content[a].published) <= PublishDelta } })
                >= Required
  BY DEF ConfirmedIsSupported
<1>1. \A w \in Videos : Fit(n, w) <=> Stands(n, w)
  BY StandsFits
<1>2. confirmed[n].video \in Videos /\ SupportedBy(n, confirmed[n].video)
  BY DEF ScanTypeOK, Supported
<1>3. Fit(n, confirmed[n].video)
  BY <1>1, <1>2 DEF SupportedBy
<1>4. CASE IsTrusted(UploaderOf[confirmed[n].video])
  BY <1>3, <1>4
<1>5. ASSUME NEW a \in Videos, Stands(n, a), Cardinality(Voters(n, a)) >= Required
      PROVE  /\ Fit(n, a)
             /\ Cardinality({ UploaderOf[w] : w \in
                { w \in Videos : /\ Fit(n, w) /\ stored[n][w].score >= MinScore
                                 /\ Apart(stored[n][w].seconds, stored[n][a].seconds) <= DurationDelta
                                 /\ Apart(content[w].published, content[a].published) <= PublishDelta } })
                >= Required
  <2>1. { w \in Videos : /\ Fit(n, w) /\ stored[n][w].score >= MinScore
                         /\ Apart(stored[n][w].seconds, stored[n][a].seconds) <= DurationDelta
                         /\ Apart(content[w].published, content[a].published) <= PublishDelta }
        = { w \in Videos : /\ Stands(n, w) /\ stored[n][w].score >= MinScore
                         /\ Apart(stored[n][w].seconds, stored[n][a].seconds) <= DurationDelta
                         /\ Apart(content[w].published, content[a].published) <= PublishDelta }
    BY <1>1
  <2> QED BY <1>1, <1>5, <2>1 DEF Voters
<1> QED BY <1>2, <1>3, <1>4, <1>5 DEF SupportedBy

\* Different uploaders are counted: a set with one video of each has no more members
\* than there are uploaders of a larger one.
LEMMA OneVoteEach ==
  ASSUME NEW A, NEW B, A \subseteq B, IsFiniteSet(B),
         \A v, w \in A : UploaderOf[v] = UploaderOf[w] => v = w
  PROVE  Cardinality(A) <= Cardinality({ UploaderOf[w] : w \in B })
<1> DEFINE T == { UploaderOf[w] : w \in B }
           f == [w \in B |-> UploaderOf[w]]
           g == [w \in A |-> UploaderOf[w]]
<1>1. f \in Surjection(B, T)
  BY DEF Surjection
<1>2. IsFiniteSet(T)
  BY <1>1, FS_Surjection
<1>3. g \in [A -> T] /\ \A v, w \in A : g[v] = g[w] => v = w
  <2>1. \A v \in A : g[v] = UploaderOf[v] /\ UploaderOf[v] \in T
    OBVIOUS
  <2>2. g \in [A -> T]
    BY <2>1
  <2> QED BY <2>1, <2>2
<1> HIDE DEF T, g
<1>4. g \in Injection(A, T)
  BY <1>3 DEF Injection, IsInjective
<1>5. Cardinality(A) <= Cardinality(T)
  BY <1>2, <1>4, FS_Injection
<1> QED BY <1>5 DEF T

-----------------------------------------------------------------------------
(* The steps.                                                              *)

\* The check begins with nothing stored.
LEMMA InitScan == ScanInit => ScanInv
<1> SUFFICES ASSUME ScanInit PROVE ScanInv
  OBVIOUS
<1>1. PICK T \in Targets :
        /\ stored = [n \in T |-> Unevaluated]
        /\ confirmed = [n \in T |-> [video |-> NoVideo, by |-> "none"]]
  BY DEF ScanInit
<1>2. T \subseteq Nat /\ Due = T
  BY <1>1, ScanAssumption DEF Due
<1>3. ScanTypeOK
  <2>1. scan \in ScanRecord
    BY DEF ScanInit, Between, ScanRecord, ScanStep
  <2>2. DOMAIN cache.results = {}
    BY DEF ScanInit, EmptyCache
  <2>3. /\ DOMAIN cache = {"results", "searches", "detailed", "details", "paused"}
        /\ cache.searches = 0 /\ cache.details = 0
        /\ cache.detailed = {} /\ cache.paused = FALSE
    BY DEF ScanInit, EmptyCache
  <2>4. DOMAIN confirmed = T /\ \A n \in T : confirmed[n].video = NoVideo
    BY <1>1
  <2>5. \A n \in T : DOMAIN stored[n] = Videos
    BY <1>1 DEF Unevaluated
  <2>6. cache.searches \in Nat /\ cache.details \in Nat /\ cache.paused \in BOOLEAN
    BY DEF ScanInit, EmptyCache
  <2>7. cache.detailed \subseteq Videos /\ \A k \in DOMAIN cache.results : cache.results[k] \subseteq Videos
    BY <2>2, <2>3
  <2>8. DOMAIN confirmed = Due
    BY <1>2, <2>4
  <2>9. \A n \in Due : DOMAIN stored[n] = Videos /\ confirmed[n].video \in Videos \cup {NoVideo}
    BY <1>2, <2>4, <2>5
  <2>10. Due \subseteq Nat
    BY <1>2
  <2> QED BY <2>1, <2>3, <2>6, <2>7, <2>8, <2>9, <2>10 DEF ScanTypeOK
<1>4. Computed
  BY <1>1, <1>2 DEF Computed, Unevaluated
<1>5. ConfirmedIsPast /\ Supported
  BY <1>1, <1>2 DEF ConfirmedIsPast, Supported
<1>6. AtDue
  BY DEF ScanInit, Between, AtDue
<1>7. WithinBudget
  BY ScanAssumption DEF ScanInit, EmptyCache, WithinBudget
<1> QED BY <1>3, <1>4, <1>5, <1>6, <1>7 DEF ScanInv

\* A confirmation stands as long as the evaluations of its episode do.
LEMMA SupportStays ==
  ASSUME NEW n, NEW v, SupportedBy(n, v), stored'[n] = stored[n],
         content' = content, trust' = trust
  PROVE  SupportedBy(n, v)'
BY DEF SupportedBy, Stands, Voters, IsTrusted

\* What evaluate makes of a video changes with nothing the check does.
LEMMA SameEvaluation ==
  ASSUME content' = content, trust' = trust, NEW v, NEW n, NEW b
  PROVE  Evaluate(v, n, b)' = Evaluate(v, n, b)
BY SMTT(40) DEF Evaluate, IsTrusted, Doubtful

\* Steps that store and confirm nothing.
LEMMA MovingOn ==
  ASSUME ScanInv, UNCHANGED <<content, trust, stored, confirmed>>,
         cache'.detailed = cache.detailed,
         scan'.episode \in Nat, scan.episode <= scan'.episode,
         scan.episode = scan'.episode => scan.pc # "next" \/ scan'.pc = "next"
  PROVE  Computed' /\ ConfirmedIsPast' /\ Supported'
<1>0. Due' = Due
  BY DEF Due
<1>1. Computed'
  BY <1>0, SameEvaluation DEF ScanInv, Computed
<1>2. ConfirmedIsPast'
  BY <1>0 DEF ScanInv, ConfirmedIsPast, ScanTypeOK, ScanRecord
<1>3. Supported'
  BY <1>0, SupportStays DEF ScanInv, Supported
<1> QED BY <1>1, <1>2, <1>3
\* Steps that change nothing but where the check is.
LEMMA Pausing ==
  ASSUME ScanInv, UNCHANGED <<content, trust, cache, stored, confirmed>>,
         scan' \in ScanRecord, scan.episode <= scan'.episode,
         scan.episode = scan'.episode => scan.pc # "next" \/ scan'.pc = "next",
         scan'.pc # "next" => scan'.episode \in Due
  PROVE  ScanInv'
<1>0. scan'.episode \in Nat
  BY DEF ScanRecord
<1>1. Computed' /\ ConfirmedIsPast' /\ Supported'
  BY <1>0, MovingOn
<1>2. ScanTypeOK'
  BY DEF ScanInv, ScanTypeOK, Due
<1>3. AtDue' /\ WithinBudget'
  BY DEF ScanInv, AtDue, WithinBudget, Due
<1> QED BY <1>1, <1>2, <1>3 DEF ScanInv

\* The next episode of those due is behind all that the check has seen.
LEMMA NextEpisodeKeeps == ScanInv /\ NextEpisode => ScanInv'
<1> SUFFICES ASSUME ScanInv, NextEpisode PROVE ScanInv'
  OBVIOUS
<1>1. PICK n \in Due : /\ n > scan.episode
                       /\ scan' = [Between EXCEPT !.pc = "search", !.episode = n]
  BY DEF NextEpisode
<1>2. n \in Nat /\ scan.episode \in Nat
  BY DEF ScanInv, ScanTypeOK, ScanRecord
<1>3. scan' \in ScanRecord /\ scan'.episode = n
  BY <1>1, <1>2 DEF Between, ScanRecord, ScanStep
<1> QED BY <1>1, <1>2, <1>3, Pausing DEF NextEpisode

\* Taking a keyword's results.
LEMMA TakeType ==
  ASSUME scan \in ScanRecord, NEW results \in SUBSET Videos, Take(results)
  PROVE  scan' \in ScanRecord /\ scan'.episode = scan.episode /\ scan'.pc = "judge"
<1>1. results \ scan.seen \in SUBSET Videos /\ scan.seen \cup results \in SUBSET Videos
  BY DEF ScanRecord
<1> QED BY <1>1 DEF Take, ScanRecord, ScanStep

\* The searches: each of them that is really made is counted first.
LEMMA SearchKeeps ==
  ASSUME ScanInv, SearchCached \/ Search \/ SearchFails \/ SearchEnds
  PROVE  ScanInv'
<1>0. /\ scan \in ScanRecord /\ scan.episode \in Nat /\ scan.pc = "search"
      /\ scan.episode \in Due
  BY DEF ScanInv, ScanTypeOK, ScanRecord, AtDue, SearchCached, Search, SearchFails, SearchEnds
<1>1. CASE SearchCached
  <2>1. Take(cache.results[Keyword(scan.query)])
    BY <1>1 DEF SearchCached
  <2>2. cache.results[Keyword(scan.query)] \in SUBSET Videos
    BY <1>1 DEF SearchCached, ScanInv, ScanTypeOK
  <2>3. scan' \in ScanRecord /\ scan'.episode = scan.episode
    BY <1>0, <2>1, <2>2, TakeType
  <2> QED BY <1>0, <1>1, <2>3, Pausing DEF SearchCached
<1>2. CASE SearchEnds
  <2>1. scan' \in ScanRecord /\ scan'.episode = scan.episode
    BY <1>0, <1>2 DEF SearchEnds, ScanRecord, ScanStep
  <2> QED BY <1>0, <1>2, <2>1, Pausing DEF SearchEnds
<1>3. ASSUME Search \/ SearchFails
      PROVE  ScanInv'
  <2>1. cache.searches \in Nat /\ cache.searches < MaxSearches
    <3>1. ~(cache.searches >= MaxSearches)
      BY <1>3, Zenon DEF Search, SearchFails, Exhausted
    <3>2. cache.searches \in Nat
      BY DEF ScanInv, ScanTypeOK
    <3> QED BY <3>1, <3>2, ScanAssumption
  <2>2. scan' \in ScanRecord /\ scan'.episode = scan.episode
    <3>1. CASE Search
      BY <1>0, <3>1, TakeType DEF Search
    <3>2. CASE SearchFails
      BY <1>0, <3>2 DEF SearchFails, ScanRecord, ScanStep
    <3> QED BY <1>3, <3>1, <3>2
  <2>3. /\ DOMAIN cache' = DOMAIN cache /\ cache'.searches = cache.searches + 1
        /\ cache'.details = cache.details /\ cache'.detailed = cache.detailed
        /\ cache'.paused = cache.paused
    BY <1>3 DEF Search, SearchFails, ScanInv, ScanTypeOK
  <2>4. \A k \in DOMAIN cache'.results : cache'.results[k] \subseteq Videos
    <3>1. CASE SearchFails
      BY <3>1 DEF SearchFails, ScanInv, ScanTypeOK
    <3>2. CASE Search
      <4>1. PICK results \in SUBSET Videos :
              cache' = [cache EXCEPT !.searches = @ + 1,
                                     !.results = [k \in DOMAIN @ \cup { Keyword(scan.query) } |->
                                       IF k = Keyword(scan.query) THEN results ELSE cache.results[k]]]
        BY <3>2 DEF Search
      <4>2. cache'.results = [k \in DOMAIN cache.results \cup { Keyword(scan.query) } |->
                               IF k = Keyword(scan.query) THEN results ELSE cache.results[k]]
        BY <4>1 DEF ScanInv, ScanTypeOK
      <4> QED BY <4>2 DEF ScanInv, ScanTypeOK
    <3> QED BY <1>3, <3>1, <3>2
  <2>5. UNCHANGED <<content, trust, stored, confirmed>>
    BY <1>3 DEF Search, SearchFails
  <2>6. Computed' /\ ConfirmedIsPast' /\ Supported'
    BY <1>0, <2>2, <2>3, <2>5, MovingOn
  <2>7. ScanTypeOK'
    BY <2>1, <2>2, <2>3, <2>4, <2>5 DEF ScanInv, ScanTypeOK, Due
  <2>8. AtDue'
    BY <1>0, <2>2, <2>5 DEF AtDue, Due
  <2>9. WithinBudget'
    BY <2>1, <2>3, ScanAssumption DEF ScanInv, WithinBudget
  <2> QED BY <2>6, <2>7, <2>8, <2>9 DEF ScanInv
<1> QED BY <1>1, <1>2, <1>3

\* Storing what evaluate makes of a video for the episode at hand.
LEMMA StoreKeeps ==
  ASSUME ScanInv, NEW v \in Videos, NEW b \in BOOLEAN, scan.pc = "judge",
         Store(v, Evaluate(v, scan.episode, b)), UNCHANGED <<content, trust, confirmed>>,
         cache.detailed \subseteq cache'.detailed, b => v \in cache'.detailed
  PROVE  /\ Computed' /\ ConfirmedIsPast' /\ Supported' /\ AtDue'
         /\ scan' \in ScanRecord /\ Due' = Due
         /\ \A n \in Due : DOMAIN stored'[n] = Videos
<1>0. /\ scan \in ScanRecord /\ scan.episode \in Due /\ Due \subseteq Nat
      /\ \A n \in Due : DOMAIN stored[n] = Videos
  BY DEF ScanInv, ScanTypeOK, AtDue
<1> DEFINE e == Evaluate(v, scan.episode, b)
<1>A. e.reject \in BOOLEAN
  BY DEF Evaluate
<1>1. stored' = [stored EXCEPT ![scan.episode][v] = e]
  BY DEF Store
<1>2. scan' = [scan EXCEPT !.queue = @ \ { v }, !.useful = @ \/ ~e.reject]
  BY DEF Store
<1> HIDE DEF e
<1>3. Due' = Due
  BY <1>1 DEF Due
<1>4. /\ \A n \in Due \ {scan.episode} : stored'[n] = stored[n]
      /\ stored'[scan.episode] = [stored[scan.episode] EXCEPT ![v] = e]
  BY <1>0, <1>1 DEF Due
<1>5. \A n \in Due : DOMAIN stored'[n] = Videos
  BY <1>0, <1>4
<1>6. scan' \in ScanRecord /\ scan'.pc = "judge" /\ scan'.episode = scan.episode
  BY <1>0, <1>2 DEF ScanRecord, ScanStep
<1>7. Computed'
  <2> SUFFICES ASSUME NEW n \in Due, NEW w \in Videos
               PROVE  \/ stored'[n][w] = NoEvaluation
                      \/ \E c \in BOOLEAN : /\ stored'[n][w] = Evaluate(w, n, c)'
                                            /\ c => w \in cache'.detailed
    BY <1>3 DEF Computed
  <2>1. CASE n = scan.episode /\ w = v
    <3>1. stored'[n][w] = e
      BY <1>0, <1>4, <2>1
    <3>2. e = Evaluate(w, n, b)'
      BY <2>1, SameEvaluation DEF e
    <3> QED BY <2>1, <3>1, <3>2
  <2>2. CASE ~(n = scan.episode /\ w = v)
    <3>1. stored'[n][w] = stored[n][w]
      BY <1>0, <1>4, <2>2
    <3>2. \/ stored[n][w] = NoEvaluation
          \/ \E c \in BOOLEAN : stored[n][w] = Evaluate(w, n, c) /\ (c => w \in cache.detailed)
      BY DEF ScanInv, Computed
    <3> QED BY <3>1, <3>2, SameEvaluation
  <2> QED BY <2>1, <2>2
<1>8. \A n \in Due : confirmed[n].video # NoVideo => n # scan.episode
  BY <1>0 DEF ScanInv, ConfirmedIsPast
<1>9. ConfirmedIsPast'
  BY <1>3, <1>6 DEF ScanInv, ConfirmedIsPast
<1>10. Supported'
  BY <1>3, <1>4, <1>8, SupportStays DEF ScanInv, Supported
<1>11. AtDue'
  BY <1>0, <1>3, <1>6 DEF AtDue
<1> QED BY <1>3, <1>5, <1>6, <1>7, <1>9, <1>10, <1>11

\* The four ways a result is judged.
LEMMA JudgeKeeps ==
  ASSUME ScanInv, NEW v \in Videos, NEW p \in BOOLEAN,
         Reject(v) \/ Enrich(v) \/ Keep(v) \/ EnrichFails(v, p)
  PROVE  ScanInv'
<1>0. /\ scan.pc = "judge" /\ UNCHANGED <<content, trust, confirmed>>
      /\ DOMAIN cache = {"results", "searches", "detailed", "details", "paused"}
      /\ cache.searches \in Nat /\ cache.details \in Nat
      /\ cache.detailed \subseteq Videos /\ cache.paused \in BOOLEAN
      /\ \A k \in DOMAIN cache.results : cache.results[k] \subseteq Videos
  BY DEF Reject, Enrich, Keep, EnrichFails, ScanInv, ScanTypeOK
<1>1. ASSUME NEW b \in BOOLEAN, Store(v, Evaluate(v, scan.episode, b)),
             DOMAIN cache' = DOMAIN cache, cache'.results = cache.results,
             cache'.searches = cache.searches, cache'.paused \in BOOLEAN,
             cache'.details \in Nat, cache'.details <= MaxDetails,
             cache.detailed \subseteq cache'.detailed, cache'.detailed \subseteq Videos,
             b => v \in cache'.detailed
      PROVE  ScanInv'
  <2>1. /\ Computed' /\ ConfirmedIsPast' /\ Supported' /\ AtDue'
        /\ scan' \in ScanRecord /\ Due' = Due
        /\ \A n \in Due : DOMAIN stored'[n] = Videos
    BY <1>0, <1>1, StoreKeeps
  <2>2. ScanTypeOK'
    BY <1>0, <1>1, <2>1 DEF ScanInv, ScanTypeOK
  <2>3. WithinBudget'
    BY <1>1 DEF ScanInv, WithinBudget
  <2> QED BY <2>1, <2>2, <2>3 DEF ScanInv
<1>2. CASE Reject(v)
  <2>1. Store(v, Evaluate(v, scan.episode, FALSE)) /\ cache' = cache
    BY <1>2 DEF Reject, Preliminary
  <2> QED BY <1>0, <1>1, <2>1 DEF ScanInv, WithinBudget
<1>3. CASE Keep(v)
  <2>1. /\ Store(v, Evaluate(v, scan.episode, v \in cache.detailed)) /\ cache' = cache
        /\ (v \in cache.detailed) \in BOOLEAN
    BY <1>3 DEF Keep
  <2> QED BY <1>0, <1>1, <2>1 DEF ScanInv, WithinBudget
<1>4. CASE Enrich(v)
  <2>1. /\ Store(v, Evaluate(v, scan.episode, TRUE))
        /\ cache' = [cache EXCEPT !.details = @ + 1, !.detailed = @ \cup { v }]
        /\ cache.details < MaxDetails
    BY <1>4 DEF Enrich, Worthwhile
  <2>2. /\ DOMAIN cache' = DOMAIN cache /\ cache'.results = cache.results
        /\ cache'.searches = cache.searches /\ cache'.paused = cache.paused
        /\ cache'.details = cache.details + 1 /\ cache'.detailed = cache.detailed \cup { v }
    BY <1>0, <2>1
  <2>3. cache'.details \in Nat /\ cache'.details <= MaxDetails
    BY <1>0, <2>1, <2>2, ScanAssumption
  <2>4. cache'.detailed \subseteq Videos /\ v \in cache'.detailed
    BY <1>0, <2>2
  <2> QED BY <1>0, <1>1, <2>1, <2>2, <2>3, <2>4
<1>5. CASE EnrichFails(v, p)
  <2>1. /\ Store(v, Evaluate(v, scan.episode, FALSE))
        /\ cache' = [cache EXCEPT !.details = @ + 1, !.paused = ~p]
        /\ cache.details < MaxDetails
    BY <1>5 DEF EnrichFails, Worthwhile, Preliminary
  <2>2. /\ DOMAIN cache' = DOMAIN cache /\ cache'.results = cache.results
        /\ cache'.searches = cache.searches /\ cache'.paused \in BOOLEAN
        /\ cache'.details = cache.details + 1 /\ cache'.detailed = cache.detailed
    BY <1>0, <2>1
  <2>3. cache'.details \in Nat /\ cache'.details <= MaxDetails
    BY <1>0, <2>1, <2>2, ScanAssumption
  <2> QED BY <1>0, <1>1, <2>1, <2>2, <2>3
<1> QED BY <1>2, <1>3, <1>4, <1>5

\* The next query, and an episode that is not confirmed.
LEMMA LeaveKeeps ==
  ASSUME ScanInv, NextQuery \/ ConfirmNone
  PROVE  ScanInv'
<1>0. /\ scan \in ScanRecord /\ scan.episode \in Nat /\ scan.pc # "next"
      /\ scan.episode \in Due
  BY DEF ScanInv, ScanTypeOK, ScanRecord, AtDue, NextQuery, ConfirmNone
<1>1. scan' \in ScanRecord /\ scan'.episode = scan.episode
  <2>1. CASE NextQuery
    <3>1. scan' = [scan EXCEPT !.pc = "search", !.query = scan.query + 1]
      BY <2>1 DEF NextQuery
    <3>2. scan.query + 1 \in Nat
      BY <1>0 DEF ScanRecord
    <3> QED BY <1>0, <3>1, <3>2 DEF ScanRecord, ScanStep
  <2>2. CASE ConfirmNone
    BY <1>0, <2>2 DEF ConfirmNone, ScanRecord, ScanStep
  <2> QED BY <2>1, <2>2
<1>2. UNCHANGED <<content, trust, cache, stored, confirmed>>
  BY DEF NextQuery, ConfirmNone
<1> QED BY <1>0, <1>1, <1>2, Pausing

\* Confirming a video that is supported.
LEMMA ConfirmKeeps ==
  ASSUME ScanInv, NEW v \in Videos, NEW by, scan.pc = "confirm", Confirm(v, by),
         SupportedBy(scan.episode, v)
  PROVE  ScanInv'
<1>0. /\ scan \in ScanRecord /\ scan.episode \in Nat /\ scan.episode \in Due
      /\ DOMAIN confirmed = Due /\ Due \subseteq Nat
  BY DEF ScanInv, ScanTypeOK, ScanRecord, AtDue
<1>1. /\ scan' \in ScanRecord /\ scan'.episode = scan.episode /\ scan'.pc = "next"
      /\ UNCHANGED <<content, trust, cache, stored>> /\ Due' = Due
  BY <1>0 DEF Confirm, ScanRecord, ScanStep, Due
<1>2. /\ DOMAIN confirmed' = Due
      /\ \A n \in Due : confirmed'[n] = IF n = scan.episode THEN [video |-> v, by |-> by]
                                        ELSE confirmed[n]
  BY <1>0 DEF Confirm
<1>3. ScanTypeOK'
  BY <1>1, <1>2 DEF ScanInv, ScanTypeOK
<1>4. Computed'
  BY <1>1, SameEvaluation DEF ScanInv, Computed
<1>5. ConfirmedIsPast'
  BY <1>0, <1>1, <1>2 DEF ScanInv, ConfirmedIsPast
<1>6. Supported'
  <2>1. ASSUME NEW n \in Due, NEW w, w = confirmed'[n].video, w # NoVideo
        PROVE  SupportedBy(n, w)'
    <3>1. SupportedBy(n, w)
      BY <1>2, <2>1 DEF ScanInv, Supported
    <3> QED BY <1>1, <3>1, SupportStays
  <2> QED BY <1>1, <2>1 DEF Supported
<1>7. AtDue' /\ WithinBudget'
  BY <1>1 DEF ScanInv, AtDue, WithinBudget
<1> QED BY <1>3, <1>4, <1>5, <1>6, <1>7 DEF ScanInv

\* A trusted uploader's video is supported by that.
LEMMA TrustedKeeps == ScanInv /\ ConfirmTrusted => ScanInv'
<1> SUFFICES ASSUME ScanInv, ConfirmTrusted PROVE ScanInv'
  OBVIOUS
<1>1. PICK v \in TrustedVideos : Confirm(v, "trusted_uploader")
  BY DEF ConfirmTrusted
<1>2. v \in Videos /\ SupportedBy(scan.episode, v)
  BY DEF TrustedVideos, Active, SupportedBy, Stands, Evaluation
<1> QED BY <1>1, <1>2, ConfirmKeeps DEF ConfirmTrusted

\* The votes that agree are of as many uploaders as they are.
LEMMA AgreementSupports ==
  ASSUME NEW V \in Votes, NEW A \in Agreeing(V), NEW v \in A
  PROVE  v \in Videos /\ SupportedBy(scan.episode, v)
<1>1. /\ \A w \in V : w \in Eligible
      /\ \A x, w \in V : UploaderOf[x] = UploaderOf[w] => x = w
  BY DEF Votes
<1>2. PICK a \in V : A = { w \in V : Near(w, a) }
  BY DEF Agreeing
<1>3. Cardinality(A) >= Required
  BY DEF Agreeing
<1>4. \A w \in Eligible : /\ w \in Videos /\ Stands(scan.episode, w)
                          /\ stored[scan.episode][w].score >= MinScore
  BY DEF Eligible, Active, Stands, Evaluation
<1> DEFINE n == scan.episode
           B == { w \in Videos : /\ Stands(n, w) /\ stored[n][w].score >= MinScore
                     /\ Apart(stored[n][w].seconds, stored[n][a].seconds) <= DurationDelta
                     /\ Apart(content[w].published, content[a].published) <= PublishDelta }
<1>5. A \subseteq B
  BY <1>1, <1>2, <1>4 DEF Near, Evaluation
<1>6. Voters(n, a) = { UploaderOf[w] : w \in B }
  BY DEF Voters
<1>7. B \in SUBSET Videos
  OBVIOUS
<1> HIDE DEF B
<1>8. IsFiniteSet(B)
  BY <1>7, FS_Subset, ScanAssumption
<1>9. IsFiniteSet(A)
  BY <1>5, <1>8, FS_Subset
<1>10. IsFiniteSet({ UploaderOf[w] : w \in B })
  <2> DEFINE T == { UploaderOf[w] : w \in B }
             f == [w \in B |-> UploaderOf[w]]
  <2>1. f \in Surjection(B, T)
    BY DEF Surjection
  <2> QED BY <1>8, <2>1, FS_Surjection
<1>11. Cardinality(A) <= Cardinality({ UploaderOf[w] : w \in B })
  BY <1>1, <1>2, <1>5, <1>8, OneVoteEach
<1>12. Cardinality(Voters(n, a)) >= Required
  <2>1. Cardinality(A) \in Nat /\ Cardinality({ UploaderOf[w] : w \in B }) \in Nat
    BY <1>9, <1>10, FS_CardinalityType
  <2> QED BY <1>3, <1>6, <1>11, <2>1, ScanAssumption
<1>13. a \in Videos /\ Stands(n, a) /\ v \in Videos /\ Stands(n, v)
  BY <1>1, <1>2, <1>4
<1> QED BY <1>12, <1>13 DEF SupportedBy

LEMMA ConsensusKeeps == ScanInv /\ ConfirmConsensus => ScanInv'
<1> SUFFICES ASSUME ScanInv, ConfirmConsensus PROVE ScanInv'
  OBVIOUS
<1>1. PICK V \in Votes : \E A \in Agreeing(V) : \E v \in A : Confirm(v, "consensus")
  BY DEF ConfirmConsensus
<1>2. PICK A \in Agreeing(V) : \E v \in A : Confirm(v, "consensus")
  BY <1>1
<1>3. PICK v \in A : Confirm(v, "consensus")
  BY <1>2
<1>4. v \in Videos /\ SupportedBy(scan.episode, v)
  BY AgreementSupports
<1> QED BY <1>3, <1>4, ConfirmKeeps DEF ConfirmConsensus

\* The invariant is inductive.
LEMMA ScanStepKeeps == ScanInv /\ [ScanNext]_scanVars => ScanInv'
<1> SUFFICES ASSUME ScanInv, [ScanNext]_scanVars PROVE ScanInv'
  OBVIOUS
<1>1. CASE UNCHANGED scanVars
  <2>1. UNCHANGED <<content, trust, scan, cache, stored, confirmed>>
    BY <1>1 DEF scanVars
  <2>2. scan \in ScanRecord /\ scan.episode \in Nat
    BY DEF ScanInv, ScanTypeOK, ScanRecord
  <2> QED BY <2>1, <2>2, Pausing DEF ScanInv, AtDue
<1>2. CASE NextEpisode
  BY <1>2, NextEpisodeKeeps
<1>3. CASE SearchCached \/ Search \/ SearchFails \/ SearchEnds
  BY <1>3, SearchKeeps
<1>4. ASSUME NEW v \in Videos, NEW p \in BOOLEAN,
             Reject(v) \/ Enrich(v) \/ Keep(v) \/ EnrichFails(v, p)
      PROVE  ScanInv'
  BY <1>4, JudgeKeeps
<1>5. CASE NextQuery \/ ConfirmNone
  BY <1>5, LeaveKeeps
<1>6. CASE ConfirmTrusted \/ ConfirmConsensus
  BY <1>6, TrustedKeeps, ConsensusKeeps
<1> QED BY <1>1, <1>2, <1>3, <1>4, <1>5, <1>6 DEF ScanNext

-----------------------------------------------------------------------------
(* The theorems.                                                           *)

\* The invariant holds in every reachable state.
THEOREM ScanInvariance == ScanSpec => []ScanInv
BY InitScan, ScanStepKeeps, PTL DEF ScanSpec

\* What a check confirms is about that episode, read in full, and published by an
\* uploader who is trusted or by one of as many as must agree.
THEOREM ConfirmedIsAlwaysSupported == ScanSpec => []ConfirmedIsSupported
<1>1. ScanInv => ConfirmedIsSupported
  BY SupportedIsConfirmed DEF ScanInv
<1> QED BY <1>1, ScanInvariance, PTL

\* A check stays within its budget of requests.
THEOREM CheckStaysWithinBudget == ScanSpec => []WithinBudget
<1>1. ScanInv => WithinBudget
  BY DEF ScanInv
<1> QED BY <1>1, ScanInvariance, PTL

=============================================================================
