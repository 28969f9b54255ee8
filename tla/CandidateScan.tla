---------------------------- MODULE CandidateScan ----------------------------
(***************************************************************************)
(* What the detector makes of the videos it finds: Detector::check_anime    *)
(* with evaluator.rs, episode.rs and consensus.rs.  One check goes through  *)
(* the episodes due, shares what it has searched and read among them,       *)
(* scores each video, and confirms one of a trusted uploader or one on      *)
(* which enough uploaders agree.                                            *)
(*                                                                          *)
(* CandidateReview has the same check among the other actors, with the      *)
(* evaluation as an input; here the check is alone and the evaluation is    *)
(* computed.  A title is what the patterns find in it.                      *)
(***************************************************************************)
EXTENDS Integers, Sequences, FiniteSets

CONSTANTS NoVideo, NoEvaluation,
          Videos, UploaderOf,
          Contents,     \* what the videos may be
          Trusts,       \* what the uploaders' trust may be
          Targets,      \* which episodes may be due at once
          Aliases,      \* the number of the anime's aliases
          Minimum, Maximum,   \* duration_min_sec, duration_max_sec
          MinScore, DetailScore, Required, DurationDelta, PublishDelta,
          MinFollowers, MinViews,   \* the confirmation section of the configuration
          MaxSearches, MaxDetails   \* requests per check

ASSUME ScanAssumption ==
  /\ Required \in Nat /\ Required >= 2
  /\ Minimum \in Nat /\ Maximum \in Nat /\ Aliases \in Nat
  /\ IsFiniteSet(Videos) /\ \A T \in Targets : T \subseteq Nat
  /\ MaxSearches \in Nat /\ MaxDetails \in Nat

VARIABLES content,   \* what each video is
          trust,     \* the trust of each uploader
          batch,     \* has_release_batch: the queries do not name the episode
          scan,      \* where the check is
          cache,     \* CheckCache
          stored,    \* the candidate rows: the evaluation of a video for an episode
          confirmed  \* the video that an episode was confirmed by, and how

scanVars == <<content, trust, batch, scan, cache, stored, confirmed>>

-----------------------------------------------------------------------------
(* episode.rs.                                                             *)

\* A bare number counts unless it is a date or a resolution; one padded with a zero
\* is as good as a marked one.
Bare(t, n) == { k \in DOMAIN t.bare : t.bare[k].number = n /\ ~t.bare[k].dated }

Named(S, n) == IF n \in S THEN "strong" ELSE "none"

\* match_episode: the first kind of marker that the title has decides.
MatchEpisode(t, n) ==
  IF t.collection \/ n \in t.ends THEN "ambiguous"
  ELSE IF t.marked # {} THEN Named(t.marked, n)
  ELSE IF t.counted # {} THEN Named(t.counted, n)
  ELSE IF Bare(t, n) = {} THEN "none"
  ELSE IF t.bare[CHOOSE k \in Bare(t, n) : \A j \in Bare(t, n) : k <= j].padded THEN "strong"
  ELSE "weak"

-----------------------------------------------------------------------------
(* evaluator.rs.                                                           *)

\* The points of a condition.
Points(condition, n) == IF condition THEN n ELSE 0

DurationOf(c, enriched) == IF enriched \/ c.listed THEN c.seconds ELSE 0

DurationMatch(d, enriched) ==
  IF d = 0 /\ ~enriched THEN "suspicious"
  ELSE IF d < (Minimum * 60) \div 100 THEN "short"
  ELSE IF d > Maximum * 2 THEN "long"
  ELSE IF d \in Minimum .. Maximum THEN "normal"
  ELSE IF d \in (Minimum * 80) \div 100 .. (Maximum * 120) \div 100 THEN "acceptable"
  ELSE "suspicious"

AliasPoints   == [exact |-> 25, strong |-> 20, weak |-> 10, none |-> -60]
EpisodePoints == [strong |-> 30, weak |-> 15, ambiguous |-> -20, none |-> -40]

DurationPoints(d, enriched) ==
  LET match == DurationMatch(d, enriched) IN
  CASE match = "normal"     -> 15
    [] match = "acceptable" -> 5
    [] match = "short"      -> -60
    [] match = "long"       -> -80
    [] match = "suspicious" -> IF d = 0 /\ ~enriched THEN -10 ELSE -30

\* UploaderTrust::is_trusted, whose counters CandidateReview has.
IsTrusted(u) == trust[u] \in {"flag", "other"}

\* Too small an uploader is refused; numbers that are low or missing ask for a review.
TooSmall(c) == MinFollowers > 0 /\ c.followers >= 0 /\ c.followers < MinFollowers
Doubtful(c, u) ==
  \/ MinFollowers > 0 /\ c.followers < 0
  \/ trust[u] # "flag" /\ MinViews > 0 /\ c.views < MinViews

\* evaluate, with what is known of the video.
Evaluate(v, n, enriched) ==
  LET c        == content[v]
      u        == UploaderOf[v]
      d        == DurationOf(c, enriched)
      episode  == MatchEpisode(c.title, n)
      duration == DurationMatch(d, enriched)
      small    == enriched /\ TooSmall(c)
      doubtful == enriched /\ Doubtful(c, u)
      blocked  == trust[u] = "blocked"
  IN  [episode  |-> episode, alias |-> c.alias, duration |-> duration,
       clean    |-> c.negative = {} /\ ~c.title.collection, enriched |-> enriched,
       seconds  |-> d,
       score    |-> AliasPoints[c.alias] + EpisodePoints[episode]
                    + Points(c.title.collection, -140)
                    + DurationPoints(d, enriched)
                    + Points("strong" \in c.negative, -50) + Points("mild" \in c.negative, -40)
                    + Points("configured" \in c.negative, -100)
                    + Points(c.published \in -12 .. 48, 10) + Points(c.published < -72, -10)
                    + Points(IsTrusted(u), 25) + Points(blocked, -100)
                    + Points(small, -100) + Points(doubtful, -25) + Points(enriched, 10),
       reject   |-> \/ c.alias = "none" \/ episode = "none" \/ c.title.collection
                    \/ duration \in {"short", "long"}
                    \/ c.negative \cap {"strong", "configured"} # {}
                    \/ blocked \/ small,
       review   |-> episode = "ambiguous" \/ doubtful]

-----------------------------------------------------------------------------
(* detector/mod.rs.                                                        *)

EmptyCache == [results |-> <<>>, searches |-> 0, detailed |-> {}, details |-> 0, paused |-> FALSE]

Unevaluated == [v \in Videos |-> NoEvaluation]

Between == [pc |-> "next", episode |-> 0, query |-> 1, queue |-> {}, seen |-> {}, useful |-> FALSE]

ScanInit ==
  /\ content \in Contents
  /\ trust \in Trusts
  /\ batch \in BOOLEAN
  /\ \E T \in Targets :
       /\ ~batch => Cardinality(T) = 1
       /\ stored = [n \in T |-> Unevaluated]
       /\ confirmed = [n \in T |-> [video |-> NoVideo, by |-> "none"]]
  /\ scan = Between
  /\ cache = EmptyCache

Due == DOMAIN stored

\* check_anime: the episodes due one after the other, with one cache.
NextEpisode ==
  /\ scan.pc = "next"
  /\ \E n \in Due :
       /\ n > scan.episode /\ \A m \in Due : m > scan.episode => n <= m
       /\ scan' = [Between EXCEPT !.pc = "search", !.episode = n]
  /\ UNCHANGED <<content, trust, batch, cache, stored, confirmed>>

\* The keyword: an alias, with the episode's number unless a batch is out.
Keyword(k) == IF batch THEN <<k>> ELSE <<k, scan.episode>>

\* A query after one that brought something useful, or beyond the budget, is not made.
Exhausted ==
  \/ scan.query > (IF Aliases < MaxSearches THEN Aliases ELSE MaxSearches)
  \/ scan.query > 1 /\ scan.useful
  \/ Keyword(scan.query) \notin DOMAIN cache.results /\ cache.searches >= MaxSearches

Take(results) ==
  scan' = [scan EXCEPT !.pc = "judge", !.queue = results \ scan.seen, !.seen = @ \cup results]

SearchCached ==
  /\ scan.pc = "search" /\ ~Exhausted
  /\ Keyword(scan.query) \in DOMAIN cache.results
  /\ Take(cache.results[Keyword(scan.query)])
  /\ UNCHANGED <<content, trust, batch, cache, stored, confirmed>>

Search ==
  /\ scan.pc = "search" /\ ~Exhausted
  /\ Keyword(scan.query) \notin DOMAIN cache.results
  /\ \E results \in SUBSET Videos :
       /\ cache' = [cache EXCEPT !.searches = @ + 1,
                                 !.results = [k \in DOMAIN @ \cup { Keyword(scan.query) } |->
                                   IF k = Keyword(scan.query) THEN results ELSE cache.results[k]]]
       /\ Take(results)
  /\ UNCHANGED <<content, trust, batch, stored, confirmed>>

\* The search fails: this episode's check ends, the next one's goes on with the cache.
SearchFails ==
  /\ scan.pc = "search" /\ ~Exhausted
  /\ Keyword(scan.query) \notin DOMAIN cache.results
  /\ cache' = [cache EXCEPT !.searches = @ + 1]
  /\ scan' = [scan EXCEPT !.pc = "next"]
  /\ UNCHANGED <<content, trust, batch, stored, confirmed>>

SearchEnds ==
  /\ scan.pc = "search" /\ Exhausted
  /\ scan' = [scan EXCEPT !.pc = "confirm"]
  /\ UNCHANGED <<content, trust, batch, cache, stored, confirmed>>

\* A result is stored with its evaluation; a rejected one is not useful.
Store(v, e) ==
  /\ stored' = [stored EXCEPT ![scan.episode][v] = e]
  /\ scan' = [scan EXCEPT !.queue = @ \ { v }, !.useful = @ \/ ~e.reject]

Preliminary(v) == Evaluate(v, scan.episode, FALSE)

Reject(v) ==
  /\ scan.pc = "judge" /\ v \in scan.queue
  /\ Preliminary(v).reject
  /\ Store(v, Preliminary(v))
  /\ UNCHANGED <<content, trust, batch, cache, confirmed>>

\* Details are read for a promising video, as long as there is budget and no pause.
Worthwhile(v) ==
  /\ v \notin cache.detailed
  /\ Preliminary(v).score >= DetailScore
  /\ cache.details < MaxDetails /\ ~cache.paused

Enrich(v) ==
  /\ scan.pc = "judge" /\ v \in scan.queue
  /\ ~Preliminary(v).reject /\ Worthwhile(v)
  /\ cache' = [cache EXCEPT !.details = @ + 1, !.detailed = @ \cup { v }]
  /\ Store(v, Evaluate(v, scan.episode, TRUE))
  /\ UNCHANGED <<content, trust, batch, confirmed>>

\* A failure keeps what the search said; any but a permanent one pauses the details.
EnrichFails(v, permanent) ==
  /\ scan.pc = "judge" /\ v \in scan.queue
  /\ ~Preliminary(v).reject /\ Worthwhile(v)
  /\ cache' = [cache EXCEPT !.details = @ + 1, !.paused = ~permanent]
  /\ Store(v, Preliminary(v))
  /\ UNCHANGED <<content, trust, batch, confirmed>>

Keep(v) ==
  /\ scan.pc = "judge" /\ v \in scan.queue
  /\ ~Preliminary(v).reject /\ ~Worthwhile(v)
  /\ Store(v, Evaluate(v, scan.episode, v \in cache.detailed))
  /\ UNCHANGED <<content, trust, batch, cache, confirmed>>

NextQuery ==
  /\ scan.pc = "judge" /\ scan.queue = {}
  /\ scan' = [scan EXCEPT !.pc = "search", !.query = @ + 1]
  /\ UNCHANGED <<content, trust, batch, cache, stored, confirmed>>

-----------------------------------------------------------------------------
(* try_confirm and consensus.rs.                                           *)

Evaluation(v) == stored[scan.episode][v]

Active == { v \in Videos : Evaluation(v) # NoEvaluation /\ ~Evaluation(v).reject }

\* What both ways of confirming ask of an evaluation.
Convincing(e) ==
  /\ e.alias \in {"exact", "strong"} /\ e.episode = "strong"
  /\ e.duration \in {"normal", "acceptable"}
  /\ e.clean /\ ~e.reject /\ ~e.review /\ e.enriched

TrustedVideos == { v \in Active : IsTrusted(UploaderOf[v]) /\ Convincing(Evaluation(v)) }

Confirm(v, by) ==
  /\ confirmed' = [confirmed EXCEPT ![scan.episode] = [video |-> v, by |-> by]]
  /\ scan' = [scan EXCEPT !.pc = "next"]
  /\ UNCHANGED <<content, trust, batch, cache, stored>>

ConfirmTrusted ==
  /\ scan.pc = "confirm"
  /\ \E v \in TrustedVideos :
       /\ \A w \in TrustedVideos : Evaluation(v).score >= Evaluation(w).score
       /\ Confirm(v, "trusted_uploader")

Eligible == { v \in Active : Evaluation(v).score >= MinScore /\ Convincing(Evaluation(v)) }

\* One vote per uploader: its best candidate.
Vote(v) == \A w \in Eligible : UploaderOf[w] = UploaderOf[v] =>
             Evaluation(w).score <= Evaluation(v).score

\* Mutant: every candidate is a vote.
VotesByVideo == { Eligible }

Votes == { V \in SUBSET { v \in Eligible : Vote(v) } :
             /\ { UploaderOf[v] : v \in V } = { UploaderOf[v] : v \in Eligible }
             /\ \A v, w \in V : UploaderOf[v] = UploaderOf[w] => v = w }

Apart(a, b) == IF a < b THEN b - a ELSE a - b

Near(v, w) ==
  /\ Apart(Evaluation(v).seconds, Evaluation(w).seconds) <= DurationDelta
  /\ Apart(content[v].published, content[w].published) <= PublishDelta

\* The votes agree around one of them.  They are kept in a hash map: any of those that
\* enough agree with may be the first one found.
Agreeing(V) == { A \in { { v \in V : Near(v, a) } : a \in V } : Cardinality(A) >= Required }

ConfirmConsensus ==
  /\ scan.pc = "confirm" /\ TrustedVideos = {}
  /\ \E V \in Votes : \E A \in Agreeing(V) : \E v \in A :
       /\ \A w \in A : Evaluation(w).score <= Evaluation(v).score
       /\ Confirm(v, "consensus")

ConfirmNone ==
  /\ scan.pc = "confirm" /\ TrustedVideos = {}
  /\ \E V \in Votes : Agreeing(V) = {}
  /\ scan' = [scan EXCEPT !.pc = "next"]
  /\ UNCHANGED <<content, trust, batch, cache, stored, confirmed>>

ScanNext ==
  \/ NextEpisode
  \/ SearchCached \/ Search \/ SearchFails \/ SearchEnds
  \/ \E v \in Videos : Reject(v) \/ Enrich(v) \/ Keep(v)
  \/ \E v \in Videos, permanent \in BOOLEAN : EnrichFails(v, permanent)
  \/ NextQuery
  \/ ConfirmTrusted \/ ConfirmConsensus \/ ConfirmNone

ScanSpec == ScanInit /\ [][ScanNext]_scanVars

-----------------------------------------------------------------------------
(* Properties.                                                             *)

\* The video is about this episode alone, its details were read and nothing speaks
\* against it.
Fit(n, v) ==
  LET e == stored[n][v] IN
  /\ e # NoEvaluation /\ Convincing(e)
  /\ v \in cache.detailed
  /\ ~content[v].title.collection /\ n \notin content[v].title.ends
  /\ trust[UploaderOf[v]] # "blocked"

\* An episode is confirmed by itself only with a video that fits, of an uploader who is
\* trusted, or near which as many different uploaders as required have one that fits
\* and reaches the score; a score alone never confirms.
ConfirmedIsSupported ==
  \A n \in Due : LET v == confirmed[n].video IN
    v # NoVideo =>
      /\ Fit(n, v)
      /\ \/ IsTrusted(UploaderOf[v])
         \/ \E a \in { w \in Videos : Fit(n, w) } :
              Cardinality({ UploaderOf[w] : w \in
                { w \in Videos : /\ Fit(n, w) /\ stored[n][w].score >= MinScore
                                 /\ Apart(stored[n][w].seconds, stored[n][a].seconds) <= DurationDelta
                                 /\ Apart(content[w].published, content[a].published) <= PublishDelta } })
                >= Required
=============================================================================
