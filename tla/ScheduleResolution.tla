------------------------- MODULE ScheduleResolution -------------------------
(***************************************************************************)
(* One resolution of an episode's schedule: resolve_auto of                 *)
(* schedule/mod.rs, request by request.  The catalogue gives an estimate,   *)
(* Bangumi the chapters' dates, AnimeSchedule the season's entry and then   *)
(* one timetable per week; each of them may answer late, little, about      *)
(* another chapter, or not at all.  What is kept between two requests, and  *)
(* what becomes of the answer of one when another fails, is the state.      *)
(*                                                                          *)
(* A timetable kept by an earlier resolution answers like a fresh one, and  *)
(* a failure kept like a fresh failure: the cache is not modelled.  ISO     *)
(* weeks are weeks of the one clock used here.                              *)
(***************************************************************************)
EXTENDS TitleIdentity

CONSTANTS Failed,         \* a request that brought nothing
          Refused,        \* the outcome of a resolution that ends in an error
          Requests,       \* AutoScheduleRequest, and whether AnimeSchedule can be reached
          Chapters,       \* pages the chapter API may answer
          SubjectAnswers, \* subjects the subject API may answer
          MediaAnswers,   \* entries AnimeSchedule may answer
          Entries,        \* rows of the timetables
          Rows,           \* how many rows of interest a week has at most
          ZoneLag,        \* midnight of the user's zone on the clock of Tokyo
          ThisWeek        \* the week of now

ASSUME ResolutionAssumption ==
  /\ Failed \notin Chapters \cup SubjectAnswers \cup MediaAnswers
  /\ IsFiniteSet(Entries) /\ ZoneLag \in Nat /\ ThisWeek \in Nat /\ Rows \in Nat

\* ResolvedSchedule, without what is copied from the request.
Outcomes ==
  [at         : Optional,
   confidence : {"unavailable", "date_only", "estimated", "calibrated"},
   source     : DOMAIN Family \cup {"bangumi-data", "anime_schedule"},
   kind       : {"catalog", "stream", "rebased", "episode"},
   batches    : SUBSET [first : Int, last : Int, at : Optional]]

\* What is missing is None; a number that is there is one.
ASSUME AnswersAssumption ==
  /\ Refused \notin Outcomes /\ None \notin Entries \cup MediaAnswers
  /\ \A r \in Requests : /\ r.episode \in Int
                         /\ r.mapping \in [local : Int, bangumi : Int] \cup {None}
  /\ \A a \in Chapters : a.date \in Optional /\ a.total \in Optional
  /\ \A s \in SubjectAnswers : s.date \in Optional /\ s.total \in Optional
  /\ \A m \in MediaAnswers :
       /\ {m.premier, m.month, m.episodes, m.from, m.until} \subseteq Optional
       /\ m.override \in [episode : Int, aired : Int, at : Optional] \cup {None}
  /\ \A e \in Entries : /\ e.first \in Int /\ e.last \in Int
                        /\ {e.date, e.until} \subseteq Optional /\ e.delayed \in BOOLEAN

VARIABLES stage,    \* the request under way
          request,  \* what is asked for
          item,     \* the catalogue's entry
          dates,    \* what Bangumi's chapters said
          estimate, \* the catalogue's answer, or None
          season,   \* AnimeSchedule's side: subject, chapter, entry
          answer,   \* expected_at and its confidence so far
          lookup,   \* the timetables read so far
          outcome   \* what resolve_auto returns

resolutionVars == <<stage, request, item, dates, estimate, season, answer, lookup, outcome>>

NoDates  == [target |-> None, total |-> None]
NoSeason == [subject |-> None, airdate |-> None, total |-> None, media |-> None]
NoLookup == [weeks |-> {}, queue |-> {}, seen |-> {},
             earliest |-> None, unknown |-> None, plans |-> <<>>]

Index  == IndexOf(request.mapping, request.episode)
Number == NumberOf(request.mapping, request.episode)
Origin == IF request.mapping = None THEN 1 ELSE request.mapping.bangumi
Shift  == IF request.mapping = None THEN 0 ELSE request.mapping.local - 1

ResolutionInit ==
  /\ stage = "start" /\ request \in Requests
  /\ item = None /\ dates = NoDates /\ estimate = None /\ season = NoSeason
  /\ answer = None /\ lookup = NoLookup /\ outcome = None

\* The resolution ends and keeps nothing but its outcome.
End(o) == stage' = "done" /\ outcome' = o

\* The catalogue part ends: AnimeSchedule is asked where it can be, or is bound.
Asks == request.access \/ request.route # None \/ request.anilist # None

-----------------------------------------------------------------------------
(* The catalogue's estimate (resolve_mapped_at).                           *)

\* No entry has the subject: there is only AnimeSchedule.
StartMissing ==
  /\ stage = "start"
  /\ request.subject # None /\ Matches(request.subject, request.title) = {}
  /\ stage' = "subject"
  /\ UNCHANGED <<request, item, dates, estimate, season, answer, lookup, outcome>>

StartRefused ==
  /\ stage = "start"
  /\ ~(request.subject # None /\ Matches(request.subject, request.title) = {})
  /\ \/ Cardinality(Matches(request.subject, request.title)) # 1
     \/ \E i \in Matches(request.subject, request.title) : i.subject = None
     \/ ~Mappable(request.mapping, request.episode)
  /\ End(Refused)
  /\ UNCHANGED <<request, item, dates, estimate, season, answer, lookup>>

Start ==
  /\ stage = "start"
  /\ Cardinality(Matches(request.subject, request.title)) = 1
  /\ Mappable(request.mapping, request.episode)
  /\ \E i \in Matches(request.subject, request.title) :
       i.subject # None /\ item' = i
  /\ stage' = "airdate"
  /\ UNCHANGED <<request, dates, estimate, season, answer, lookup, outcome>>

\* The first day of the season: its first chapter's, asked for unless that is the target.
Settle(target, origin, total) ==
  LET chosen == Selected(item, origin)
      clock  == CHOOSE c \in chosen : TRUE
      refuse == \/ ~TotalFits(request.mapping, total)
                \/ chosen = {} \/ ~Parses(clock.pattern)
      at     == ExpectedAt(clock, Index, target, origin)
      found  == [at         |-> at,
                 confidence |-> IF at = None THEN "unavailable" ELSE "estimated",
                 source     |-> clock.source, kind |-> clock.kind, batches |-> {}]
  IN  /\ item' = None /\ dates' = NoDates
      /\ IF refuse THEN End(Refused) /\ UNCHANGED estimate
         ELSE /\ estimate' = found
              /\ IF Asks THEN stage' = "subject" /\ UNCHANGED outcome ELSE End(found)

TargetAirdate ==
  /\ stage = "airdate"
  /\ \E a \in Chapters \cup { Failed } :
       LET target == IF a = Failed THEN None ELSE AirdateOf(a, Index, Number)
           total  == IF a = Failed THEN None ELSE a.total
       IN  IF Index > 1 /\ target # None
           THEN /\ dates' = [target |-> target, total |-> total]
                /\ stage' = "origin"
                /\ UNCHANGED <<item, estimate, outcome>>
           ELSE Settle(target, IF Index = 1 THEN target ELSE None, total)
  /\ UNCHANGED <<request, season, answer, lookup>>

OriginAirdate ==
  /\ stage = "origin"
  /\ \E a \in Chapters \cup { Failed } :
       Settle(dates.target, IF a = Failed THEN None ELSE AirdateOf(a, 1, Origin), dates.total)
  /\ UNCHANGED <<request, season, answer, lookup>>

-----------------------------------------------------------------------------
(* AnimeSchedule's entry (resolve_anime_schedule_fallback).                *)

\* Mutant: the failure of the verification is the failure of the resolution.
FallbackRefuses == End(Refused)

\* The verification fails: the catalogue's estimate stays, if there is one.
Fallback == End(IF estimate = None THEN Refused ELSE estimate)

Drop == season' = NoSeason /\ answer' = None /\ lookup' = NoLookup

AskSubject ==
  /\ stage = "subject"
  /\ Mappable(request.mapping, request.episode)
  /\ \E s \in SubjectAnswers :
       season' = [NoSeason EXCEPT !.subject = s]
  /\ stage' = "chapter"
  /\ UNCHANGED <<request, item, dates, estimate, answer, lookup, outcome>>

\* Its chapter's date helps, but is not needed.
AskChapter ==
  /\ stage = "chapter"
  /\ \E a \in Chapters \cup { Failed } :
       season' = IF a = Failed THEN season
                 ELSE [season EXCEPT !.airdate = AirdateOf(a, Index, Number), !.total = a.total]
  /\ stage' = "media"
  /\ UNCHANGED <<request, item, dates, estimate, answer, lookup, outcome>>

\* Any of the requests before the timetable fails, or no entry is surely the subject's.
GiveUp ==
  /\ stage \in {"subject", "media"}
  /\ Fallback /\ Drop
  /\ UNCHANGED <<request, item, dates, estimate>>

\* A time that is known.
Known(t) == t # None

\* The numbers an override covers.
Upper(a) == IF a < 0 THEN 0 ELSE a
FirstOf(o) == o.episode - Upper(o.aired)
Sound(o)   == o # None /\ o.at # None /\ FirstOf(o) > 0
Covers(o, n)  == Sound(o) /\ FirstOf(o) <= n /\ n <= o.episode
Anchors(o, n) == Sound(o) /\ n > o.episode

\* The whole season comes out at once.
FullBatch(m) ==
  /\ m.episodes # None /\ m.override # None
  /\ m.episodes > 1
  /\ m.override.at # None
  /\ m.override.episode = m.episodes
  /\ m.override.episode - m.override.aired = 1

\* The first showing moved to the chapter's date, or a week later for each episode.
FromPremiere(m, airdate) ==
  IF FullBatch(m) THEN m.premier
  ELSE IF airdate = None THEN m.premier + Week * (Index - 1)
  ELSE LET offset == IF season.subject.date = None THEN 0
                     ELSE DateOf(m.premier) - season.subject.date
       IN  (airdate + offset) * Day + ClockOf(m.premier)

\* A delay announced for about this time takes its place.
Delayed(m, t) ==
  IF m.from # None /\ m.until # None /\ Gap(t, m.from) <= 36 THEN m.until ELSE t

Estimate(at, confidence, ask) == [at |-> at, confidence |-> confidence, ask |-> ask]

\* anime_schedule_estimate
EstimateFrom(m) ==
  LET airdate == season.airdate
      start   == OrElse(airdate, OrElse(season.subject.date, m.month))
      weekly  == IF airdate # None \/ FullBatch(m) THEN 0 ELSE 7 * (Index - 1)
      dated   == airdate # None \/ season.subject.date # None
  IN  IF Covers(m.override, Index) THEN Estimate(m.override.at, "calibrated", TRUE)
      ELSE IF Anchors(m.override, Index)
      THEN Estimate(m.override.at + Week * (Index - m.override.episode), "estimated", TRUE)
      ELSE IF Known(m.premier)
      THEN Estimate(Delayed(m, FromPremiere(m, airdate)),
                    IF Index = 1 \/ FullBatch(m) THEN "calibrated" ELSE "estimated", TRUE)
      ELSE IF start = None THEN None
      ELSE Estimate((start + weekly) * Day + ZoneLag, "date_only", dated)

\* timetable_weeks, and the week of the first showing.
WeeksToRead(at, m) ==
  LET radius == (MaxStreamOffset + 6) \div 7 IN
  { at \div Week + k : k \in -radius .. radius } \cup { ThisWeek }
    \cup (IF Known(m.premier) THEN { m.premier \div Week } ELSE {})

\* The entry bound to the season must be the subject's; one that is looked for, the only.
AskMedia ==
  /\ stage = "media"
  /\ \E found \in SUBSET MediaAnswers :
       /\ request.route # None => \E m \in found : found = { m } /\ m.route = request.route
       /\ \E m \in Chosen(season.subject, found, request.anilist) :
            LET e == EstimateFrom(m) IN
            /\ e # None
            /\ season' = [season EXCEPT !.media = m]
            /\ answer' = e
            /\ lookup' = [NoLookup EXCEPT !.weeks = IF e.ask THEN WeeksToRead(e.at, m) ELSE {}]
            /\ stage' = "weeks"
  /\ UNCHANGED <<request, item, dates, estimate, outcome>>

-----------------------------------------------------------------------------
(* The timetables (anime_schedule_timetable).                              *)

\* timetable_release_time: nothing for a delay without a new date.
ReleaseTime(e) ==
  IF e.until # None THEN e.until ELSE IF e.delayed THEN None ELSE e.date

Span(e) == e.last - e.first

\* A native showing of the season.
Native(e) == e.route = season.media.route /\ e.air \in {"raw", "sub", "unknown"}

Hits(e) == Native(e) /\ e.first > 0 /\ e.first <= Index /\ Index <= e.last

Plans(e) == Native(e) /\ e.first > 0 /\ e.last >= e.first /\ e.last <= MaxEpisodeNo

\* Mutant: only the date is compared.
SoonerByDate(e, f) == f = None \/ ReleaseTime(e) < ReleaseTime(f)

\* The narrower showing is about this episode rather than about a batch.
Sooner(e, f) ==
  \/ f = None
  \/ Span(e) < Span(f)
  \/ Span(e) = Span(f) /\ ReleaseTime(e) < ReleaseTime(f)

\* Mutant: a tie is enough.
NarrowerOrEqual(e, f) == f = None \/ Span(e) <= Span(f)

Narrower(e, f) == f = None \/ Span(e) < Span(f)

\* A week's timetable: some rows of interest.  A failed one is passed over.
ReadWeek ==
  /\ stage = "weeks" /\ lookup.queue = {} /\ lookup.weeks # {}
  /\ \E w \in lookup.weeks, rows \in { S \in SUBSET Entries : Cardinality(S) <= Rows } :
       /\ \A v \in lookup.weeks : w <= v
       /\ lookup' = [lookup EXCEPT !.weeks = @ \ { w }, !.queue = rows]
  /\ UNCHANGED <<stage, request, item, dates, estimate, season, answer, outcome>>

FailWeek ==
  /\ stage = "weeks" /\ lookup.queue = {} /\ lookup.weeks # {}
  /\ \E w \in lookup.weeks :
       /\ \A v \in lookup.weeks : w <= v
       /\ lookup' = [lookup EXCEPT !.weeks = @ \ { w }]
  /\ UNCHANGED <<stage, request, item, dates, estimate, season, answer, outcome>>

\* The first dated showing of a range, or an undated one until there is a date.
Planned(plans, e) ==
  LET k == <<e.first, e.last>>
      t == ReleaseTime(e)
      better == \/ k \notin DOMAIN plans
                \/ t # None /\ plans[k] = None
                \/ t # None /\ plans[k] # None /\ t < plans[k]
  IN  IF Plans(e) /\ better
      THEN [j \in DOMAIN plans \cup { k } |-> IF j = k THEN t ELSE plans[j]]
      ELSE plans

\* One row of the week.  The rows come in any order: sorting them first decides ties only.
TakeRow ==
  /\ stage = "weeks"
  /\ \E e \in lookup.queue :
       LET dated   == Hits(e) /\ Known(ReleaseTime(e)) /\ Sooner(e, lookup.earliest)
           undated == Hits(e) /\ ~Known(ReleaseTime(e)) /\ Narrower(e, lookup.unknown)
       IN  lookup' = [lookup EXCEPT
                        !.queue    = @ \ { e },
                        !.seen     = @ \cup { e },
                        !.earliest = IF dated THEN e ELSE @,
                        !.unknown  = IF undated THEN e ELSE @,
                        !.plans    = Planned(@, e)]
  /\ UNCHANGED <<stage, request, item, dates, estimate, season, answer, outcome>>

\* The row that speaks of the episode: an undated one wins if it is about fewer episodes.
Entry ==
  IF lookup.unknown # None /\ Narrower(lookup.unknown, lookup.earliest) THEN lookup.unknown
  ELSE lookup.earliest

\* What the override and the timetables say of ranges, in local numbers.
Batches ==
  LET o == season.media.override
      n == season.media.episodes IN
  { [first |-> k[1] + Shift, last |-> k[2] + Shift, at |-> lookup.plans[k]] :
      k \in DOMAIN lookup.plans }
  \cup (IF Sound(o) /\ o.episode <= MaxEpisodeNo /\ (n = None \/ o.episode <= n)
        THEN { [first |-> FirstOf(o) + Shift, last |-> o.episode + Shift, at |-> o.at] } ELSE {})

\* What AnimeSchedule makes of the episode.
Verified ==
  LET at == IF Entry = None THEN answer.at ELSE ReleaseTime(Entry)
  IN  [at         |-> at,
       confidence |-> IF Entry = None THEN answer.confidence
                      ELSE IF at = None THEN "unavailable" ELSE "calibrated",
       source     |-> "anime_schedule", kind |-> "episode", batches |-> Batches]

\* resolve_auto: what is exact, or projected from an exact row, outranks the catalogue;
\* of two estimates the platform's clock stays.
Outranks(v) ==
  \/ v.confidence \in {"calibrated", "unavailable"}
  \/ Anchors(season.media.override, Index)
  \/ estimate.source = "bangumi-data"

Total == OrElse(season.total, OrElse(season.subject.total, season.media.episodes))

Conclude ==
  /\ stage = "weeks" /\ lookup.weeks = {} /\ lookup.queue = {}
  /\ IF ~TotalFits(request.mapping, Total) THEN Fallback
     ELSE IF estimate = None \/ Outranks(Verified) THEN End(Verified)
     ELSE End([estimate EXCEPT !.batches = Verified.batches])
  /\ UNCHANGED <<request, item, dates, estimate, season, answer, lookup>>

ResolutionNext ==
  \/ StartMissing \/ StartRefused \/ Start
  \/ TargetAirdate \/ OriginAirdate
  \/ AskSubject \/ AskChapter \/ AskMedia \/ GiveUp
  \/ ReadWeek \/ FailWeek \/ TakeRow \/ Conclude

ResolutionSpec == ResolutionInit /\ [][ResolutionNext]_resolutionVars

-----------------------------------------------------------------------------
(* Properties.                                                             *)

Dated   == { e \in lookup.seen : Hits(e) /\ Known(ReleaseTime(e)) }
Undated == { e \in lookup.seen : Hits(e) /\ ~Known(ReleaseTime(e)) }

\* Whatever weeks failed and in whatever order the rows came, what is kept of them is
\* the best row read about the episode, and for each range its first date.
TimetableAgrees ==
  season.media # None =>
    /\ IF Dated = {} THEN lookup.earliest = None
       ELSE lookup.earliest \in Dated /\ \A e \in Dated :
              \/ Span(lookup.earliest) < Span(e)
              \/ /\ Span(lookup.earliest) = Span(e)
                 /\ ReleaseTime(lookup.earliest) <= ReleaseTime(e)
    /\ IF Undated = {} THEN lookup.unknown = None
       ELSE lookup.unknown \in Undated /\ \A e \in Undated : Span(lookup.unknown) <= Span(e)
    /\ DOMAIN lookup.plans = { <<e.first, e.last>> : e \in { f \in lookup.seen : Plans(f) } }
    /\ \A e \in { f \in lookup.seen : Plans(f) } :
         LET t == lookup.plans[<<e.first, e.last>>] IN
         /\ Known(ReleaseTime(e)) => Known(t) /\ t <= ReleaseTime(e)
         /\ \E f \in lookup.seen :
              Plans(f) /\ <<f.first, f.last>> = <<e.first, e.last>> /\ ReleaseTime(f) = t

\* An episode's time is hidden exactly when a row about it has no date (its delay was
\* announced without one) and no dated row is as much about this episode, whatever the
\* override, the first showing and the catalogue had promised.
DelayHidesTime ==
  (stage = "done" /\ outcome # Refused /\ season.media # None /\ outcome.source = "anime_schedule")
    => (outcome.at = None <=> \E u \in Undated : \A e \in Dated : Span(u) < Span(e))

\* A resolution that had the catalogue's estimate does not fail on what AnimeSchedule
\* answers: it gives that estimate, or a time of AnimeSchedule.
CatalogOutlivesOutage ==
  (stage = "done" /\ estimate # None) =>
    /\ outcome # Refused
    /\ outcome.source # "anime_schedule" => outcome.at = estimate.at

\* A time is hidden for lack of agreement with the season's first day only where it is
\* the catalogue's own: a platform that far away was not chosen, or was moved there.
HiddenClockIsCatalog ==
  (estimate # None /\ estimate.confidence = "unavailable") => estimate.kind = "catalog"
=============================================================================
