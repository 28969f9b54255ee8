# AniPulse in TLA+

AniPulse follows anime series: it asks timetables when an episode is due,
searches a video site for it, decides which upload is the episode (by trust in
its uploader, by the agreement of several uploaders, or by asking the
administrator), announces it, and keeps what has been watched.  It is one Rust
program (`src/src`) on one SQLite database (`src/migrations`), run as two
long-lived processes, the scheduler and the web server, beside a command line
that opens the same database.  The processes share nothing but the database.

This directory holds the models of that program, the configurations TLC checks
them with, and the theorems TLAPS proves about them.  Line numbers below refer
to `src/src` unless they name another directory.

## 1. The system

### 1.1 Components

| Component | State | Operations | Model |
|---|---|---|---|
| Episode lifecycle (`repository/sqlite.rs`, `domain/mod.rs`) | `anime` (lifecycle, enabled, total, origin, tracking start), `episode`, `notification`, watch marks | add, delete, enable, map numbers, confirm, complete, resume, archive, repair, file history, mark watched, `transition_released_complete_if_final_released` | `EpisodeLifecycle` |
| Watch marking and automatic archive (`sqlite.rs:568`) | what the handler has read | mark, read the anime, ask whether the season is watched, complete, archive: five separate steps | `WatchFlow` |
| Release batches (`repository/releases.rs`, migration 0019) | `release_batch` | replace the plan, create its episodes, widen the monitored scope | `EpisodeLifecycle` |
| Release notifications (`notification/mod.rs`) | `notification` rows, the pass in progress | group by batch, send, mark sent or failed | `EpisodeLifecycle` |
| Review notices (`sqlite.rs:2963`, `detector/mod.rs`) | `review_notification` by fingerprint of the candidate set | enqueue, cancel, send, mark | `Notices` |
| Source health (`sqlite.rs:3829`) | failure counter, outage and recovery alert | record, send, mark | `Notices` |
| Candidate review (`sqlite.rs`, `application.rs`) | `candidate` rows, the episode's review state, open forms | accept, reject, reject all, block, import a link | `CandidateReview` |
| Uploader trust (`sqlite.rs:2085-2564`) | flags, counters, the global list | trust, block, promote, remove, count | `TrustLists` |
| Detector, evaluator, consensus (`detector/`) | the check in progress, its cache of searches and details | search, evaluate, enrich, store, expire, judge, confirm | `CandidateReview` (among other actors), `CandidateScan` (what it computes) |
| Recognition of episodes (`detector/episode.rs`) | none | weigh the markers of a title | `CandidateScan`; the patterns are inputs |
| Management jobs (`sqlite.rs:3524`, `scheduler/mod.rs`) | `management_job` rows | insert under a unique key, claim a batch, finish, recover what has run for ten minutes | `JobQueue`, its promise in `JobRequests` |
| Anime and collection drafts (`sqlite.rs:3608`, `repository/collections.rs`, `application.rs`) | `anime_draft`, `collection_draft` | resolve, claim, add, release; read, review, import; expire, delete | `DraftJobs`; the import's rows in `EpisodeLifecycle` |
| Schedule synchronizer (`schedule/mod.rs`) | the answer being applied | `sync_due`, `sync_now`, `apply_schedule_update`, `apply_release_batches` | `EpisodeLifecycle` (rows), `DraftJobs` (due, queued, failed) |
| Schedule resolution (`schedule/mod.rs`) | what the requests so far have brought | choose the entry and its platform, ask for chapters, find the season at AnimeSchedule, read its weeks, conclude | `BroadcastCatalog`, `TitleIdentity`, `ScheduleResolution` |
| Provider gate and cache (`repository/provider.rs`, `provider/bilibili.rs`) | budget, interval, cooldowns, probes, cached values | look up, reserve, answer, record, store | `ProviderGate` |
| Sign-in and sessions (`auth.rs`, `web/mod.rs`, `sqlite.rs:3262-3524`) | throttle, sessions and tokens, nonces | sign in, authenticate, replace a token, touch, revoke, confirm | `LoginThrottle`, `WebAccess` |
| Scheduler loop (`scheduler/mod.rs`) | none but its pass | recover, claim, execute, synchronize, check, dispatch | its parts in the modules above |
| Video library (`episode_video`) | sources of an episode, the preferred one | follow confirmations and imports | not modelled: written with them, read only by pages |
| Archive memory (migration 0017) | statistics written with the archive | write once | not modelled: nothing decides on it |
| Web pages, cover cache (`web/`) | none | forms to the operations above | the handlers with two writes in `DraftJobs`, the reject-all form in `CandidateReview` |
| Command line, configuration (`main.rs`, `config.rs`) | none | calls the same operations | as another caller |
| Notifier transports, Cloudflare worker | none | I/O | not modelled: a call succeeds, fails, or succeeds without an answer |

### 1.2 How they interact

* Every component writes through `repository`; a transaction is atomic, and
  nothing else is.  The scheduler and the web server run at the same time,
  and inside each process a handler that awaits the network or the database is
  overtaken by others.
* The web server never asks the network for an anime: it writes a draft or a
  setting, inserts a job, and the scheduler's next pass executes it.
* The synchronizer changes an anime's total and its release plan, and with
  them which episodes exist; the detector adds candidates to an episode in
  scope and confirms one; confirming, importing and notifying may settle the
  season, through one helper that every such transaction calls at its end.
* A confirmation inserts a `notification` row; the dispatcher sends it and
  only then marks it, and marking it creates the next episode.  A check
  inserts a review notice per set of candidates, a request to a source counts
  its failures; the same dispatcher sends both after the releases.
* Every request to the video site, of a check or of a job, in any process,
  passes the gate.
* The administrator acts on pages that show an earlier state.

### 1.3 What is hard

1. *Several short transactions where one decision is made*: watch marking, the
   mapping check, link imports, the detector's scan and judgement, the claim
   of a draft and the addition of its anime, a draft and its job, a nonce and
   its operation.
2. *Deliveries without an answer*: the message has been sent, its row is not
   marked, a retry repeats it; the row may be gone, changed or about something
   else by then.
3. *One transition helper called in many orders*: confirm, import, synchronize,
   mark sent; each must leave the rows consistent and a finished season quiet.
4. *Long sequences of legal calls*: complete, resume elsewhere, repair, import
   a later episode, change the mapping; a set of candidates that goes and
   comes back.
5. *Trust that changes under a running judgement*, and sessions that are
   revoked under a running request.
6. *Work executed twice*: a job is recovered after ten minutes, whether its
   worker has stopped or is only slow.
7. *Limits shared by concurrent users*: budgets, probes and failed sign-ins
   are checked before and counted after.
8. *Partial answers*: a schedule is put together from a dozen requests, each
   of which may fail; a check has only so many requests for all its episodes.

`PROJECT.json` lists these hazards with their lines under "hazards", each with
the properties that would catch it going wrong.

## 2. The modules

```
EpisodeLifecycle            one anime's rows, synchronizer, dispatcher(s)
  +- WatchFlow              adds the handler of mark_episode_watched
       +- EpisodeLifecycle_proofs   (of both)
TrustLists                  uploader flags, counters, global list
  +- CandidateReview        candidates of one episode, detectors, forms, import
       +- CandidateReview_proofs
JobQueue                    job rows and workers
  +- DraftJobs              what the jobs of one anime do     ==> JobRequests
       +- DraftJobs_proofs  (of its own properties and of the refinement)
LoginThrottle               failed sign-ins
  +- WebAccess              sessions, tokens, nonces, requests
       +- WebAccess_proofs
ProviderGate                budget, cooldowns, probes, cache
  +- ProviderGate_proofs
Notices                     review notices and source alerts
  +- Notices_proofs
BroadcastCatalog            the catalogue's estimate        (operators)
  +- TitleIdentity          which entry is the season       (operators)
       +- ScheduleResolution  one resolution, request by request
            +- ScheduleResolution_proofs
CandidateScan               one check, with its scores and votes
  +- CandidateScan_proofs
MC_*                        small instances for TLC
```

`==>` is a refinement: `DraftJobs` instantiates `JobRequests` with what its
rows and workers say of each request.

One action is one SQLite transaction, one request, or one read whose result is
used later.  A process that reads, awaits and writes keeps what it has read in
a record of its own (`disp`, `viewer`, `det`, `importer`, `form`, `marker`,
`mapper`, `worker`, `local`, `attempt`, `req`, `client`, `check`, `lookup`,
`scan`).

### 2.1 EpisodeLifecycle

| TLA+ | Code |
|---|---|
| `lifecycle`, `enabled`, `auto`, `total`, `origin`, `start` | columns of `anime`; `Unknown` is NULL |
| `ep`, `watched` | `episode.state`, `episode.watched_at` |
| `note` | the `notification` row of the episode |
| `batches` | `release_batch` |
| `disp` | a running `dispatch_pending`: messages still to send, the one being marked, whether it was delivered, and rows deleted meanwhile (`stale`) |
| `sync` | where `sync_with_catalog` is |
| `mapper` | `set_episode_number_mapping` between its checks and its UPDATE |
| `announced`, `unmarked` | what really happened, for the properties: deliveries per row, and rows delivered by a pass that did not mark them |
| `Trimmed`, `Transition`, `Settles` | `transition_released_complete_if_final_released`, part of every action whose transaction calls it |
| `Forget` | the cascade of deleted rows into the ids a dispatcher holds |

Abstractions.  The four unfinished episode states are one, `"open"`: no guard
of these operations tells them apart (`CandidateReview` does).  Times are left
out, so "due" is nondeterministic.  `DispatchStart` reads the pending rows and
their batch keys in one step.  A delivery whose reply is lost is
`SendTimeout`: the transports carry no idempotency key.  A timetable answers
any set in `Answers`; a totals answer is any number.  Deleting and archiving
are the same for the rows.

### 2.2 WatchFlow

`mark_episode_watched` marks, reads the anime, asks one query whether the
season is watched, and then calls `mark_anime_released_complete` and
`archive_anime` with the total read before.  `WatchFlow` makes these five
actions of a process `viewer`, and everything else of `EpisodeLifecycle` can
happen between them.  Both operations check the total they are handed
against the completed history of the moment, so `ArchivesWhatItSaw`: the
archive, however late, takes no released episode of the season that the query
did not see watched.  `seen` keeps what the query saw, for this property.  Two
exceptions are the code's: history before the origin, which the query does not
count, and a season renumbered since.  That what was seen watched is *still*
watched is not kept (`ArchivesOnlyWatched`, section 3.3).

### 2.3 TrustLists and CandidateReview

| TLA+ | Code |
|---|---|
| `flag`, `accepted`, `spoiled` | `uploader_trust` of this anime: manual flags, confirmed count (up to the threshold, `>=` is all that is asked), rejected count (`= 0` is all that is asked) |
| `global` | `global_uploader_trust` |
| `marker` | `set_uploader_flag` and `add_manually_trusted_uploader` between their look at the global list and their write |
| `cand` | `candidate.state`; a pending one is `"strong"` when its stored evaluation passes the conditions of `try_confirm`, else `"weak"` |
| `ep`, `inScope` | `episode.state`; whether `monitorable_episode` would show it if open |
| `det` | a running `check_episode`/`try_confirm` |
| `importer`, `form` | a link import; the candidates an open reject-all page shows |

A detector step is a read or a transaction: reading an uploader's trust,
storing the evaluated candidate, flagging the episode for review, expiring,
reading the pending candidates, reading the trust of each, confirming.
Scores, title matching and the compatibility of durations are inputs: an
evaluation comes out `"rejected"`, `"weak"` or `"strong"` in every way, except
that a block read before makes it a hard rejection (`CandidateScan` computes
them).  Consensus takes any strong candidate of the set read once enough
uploaders are in it, and may always fail.  `ScanExpire` and `ExpireElsewhere`
expire any pending candidates, as times are left out.  One form and one link
import are open at a time.  A uid changed in a list is a removal and an
addition.  The reject-all page reads its candidates in one step here and in
three in the code; the fingerprint, which the form carries, is the first.
The block on the page (`block_uploader`) rejects what is pending; the block of
the command line (`set_uploader_flag`) does not, here as in the code.

### 2.4 JobQueue, JobRequests and DraftJobs

| TLA+ | Code |
|---|---|
| `job`, `late` | `management_job` rows, keyed by `dedupe_key`; the running ones whose `started_at` is ten minutes past |
| `worker` | a scheduler's pass: the jobs claimed, the one being executed, its outcome |
| `Enqueue`, `Recover`, `Claim`, `Take`, `FinishJob` | `enqueue_management_job`, `recover_stale_management_jobs`, `claim_management_jobs`, `execute_management_job`, `complete_management_job` and `fail_management_job` |
| `adraft`, `consumed`, `added` | `anime_draft.state`, its `consumed_at`, anime added from it |
| `cdraft`, `expired`, `preview`, `imports` | `collection_draft` and the imports committed |
| `mapping`, `synced`, `due` | the numbering, the one the stored schedule was fetched for, `schedule_next_sync_at` |
| `web`, `cut` | handlers between their two writes; those that stopped there and jobs deleted with an archived anime |
| `local` | what a job has read before the network answered |

`JobRequests` is what the queue promises: a request waits, is executed by one
worker, ends only by it, and returns when its worker is lost.  The rows
implement it (`ImplementsRequests`); `Overrun` says whether a job may outlast
the ten minutes of a live worker, in which case the code executes it twice by
design and the drafts have to stand it.  Finished rows stay `"done"`, their
retention is left out.  The rating job only ends, with any outcome, and stands
for the jobs whose effects are in other modules.

### 2.5 LoginThrottle and WebAccess

`throttle` and `attempt` are the rows of `auth_throttle` for one user and one
address and the sign-ins under way: look at one key and at the other, verify,
count under the one and under the other, or clear both.  `WebAccess` adds the account, its sessions,
the browser's cookie (`jar`), one nonce and the requests: look the session up,
replace its token or touch it, handle, answer, and be received, in any order
between requests.  The answer to a sign-in arrives at once or is lost, that of
a request also late.  A clean-up deletes ended rows and may keep revoked ones:
the 30 days of the code are any time here.  A token is the pair of its session
and the number of its replacement; hashes and signatures are taken for what
they stand for.  The audit log is left out.

### 2.6 ProviderGate

`row` is `provider_state` by scope (failures, whether the cooldown runs,
whether a probe is leased), `budget` its daily count and interval, `cached`
the keys with a value.  A call is a plan of steps, `Look`, `Guard` and
`Fetch`, as `provider/bilibili.rs` makes them: a search first looks for a
device and a session, a detail for followers.  `late` marks a request that was
sent before the failure that its scope is cooling for.  A request's lease
outlasts it (the timeout is 15 s and the lease 10 s longer), and so does a
cooldown (5 min): `LeaseEnds` and `CooldownEnds` wait for them.

### 2.7 Notices

`notice` is `review_notification` by fingerprint, `health` the row of one
source, `disp` a pass of `dispatch_pending` after its releases, `check` what a
check has read before it enqueues.  `arrived` and `told` record what the user
got, for the properties.  A message can arrive without the sender
knowing; a dispatcher can be stopped and started at every step.  `stamp` is
`anime.updated_at`, which is part of the fingerprint of "no candidates"; a
dispatcher reads it with the rows and the candidates after them.

### 2.8 BroadcastCatalog, TitleIdentity and ScheduleResolution

A resolution (`resolve_auto`) is one action per request: the catalogue's entry
and its estimate, the pages of chapters, the subject, AnimeSchedule's entry
and a timetable per week, row by row.  `BroadcastCatalog` has the choice of a
platform's clock, corroborated, moved by whole weeks where it still shows an
earlier cour, or hidden; `TitleIdentity` the rules by which an entry of
AnimeSchedule is the season of a subject; `lookup` what the rows read so far
say.  Times are hours and dates are days of one clock.  Spelling rules and
title normalisation are parameters.  A timetable from the cache answers like a
fresh one.

### 2.9 CandidateScan

One check of the detector alone: the episodes due, the searches and details
they share and their limits, a pause of the provider, the score of a video
from what its title and data are, the reasons to reject it, the weak and the
strong match of the episode (`MatchEpisode`), the candidates kept from earlier
episodes, and the vote.  The match of the anime's name is an input.

## 3. What is checked

### 3.1 Passing runs

| Run | Instance | States | Shows |
|---|---|---|---|
| `lifecycle_safety` | 2 episodes, 1 dispatcher, origins none/2, plans none or one double release | 326 k | `RowsAgree`, `FinishedIsQuiet`, `TotalFitsMapping`, `SentWasDelivered`, `DuplicateNeedsLostReply`, `HistoryIsKept` |
| `lifecycle_liveness` | 2 episodes, unmapped, single releases | 68 k | `PendingIsSettled` |
| `watch_safety` | 2 episodes, no dispatcher, origins none/2, plans none or one double release | 74 k | `ArchivesWhatItSaw` |
| `review_safety` | 2 videos of 2 uploaders, one link, 1 detector, consensus of 2 | 766 k | `OneWinner`, `PendingShows`, `RejectionIsFinal`, `FormRejectsShown` |
| `review_trust` | 1 video, 1 uploader, 1 change of the trust lists beside blocks | 16 k | `TrustedIsSettled` |
| `jobs_imports` | 2 schedulers, 3 job rows, batches of 1, jobs that overrun | 383 k | `AddedOnce`, `ImportedOnce`, `QueuedHasJob` |
| `jobs_sync` | 1 scheduler, 3 job rows of 2 keys, batches of 2, 2 renumberings | 9 k | `ImplementsRequests`, `MappingSettles` |
| `access` | 2 sign-ins, 2 requests, 1 session, 1 replacement, 2 failures allowed | 182 k | `DoneOnce`, `FailuresAreBounded`, `RevokedStaysOut` |
| `gate` | 2 callers, searches and details, 2 requests a day, 2 days, failures counted to 1 | 193 k | `OneProbe`, `LateSuccessIsIgnored`, `CallEnds` |
| `notices` | 1 video, 2 changes of candidates, 1 of the anime, threshold 2, 1 restart | 269 k | `RemindsOnce`, `ForgetsOnlyTold`, `SetIsReminded`, `AlertIsSettled` |
| `decisions` | 6 catalogue entries, 2 seasons, 5 timetable rows at most 2 a week; 3 videos of 2 uploaders, 2 episodes | 353 k | `TimetableAgrees`, `DelayHidesTime`, `CatalogOutlivesOutage`, `HiddenClockIsCatalog`, `ConfirmedIsSupported` |

Each component's type invariant is checked in one of its runs, except those of
`decisions`, which are parts of the proved invariants (section 4).

What the properties come from, where it is not the code's own comments:
`ConfirmedIsSupported` is `README.md:3` and `:209` of the repository ("only a
trusted uploader or an independent consensus confirms; a score alone never
does"), `DelayHidesTime` is `README.md:55`, `HiddenClockIsCatalog`
`doc/deployment.md:214`, `RemindsOnce` `doc/web-deployment.md:223`,
`ForgetsOnlyTold` and `AlertIsSettled` the part of `doc/deployment.md:498` that
the code keeps (one alert per outage, and a recovery once it ends), and
`ArchivesWhatItSaw` the part it keeps of `README.md:117`; section 3.3 has the
rest of both.

Why the bounds are enough.

* *Lifecycle.*  Two episodes are an episode and its successor: a double
  release, a total below or above the active episode, a mapping whose origin
  is the second one, a repair of the first with the second completed.  The
  same two let the season become finished, unfinished or renumbered around the
  watch handler, and one of them be released after its query.  `announced` counts to 2, "more than once".
* *Review.*  Two uploaders are the smallest consensus, and two videos the
  smallest set of which one can win while another is rejected, expired or
  restored.  `TrustedAfter = 1` makes one confirmation trust an uploader.
  `MaxChanges = 1` in the liveness run lets trust be given or taken
  back in each of its ways; two changes (43 k states) show the same
  and take six times as long.  It is 0 where trust is not the question; blocks
  are not counted.  `ImportAlone`
  keeps a link import apart from an open form.
* *Jobs.*  Three rows are a job, the one it makes a duplicate of or that
  follows it, and a third after a recovery; two schedulers are needed only for
  a job that is executed twice.  `OneKindOfDraft` uses an anime draft or a
  collection draft: they share nothing but the queue.  Batches of two let a
  job wait while another of its batch runs.
* *Access.*  Two requests overlap, two sign-ins pass the throttle together,
  and one replacement makes one token old.  `SigningInOrUsing` looks at
  sign-ins and at the requests of a session apart; the proofs have neither
  bound nor constraint.
* *Gate.*  Two callers are a probe and a competitor, or a late answer and a
  failure; a second day renews the budget; a failure beyond the first only
  lengthens the cooldown.
* *Notices.*  One video gives the empty set, a set, and both again: with two
  changes a set goes and comes back (without a restart in between).  A threshold
  of two tells the first failure from the one that alerts.  `OneConcern` lets
  the candidates, the anime or the source change: they share the dispatcher,
  not their rows.
* *Decisions.*  Each catalogue entry is one way a platform is chosen; the rows
  of a week are a batch and a single, dated and delayed, native and dubbed,
  and any two of them compete in any order; any request may fail.  The videos
  are one that is trusted by itself, two that agree, one of the same uploader
  that shadows another, and one for each reason to be refused.
* The counters are bounded by the constants named above; nothing else
  is unbounded.  The theorems of section 4 have none of these bounds.

Deadlock is checked in every run: the program never stops, and the one
behaviour of `decisions` that ends has to reach an outcome.

### 3.2 Fairness

* `DispatchFairness` (lifecycle): the scheduler polls for ever
  (`scheduler/mod.rs:17-97`) and systemd restarts it when an error ends the
  loop (`Restart=on-failure` in `src/deploy/anipulse.service`), so a dispatch
  that has begun goes on (WF) and a row that is due again and again is at last
  taken, delivered and marked (SF): an outage of the notifier ends, and the
  process is not killed in every pass.
* `CheckFairness` (review): the same for the steps of a check.  Nothing is
  assumed of the administrator, of repairs or of a site's answers, except that
  each step of a check which is possible again and again is taken at last
  (SF), which includes that some scan finds the video again.
* `SchedulerFair` (jobs): the scheduler may be stopped again and again but not
  always at the same point, and the network answers now and then (SF); the
  time of the next synchronization comes (WF).
* `FairSpec` of the gate: a caller goes on, an answer or the timeout comes, a
  lease and an interval end (all WF).  Nothing is assumed of cooldowns or new
  days: a refused call ends.
* `FairSpec` of the notices: checks and dispatchers go on and retries come
  (WF), and of the messages sent again and again some succeed (SF).
  `MaxRestarts` bounds the restarts: a process stopped in every pass sends
  nothing.

### 3.3 Where the code does otherwise than the documents say

One of these is a run that ends in a counterexample:

* `lifecycle_next_episode`: `mark_notification_sent` only inserts the next
  episode if it is missing.  If it exists and is completed (a collection
  import, a filed history episode), the season stays in tracking with nothing
  to check.

The following are stated as properties too; added to the cfg of the run named,
TLC refutes them:

* `SyncKeepsActive` (`lifecycle_safety`): a synchronization whose total lies
  below the active episode deletes that episode, and the anime stays in
  tracking without one.
* `ResumedIsMonitored` (`lifecycle_safety`): `resume_anime_tracking` does not
  lower `tracking_start_episode`, so a season resumed before it is not
  monitored.
* `NotifiedOnce` (`lifecycle_safety`): a release is announced once at most.
  `doc/deployment.md:393` says that one timeout never produces a duplicate
  notification, `doc/thoughts.md:1960` that a channel is notified successfully
  once at most, `README.md:14` that retries are idempotent.  The transports
  send no idempotency key (`notification/feishu_app.rs:128-140`), so a message
  whose reply is lost is sent again.  `DuplicateNeedsLostReply` is what holds:
  with one dispatcher this, and a stop before the mark, are the only ways.
* `AlertIsRecorded` (`notices`): when a dispatcher that knows its alert arrived
  is done with it, the row agrees with the user.  `doc/deployment.md:498` and
  `:500` promise a recovery message after the alert of an outage.  If the source
  answers between the send and the mark, `failure_pending` has become `none`
  (`sqlite.rs:3909-3913`), the mark fits no row, and the recovery is never
  told.  If the source fails again while its recovery is being told, the user
  believes it well and is not alerted again.
* `ArchivesOnlyWatched` (`watch_safety`): all released episodes of a season are
  watched when it is archived (`README.md:117`, `doc/web-deployment.md:190`).
  The automatic archive decides on a query made before its transaction: an
  episode repaired and released again since, or the episodes of a season
  renumbered since, are archived unwatched.  An episode merely released in
  between is not (`ArchivesWhatItSaw`).
* `BlockedNotConfirmed` (`review_safety`): a scan that read the trust of an
  uploader before it was blocked stores the video as pending after the block
  has rejected what was pending, and consensus, which does not look at blocks,
  confirms it.
* `MappingIsSynced` (`jobs_sync`): `doc/web-deployment.md:172` says that a
  changed numbering creates a synchronization; `INSERT OR IGNORE` at
  `sqlite.rs:3697` refuses it while one is running, and that one may have read
  the old numbering.  The change then waits for the next one that is due,
  which comes (`MappingSettles`).
* `NoDoubleExecution` (`jobs_imports`): with jobs that outlast ten minutes two
  schedulers execute one job.  That is the design; `AddedOnce` and
  `ImportedOnce` hold regardless, and without such jobs it is proved.

Met while modelling, and no document says otherwise:

* the answer to a request that found its session gone clears the cookie
  (`web/mod.rs:290`) even if another request or sign-in has set a new one since;
* a review notice that was cancelled keeps its fingerprint, so the same set of
  candidates is not announced when it returns (`SetIsReminded` excepts it);
* a finished season with mapped numbers can keep an unfinished episode: one
  from before its origin, or, when such an episode is repaired while a
  synchronization is about to write its release plan, one after it
  (`FinishedIsQuiet` is about seasons without a mapping);
* consensus keeps each uploader's best candidate, which may shadow another of
  the same uploader that agrees, and takes the first of several agreeing groups
  in the order of a hash map: `CandidateScan` takes any;
* the estimate of a first episode is called calibrated when its chapter's date
  differs from the subject's although the time is computed.

## 4. What is proved

The theorems hold for every value of the constants that the named assumptions
of the modules allow: any number of episodes, videos, uploaders, dispatchers,
detectors, schedulers, jobs, sign-ins, requests and callers, and any bound.

**EpisodeLifecycle_proofs**: `TypeCorrect`, `RowsAlwaysAgree`,
`FinishedStaysQuiet`, `MappingAlwaysFits`, `SentIsDelivered`,
`HistoryAlwaysKept`.  The inductive invariant is

    IInv == TypeOK /\ RowsAgree /\ FinishedIsQuiet /\ TotalFitsMapping
            /\ HeldRowsExist /\ SentWasDelivered /\ DeliveredBeforeMark

`SentWasDelivered` alone is not inductive: marking a row needs that the
message being marked was delivered for *this* row (`DeliveredBeforeMark`),
which needs that a row a dispatcher holds is either still there or known to be
stale (`HeldRowsExist`); otherwise a row deleted and confirmed again could be
marked by the old handle.  `RowsAgree` and the rest follow transaction by
transaction, from a lemma on what rewriting the rows respects (`Respects`).
`HistoryAlwaysKept` is an action property over the same invariant.

`DuplicatesNeedLostReply` is about one dispatcher (the premise is part of the
property).  Its invariant,

    OnceInv == QueueIsPending /\ QueueIsDisjoint /\ AnnouncedOnce

says that what the dispatcher has still to send is pending, that a row is in one
group of its queue only, and that a row delivered once and not counted as
unmarked is marked, or in the very group being marked.  So a second delivery
needs a second taking, a taking needs a pending row, and the only pending rows
that were delivered are the unmarked ones.  What every step outside the
dispatcher does to the rows is one fact (`RowsMove`): it deletes some and adds
pending ones.

For the watch handler: `WatchTypeCorrect`; `WatchKeepsRows`, which carries all
of the above over to the program with the handler running, as its steps change
the rows through the same operations; and `ArchivesAlwaysSeen`.  Its invariant
(`SeenInv`) is that a handler past its query knows a total and saw every number
of the season with that total watched.  The archive checks the very total it is
handed against the rows of its own transaction (`ArchiveMeetsSeen`), so a
released episode lies in the range that was seen.

**CandidateReview_proofs**: `ReviewTypeCorrect`, `AlwaysOneWinner`,
`PendingAlwaysShows`, `RejectionAlwaysFinal`, `FormAlwaysFits`.  `OneWinner`,
`PendingShows` and the types of the two row variables go together (`RowsOK`):
the guard of a confirmation refuses a completed episode, and only a completed
one has a winner, so there is none before.  Nothing a detector has read takes
part in the argument, which is why stale reads cannot break it.

**DraftJobs_proofs**: `JobsTypeCorrect`, `AlwaysAddedOnce`,
`AlwaysImportedOnce`, `QueuedAlwaysHasJob`, also with jobs that overrun.
`AddedOnce` rests on `AddInv`: between the claim of a draft and the addition
the draft is claimed and nothing has been added, and only the claim opens that
interval.  `QueuedHasJob` needs `OutcomeInv`, that a worker with an outcome has
moved the draft on, so the row it closes is not one the page waits for; and
`EarlyInv`, that no row has the key before there is a draft.

For `~Overrun`, `QueueImplements`, the refinement of `JobRequests`, and
`AlwaysOneWorker`.  The invariant (`QueueInv`) is that a key
has one open row, that a row a worker holds is running and not late, and that no
two workers hold one.  `Located` then says where each request is, and every
transaction moves each request as an action of `JobRequests` or not at all.
Without `~Overrun` the theorem is false: `HeldRuns` is what it is for.

**WebAccess_proofs**: `AccessTypeCorrect`, `FailuresAlwaysBounded`,
`AlwaysDoneOnce`, `RevokedAlwaysOut`.  The bound is the one that needs an
argument: a key is blocked by the failure that reaches the limit; from then on
nobody gets past the check, and each sign-in that did before has one failure to
add (`Bound`, over the cardinality of `Under`).

**ProviderGate_proofs**: `GateTypeCorrect`, `AlwaysOneProbe`,
`LateSuccessAlwaysIgnored`.  They rest on a link between the rows and the
requests under way: those sent before a failure are exactly the late ones, while
one of them is unanswered its scope is cooling, and after the cooldown the one
under way holds the lease (`LateIsCooling`, `Guarded`).

**Notices_proofs**: `NoticesTypeCorrect` for any number of dispatchers, and
`AlwaysRemindsOnce`, `AlwaysForgetsOnlyTold` for one (`OneDispatcher`): nobody
else sends between its sending and its marking, so what it holds is still to be
announced (`ToAnnounce`), and an alert known to have arrived is what was told
last (`KnownIsTold`).  Whether the row counts the outage as told changes with
the mark of an alert only, never with a failure or an answer of the source
(`SourceSaysSame`).  With a second dispatcher, the command line's check, a set
can be announced twice.

**CandidateScan_proofs**: `ScanInvariance`, `ConfirmedIsAlwaysSupported`,
`CheckStaysWithinBudget`.  The property compares a confirmation with what a
fresh evaluation of the video would say, and the code confirms on stored rows,
some of them evaluated with details that another episode's search had read.  The
bridge is `Computed`: a stored row is what `evaluate` makes of the video for that
episode, and one that passes had its details read.  What supports a confirmation
stays, because the check is past its episode (`ConfirmedIsPast`) and writes only
rows of the episode it is at.

**ScheduleResolution_proofs**: `ResolutionInvariance`, and from it
`TimetableAlwaysAgrees`, `DelayAlwaysHidesTime`, `CatalogAlwaysOutlivesOutage`
and `HiddenClockIsAlwaysCatalog`.  The invariant is

    ResolutionInv == ResolutionTypeOK /\ StagesAgree /\ ReadKept
                     /\ HiddenClockIsCatalog /\ DelayHidesTime /\ CatalogOutlivesOutage

`StagesAgree` says what has been asked for at each stage and what cannot be
there yet.  `TimetableAgrees` is kept row by row from three lemmas about what
one more row does to the best dated row, to the narrowest undated one and to
the planned ranges (`EarliestKept`, `NarrowestKept`, `PlanningKept`); at the
end `EntryHides` reads the time off them.  `HiddenClockIsCatalog` rests on the
choice of the clock: every platform's clock that may be chosen lies near the
season's first day or was moved there (`StreamClockIsNear`), and only a clock
too far away has no time (`ExpectedTime`).

Two theorems say that the model, which leaves an order open or takes an element
by CHOOSE, hides no choice of the code: `RowOrderIsImmaterial` (rows of a
timetable in any order give the same time) and `OneClockIsSelected` (of an
entry's clocks one at most is selected).

The assumptions of these two modules type their inputs: dates, times and
numbers are integers or missing, `None` is none of them, and AnimeSchedule,
whose name marks a schedule as its own (`schedule/mod.rs:2190`), is no platform
of the catalogue.  TLC evaluates them in `decisions`.

Only model-checked: every liveness property (`PendingIsSettled`,
`TrustedIsSettled`, `MappingSettles`, `CallEnds`, `AlertIsSettled`,
`SetIsReminded`), as fairness and ENABLED are out of the prover's reach.  Every
invariant and action property of a passing run is also a theorem.

## 5. Not modelled, and why

* Parsing and formatting: HTTP, HTML, XML, JSON, the regular expressions that
  find numbers in titles, normalisation and spelling rules of titles, the match
  of an anime's name (`match_anime`): inputs of the models.
* The cache of timetables (15 minutes, 1 minute after a failure) and the
  interval and jitter of the next synchronization: a cached answer is an answer,
  and a synchronization comes at any time.
* Transports, the command line and the Cloudflare worker: no state of their
  own.
* Pages, statistics, the cover cache, the archive memory and the video library:
  nothing decides on what they read or write.
* The audit log, the password hash and signatures of cookies and forms.

What could follow, in this order: the decisions of `EpisodeLifecycle` composed
with `DraftJobs`' queue, so that a job's import and a synchronization meet the
other transactions of the rows; the video library beside `CandidateReview`;
and two sources in `Notices`.
