----------------------------- MODULE DraftJobs -----------------------------
(***************************************************************************)
(* What the management jobs of one anime do: resolve the draft of a new    *)
(* anime, read a collection for its preview, import it, and synchronize    *)
(* the schedule after its numbering was changed.  A handler of the web     *)
(* server writes first and inserts its job later; a job reads, waits for   *)
(* the network and writes; and any process can stop between two of these   *)
(* steps, after which the job is executed again from the start.            *)
(***************************************************************************)
EXTENDS JobQueue

CONSTANT MaxChanges  \* bound on the changes of the numbering

ASSUME DraftAssumption ==
  /\ Keys \subseteq {"sync", "rating", "resolve", "preview", "import"}
  /\ ArchiveKeys \subseteq {"rating"}
  /\ MaxChanges \in Nat

VARIABLES
  adraft,   \* anime_draft.state
  consumed, \* its consumed_at is set
  added,    \* anime added from it
  cdraft,   \* collection_draft.state
  expired,  \* its expires_at has passed
  preview,  \* its metadata_json is set
  imports,  \* imports of the collection that were committed
  mapping,  \* the number of the current numbering
  synced,   \* the numbering the stored schedule was fetched for
  due,      \* schedule_next_sync_at has come
  life,     \* tracking, paused (tracking, but not enabled), complete or archived
  web,      \* handlers between their two writes
  cut,      \* handlers that stopped there, and jobs that were deleted
  local     \* what each worker's handler has read

draftVars == <<adraft, consumed, added>>
collVars  == <<cdraft, expired, preview, imports>>
syncVars  == <<mapping, synced, due, life>>
webVars   == <<web, cut>>
vars      == <<queueVars, draftVars, collVars, syncVars, webVars, local>>

Life       == {"tracking", "paused", "complete", "archived"}
DraftState == {"none", "queued", "ready", "failed", "gone"}
Handlers   == {"resolve", "add", "preview", "import", "sync"}
Awaited    == {"resolve", "preview", "sync"}  \* something waits for their job
IdleLocal  == [step |-> "start", seen |-> 0]

TypeOK ==
  /\ QueueTypeOK
  /\ adraft \in DraftState /\ consumed \in BOOLEAN /\ added \in 0 .. 2
  /\ cdraft \in DraftState \cup {"completed"} /\ expired \in BOOLEAN
  /\ preview \in BOOLEAN /\ imports \in 0 .. 2
  /\ mapping \in 0 .. MaxChanges /\ synced \in 0 .. MaxChanges
  /\ due \in BOOLEAN /\ life \in Life
  /\ web \subseteq Handlers /\ cut \subseteq Awaited
  /\ local \in [Workers -> [step : {"start", "net", "fail"}, seen : 0 .. MaxChanges]]

Init ==
  /\ QueueInit
  /\ adraft = "none" /\ consumed = FALSE /\ added = 0
  /\ cdraft = "none" /\ expired = FALSE /\ preview = FALSE /\ imports = 0
  /\ mapping = 0 /\ synced = 0 /\ due = FALSE /\ life = "tracking"
  /\ web = {} /\ cut = {}
  /\ local = [w \in Workers |-> IdleLocal]

Step(w, s)     == local' = [local EXCEPT ![w].step = s]
Returns(w, o)  == HandlerEnds(w, o) /\ local' = [local EXCEPT ![w] = IdleLocal]
RowsStay       == UNCHANGED <<job, late>>
Running(w, k, s) == Executes(w, k) /\ local[w].step = s

-----------------------------------------------------------------------------
(* The web server.                                                         *)

\* The second write of a handler: the job, unless one is open.
Enqueue(k) ==
  /\ k \in web /\ EnqueueRow(k)
  /\ web' = web \ {k}
  /\ UNCHANGED <<late, worker, draftVars, collVars, syncVars, cut, local>>

\* The web process ends between the two writes.
WebAbort(h) ==
  /\ h \in web
  /\ web' = web \ {h} /\ cut' = cut \cup ({h} \cap Awaited)
  /\ UNCHANGED <<queueVars, draftVars, collVars, syncVars, local>>

\* create_anime_draft: only automatic scheduling needs a job.
CreateDraft(auto) ==
  /\ "resolve" \in Keys /\ adraft = "none"
  /\ adraft' = IF auto THEN "queued" ELSE "ready"
  /\ web' = IF auto THEN web \cup {"resolve"} ELSE web
  /\ UNCHANGED <<queueVars, consumed, added, collVars, syncVars, cut, local>>

\* Mutant: claiming a draft does not look at consumed_at.
ClaimableTwice == adraft = "ready"

\* claim_anime_draft
Claimable == adraft = "ready" /\ ~consumed

\* confirm_anime_draft, first write.  Another request may do the same.
ConfirmDraft ==
  /\ Claimable
  /\ consumed' = TRUE /\ web' = web \cup {"add"}
  /\ UNCHANGED <<queueVars, adraft, added, collVars, syncVars, cut, local>>

\* add_anime succeeds, and the release plan is written.
AddAnime ==
  /\ "add" \in web
  /\ added' = IF added < 2 THEN added + 1 ELSE added
  /\ web' = web \ {"add"}
  /\ UNCHANGED <<queueVars, adraft, consumed, collVars, syncVars, cut, local>>

\* A warning was not confirmed, or add_anime failed: release_anime_draft.
ReleaseDraft ==
  /\ "add" \in web
  /\ consumed' = FALSE /\ web' = web \ {"add"}
  /\ UNCHANGED <<queueVars, adraft, added, collVars, syncVars, cut, local>>

\* create_collection_draft
StartCollection ==
  /\ "preview" \in Keys /\ cdraft = "none" /\ life # "archived"
  /\ cdraft' = "queued" /\ web' = web \cup {"preview"}
  /\ UNCHANGED <<queueVars, draftVars, expired, preview, imports, syncVars, cut, local>>

\* The preview page is submitted; the handler has read a ready draft.
ConfirmCollection ==
  /\ "import" \in Keys /\ cdraft = "ready" /\ ~expired
  /\ web' = web \cup {"import"}
  /\ UNCHANGED <<queueVars, draftVars, collVars, syncVars, cut, local>>

\* lifecycle = 'tracking'
Tracks == life \in {"tracking", "paused"}

\* set_episode_number_mapping: the next periodic synchronization is due at once.
ChangeMapping ==
  /\ "sync" \in Keys /\ Tracks /\ mapping < MaxChanges
  /\ mapping' = mapping + 1 /\ due' = TRUE /\ web' = web \cup {"sync"}
  /\ UNCHANGED <<queueVars, draftVars, collVars, synced, life, cut, local>>

\* The hour or two a draft lives are over.
DraftExpires ==
  /\ adraft \in {"queued", "ready", "failed"} /\ adraft' = "gone"
  /\ UNCHANGED <<queueVars, consumed, added, collVars, syncVars, webVars, local>>

CollectionExpires ==
  /\ cdraft \in {"queued", "ready", "failed", "completed"}
  /\ ~expired /\ expired' = TRUE
  /\ UNCHANGED <<queueVars, draftVars, cdraft, preview, imports, syncVars, webVars, local>>

\* cleanup_web_ephemera
CollectionDeleted ==
  /\ expired /\ cdraft # "gone" /\ cdraft' = "gone"
  /\ UNCHANGED <<queueVars, draftVars, expired, preview, imports, syncVars, webVars, local>>

\* What deleting jobs and a new life change of the anime.
Becomes(l) ==
  /\ life' = l
  /\ cut' = cut \cup ({ job[i].key : i \in Dropped } \cap Awaited)
  /\ UNCHANGED <<draftVars, collVars, mapping, synced, web, local>>

\* Only the synchronization looks at this.
DueNow == due' = ("sync" \in Keys)

\* mark_anime_released_complete, which plans no further synchronization.
Complete == life # "archived" /\ CleanJobs /\ DueNow /\ Becomes("complete")

\* archive_anime
Archive == life = "complete" /\ ArchiveJobs /\ UNCHANGED due /\ Becomes("archived")

\* resume_anime_tracking makes the next synchronization due.
Resume ==
  /\ life = "complete" /\ life' = "tracking" /\ DueNow
  /\ UNCHANGED <<queueVars, draftVars, collVars, mapping, synced, webVars, local>>

\* set_anime_enabled, which only the synchronization looks at.
Pause ==
  /\ "sync" \in Keys /\ Tracks
  /\ life' = IF life = "paused" THEN "tracking" ELSE "paused"
  /\ UNCHANGED <<queueVars, draftVars, collVars, mapping, synced, due, webVars, local>>

WebStep ==
  \/ \E k \in Keys : Enqueue(k)
  \/ \E h \in Handlers : WebAbort(h)
  \/ \E auto \in BOOLEAN : CreateDraft(auto)
  \/ ConfirmDraft \/ AddAnime \/ ReleaseDraft
  \/ StartCollection \/ ConfirmCollection \/ ChangeMapping
  \/ Complete \/ Archive \/ Resume \/ Pause

-----------------------------------------------------------------------------
(* resolve_anime_draft.                                                    *)

ResolveRead(w) ==
  /\ Running(w, "resolve", "start")
  /\ Step(w, IF adraft = "queued" /\ ~consumed THEN "net" ELSE "fail")
  /\ UNCHANGED <<queueVars, draftVars, collVars, syncVars, webVars>>

\* What mark_anime_draft_ready and mark_anime_draft_failed leave.
DraftSet(s) == IF consumed \/ adraft = "gone" THEN adraft ELSE s

ResolveWrite(w) ==
  /\ Running(w, "resolve", "net")
  /\ adraft' = DraftSet("ready")
  /\ Returns(w, "ok") /\ RowsStay
  /\ UNCHANGED <<consumed, added, collVars, syncVars, webVars>>

ResolveFail(w) ==
  /\ Running(w, "resolve", "fail")
  /\ adraft' = DraftSet("failed")
  /\ Returns(w, "error") /\ RowsStay
  /\ UNCHANGED <<consumed, added, collVars, syncVars, webVars>>

-----------------------------------------------------------------------------
(* resolve_collection_preview and import_collection_preview.               *)

PreviewRead(w) ==
  /\ Running(w, "preview", "start")
  /\ Step(w, IF expired THEN "fail" ELSE "net")
  /\ UNCHANGED <<queueVars, draftVars, collVars, syncVars, webVars>>

\* Mutant: a preview read again makes its draft ready again.
PreviewableAlways == cdraft # "gone"

\* ready_collection_draft, which gives the draft another half hour.
Previewable == cdraft = "queued"

PreviewWrite(w) ==
  /\ Running(w, "preview", "net")
  /\ IF Previewable
       THEN cdraft' = "ready" /\ preview' = TRUE /\ expired' = FALSE
       ELSE UNCHANGED <<cdraft, preview, expired>>
  /\ Returns(w, "ok") /\ RowsStay
  /\ UNCHANGED <<draftVars, imports, syncVars, webVars>>

ImportRead(w) ==
  /\ Running(w, "import", "start")
  /\ IF cdraft = "completed" /\ ~expired
       THEN Returns(w, "ok") /\ RowsStay
       ELSE /\ Step(w, IF ~expired /\ preview THEN "net" ELSE "fail")
            /\ UNCHANGED queueVars
  /\ UNCHANGED <<draftVars, collVars, syncVars, webVars>>

\* import_collection, one transaction.
ImportWrite(w) ==
  /\ Running(w, "import", "net")
  /\ \/ /\ cdraft = "completed" /\ ~expired
        /\ Returns(w, "ok") /\ RowsStay
        /\ UNCHANGED collVars
     \/ /\ cdraft = "ready" /\ ~expired /\ life # "archived"
        /\ cdraft' = "completed"
        /\ imports' = IF imports < 2 THEN imports + 1 ELSE imports
        /\ Returns(w, "ok") /\ RowsStay
        /\ UNCHANGED <<expired, preview>>
     \/ /\ cdraft \notin {"completed", "ready"} \/ expired \/ life = "archived"
        /\ Step(w, "fail")
        /\ UNCHANGED <<queueVars, collVars>>
  /\ UNCHANGED <<draftVars, syncVars, webVars>>

\* Mutant: a failure is written into a completed draft, too.
FailableAlways == cdraft # "gone"

\* Mutant: only a ready draft can fail.
FailableReady == cdraft = "ready"

\* fail_collection_draft
Failable == cdraft \notin {"completed", "gone"}

CollectionFail(w) ==
  /\ Running(w, "preview", "fail") \/ Running(w, "import", "fail")
  /\ cdraft' = IF Failable THEN "failed" ELSE cdraft
  /\ Returns(w, "error") /\ RowsStay
  /\ UNCHANGED <<draftVars, expired, preview, imports, syncVars, webVars>>

\* The network, or a check of what it answered, fails.
NetworkFails(w) ==
  /\ \E k \in {"resolve", "preview", "import"} : Running(w, k, "net")
  /\ Step(w, "fail")
  /\ UNCHANGED <<queueVars, draftVars, collVars, syncVars, webVars>>

-----------------------------------------------------------------------------
(* The schedule: sync_now of a job, and sync_due of every pass.            *)

SyncRead(w) ==
  /\ Running(w, "sync", "start") /\ life # "archived"
  /\ local' = [local EXCEPT ![w] = [step |-> "net", seen |-> mapping]]
  /\ UNCHANGED <<queueVars, draftVars, collVars, syncVars, webVars>>

\* Mutant: what is stored wins over what was fetched.
SyncKeeps(w) == synced' = synced /\ due' = FALSE

\* apply_schedule_update
SyncWrites(w) == synced' = local[w].seen /\ due' = FALSE

SyncApply(w) ==
  /\ Running(w, "sync", "net") /\ Tracks
  /\ SyncWrites(w) /\ Returns(w, "ok") /\ RowsStay
  /\ UNCHANGED <<draftVars, collVars, mapping, life, webVars>>

\* An error, or the rating of an archived anime, which writes nothing here.
SyncEnds(w) ==
  /\ \/ Running(w, "sync", "start") /\ life = "archived"
     \/ Running(w, "sync", "net")
     \/ Running(w, "rating", "start")
  /\ \E o \in {"ok", "error"} :
       /\ o = "ok" => local[w].step = "start"
       /\ Returns(w, o)
  /\ RowsStay
  /\ UNCHANGED <<draftVars, collVars, syncVars, webVars>>

DueRead(w) ==
  /\ At(w, "rest") /\ local[w].step = "start" /\ due /\ life = "tracking"
  /\ local' = [local EXCEPT ![w] = [step |-> "net", seen |-> mapping]]
  /\ UNCHANGED <<queueVars, draftVars, collVars, syncVars, webVars>>

\* The due synchronization ends: applied, or tried again later
\* (mark_schedule_sync_failed).
DueApply(w) ==
  /\ At(w, "rest") /\ local[w].step = "net" /\ Tracks
  /\ SyncWrites(w) /\ Rest(w) /\ local' = [local EXCEPT ![w] = IdleLocal]
  /\ UNCHANGED <<draftVars, collVars, mapping, life, webVars>>

DueFails(w) ==
  /\ At(w, "rest") /\ local[w].step = "net"
  /\ due' = FALSE
  /\ Rest(w) /\ local' = [local EXCEPT ![w] = IdleLocal]
  /\ UNCHANGED <<draftVars, collVars, mapping, synced, life, webVars>>

NothingDue(w) ==
  /\ At(w, "rest") /\ local[w].step = "start" /\ ~(due /\ life = "tracking")
  /\ Rest(w)
  /\ UNCHANGED <<draftVars, collVars, syncVars, webVars, local>>

\* The interval is over.
GrowDue ==
  /\ "sync" \in Keys /\ ~due /\ due' = TRUE
  /\ UNCHANGED <<queueVars, draftVars, collVars, mapping, synced, life, webVars, local>>

-----------------------------------------------------------------------------

HandlerStep(w) ==
  \/ ResolveRead(w) \/ ResolveWrite(w) \/ ResolveFail(w)
  \/ PreviewRead(w) \/ PreviewWrite(w) \/ ImportRead(w) \/ ImportWrite(w)
  \/ CollectionFail(w) \/ NetworkFails(w)
  \/ SyncRead(w) \/ SyncApply(w) \/ SyncEnds(w)

DueStep(w) == DueRead(w) \/ DueApply(w) \/ DueFails(w) \/ NothingDue(w)

QueueStep(w) ==
  /\ PassStep(w)
  /\ UNCHANGED <<draftVars, collVars, syncVars, webVars, local>>

SchedulerStops(w) ==
  /\ Crash(w)
  /\ local' = [local EXCEPT ![w] = IdleLocal]
  /\ UNCHANGED <<draftVars, collVars, syncVars, webVars>>

TenMinutes(i) ==
  /\ GrowLate(i)
  /\ UNCHANGED <<draftVars, collVars, syncVars, webVars, local>>

TimeStep ==
  \/ DraftExpires \/ CollectionExpires \/ CollectionDeleted \/ GrowDue
  \/ \E i \in Ids : TenMinutes(i)

SchedulerStep(w) == QueueStep(w) \/ HandlerStep(w) \/ DueStep(w)

Next ==
  \/ WebStep \/ TimeStep
  \/ \E w \in Workers : SchedulerStep(w) \/ SchedulerStops(w)

Spec == Init /\ [][Next]_vars

\* A scheduler goes on with its pass.  It may be stopped again and again, but
\* not always at the same point, and the network answers now and then.
SchedulerFair(w) ==
  /\ SF_vars(Recover(w) /\ QueueStep(w)) /\ SF_vars(Claim(w) /\ QueueStep(w))
  /\ SF_vars(Take(w) /\ QueueStep(w)) /\ SF_vars(FinishJob(w) /\ QueueStep(w))
  /\ SF_vars(EndBatch(w) /\ QueueStep(w))
  /\ SF_vars(SyncRead(w)) /\ SF_vars(SyncApply(w) \/ SyncEnds(w))
  /\ SF_vars(DueRead(w)) /\ SF_vars(DueApply(w)) /\ SF_vars(NothingDue(w))

FairSpec == Spec /\ WF_vars(GrowDue) /\ \A w \in Workers : SchedulerFair(w)

-----------------------------------------------------------------------------
(* Properties.                                                             *)

\* Whatever stops and is executed again, a draft is added as an anime at most
\* once, and one that was added is never offered again (claim_anime_draft,
\* release_anime_draft).
AddedOnce == added <= 1 /\ (added = 1 => consumed \/ adraft = "gone")

\* A collection is imported at most once, its draft says so, and no job that
\* runs late or again takes that back (import_collection, the state guards of
\* ready_collection_draft and fail_collection_draft).
ImportedOnce ==
  /\ imports <= 1
  /\ imports = 1 => cdraft \in {"completed", "gone"}
  /\ cdraft = "completed" => imports = 1

\* A page that says "being read" tells the truth: behind a queued draft there is
\* a job, queued or running or with a worker, or the handler about to insert it,
\* unless that handler was stopped or the job was deleted with the anime's.
QueuedHasJob ==
  /\ adraft = "queued" => Active("resolve") \/ "resolve" \in web \cup cut
  /\ cdraft = "queued" => Active("preview") \/ "preview" \in web \cup cut

\* The queue keeps its promises: it implements JobRequests.
ImplementsRequests == Requests!RequestSpec

\* No job is executed by two schedulers at once, nor twice by one.
NoDoubleExecution ==
  \A v, w \in Workers : v # w => HeldBy(v) \cap HeldBy(w) = {}

\* A changed numbering is followed by a synchronization that knows it: while
\* none is due, queued or under way, the schedule is the one for it.
MappingIsSynced ==
  \/ mapping = synced \/ ~Tracks \/ due \/ Active("sync") \/ "sync" \in web \cup cut
  \/ \E w \in Workers : At(w, "rest") /\ local[w].step = "net"

\* Whatever is lost on the way, a changed numbering reaches the schedule, unless
\* the anime is paused, completed or archived meanwhile (schedule_next_sync_at, sync_due).
MappingSettles == mapping # synced ~> mapping = synced \/ life # "tracking"

=============================================================================
