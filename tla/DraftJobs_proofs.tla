-------------------------- MODULE DraftJobs_proofs --------------------------
(***************************************************************************)
(* For any number of schedulers, jobs and changes: the types, that a draft *)
(* is added and a collection imported at most once, that behind a draft    *)
(* shown as queued there is a job, and that the queue implements           *)
(* JobRequests.                                                            *)
(*                                                                         *)
(* The job behind a draft rests on what an executed job leaves: a worker   *)
(* that has come to an outcome has moved the draft on, so the row it takes *)
(* out of the queue is not one the page still waits for.                   *)
(***************************************************************************)
EXTENDS DraftJobs, WellFoundedInduction, TLAPS

-----------------------------------------------------------------------------
(* The rows.                                                               *)

LEMMA IdsArePositive == Ids \subseteq Nat \ {0} /\ NoJob \notin Ids
BY QueueAssumption DEF Ids, NoJob

LEMMA FirstExists ==
  ASSUME NEW T \in SUBSET Ids, T # {}
  PROVE  \E i \in T : \A j \in T : i <= j
<1>1. T \subseteq Nat
  BY IdsArePositive
<1>2. PICK i \in T : \A j \in T : ~ (<<j, i>> \in OpToRel(<, Nat))
  BY <1>1, NatLessThanWellFounded, WFMin
<1>3. ASSUME NEW j \in T PROVE i <= j
  <2>1. <<j, i>> \notin { ss \in Nat \X Nat : ss[1] < ss[2] }
    BY <1>2 DEF OpToRel
  <2> QED BY <2>1, <1>1
<1> QED BY <1>3

LEMMA UsedIsRow ==
  ASSUME QueueTypeOK, NEW i \in Ids, Used(i)
  PROVE  job[i] \in [key : Keys, state : RowState]
<1>1. NoRow.state = "none"
  BY DEF NoRow
<1>2. job[i].state # "none"
  BY DEF Used
<1> QED BY <1>1, <1>2 DEF QueueTypeOK, Row

LEMMA MovedTyped ==
  ASSUME QueueTypeOK, NEW I \in SUBSET Ids, \A i \in I : Used(i), NEW s \in RowState
  PROVE  Moved(job, I, s) \in [Ids -> Row]
<1> SUFFICES ASSUME NEW i \in Ids
             PROVE  (IF i \in I THEN [job[i] EXCEPT !.state = s] ELSE job[i]) \in Row
  BY DEF Moved
<1>1. job[i] \in Row
  BY DEF QueueTypeOK
<1>2. CASE i \in I
  <2>1. job[i] \in [key : Keys, state : RowState]
    BY <1>2, UsedIsRow
  <2>2. [job[i] EXCEPT !.state = s] \in [key : Keys, state : RowState]
    BY <2>1
  <2> QED BY <1>2, <2>2 DEF Row
<1> QED BY <1>1, <1>2

LEMMA InsertedTyped ==
  ASSUME NEW jobs \in [Ids -> Row], NEW i \in Ids, NEW k \in Keys
  PROVE  Inserted(jobs, i, k) \in [Ids -> Row]
<1>1. [key |-> k, state |-> "queued"] \in Row
  BY DEF Row, RowState
<1> QED BY <1>1 DEF Inserted

LEMMA RowsInState ==
  ASSUME NEW s \in RowState
  PROVE  InState(s) \subseteq Ids /\ \A i \in InState(s) : Used(i)
BY DEF InState, Used, RowState

LEMMA EnqueueTyped ==
  ASSUME QueueTypeOK, NEW k \in Keys, EnqueueRow(k), late' = late, worker' = worker
  PROVE  QueueTypeOK'
<1>1. CASE job' = job
  BY <1>1 DEF QueueTypeOK, InState
<1>2. CASE \E i \in Ids : FreshId(i) /\ job' = Inserted(job, i, k)
  <2>1. PICK i \in Ids : FreshId(i) /\ job' = Inserted(job, i, k)
    BY <1>2
  <2>2. job' \in [Ids -> Row]
    BY <2>1, InsertedTyped DEF QueueTypeOK
  <2>3. \A j \in Ids \ {i} : job'[j] = job[j]
    BY <2>1 DEF Inserted, QueueTypeOK
  <2>4. late \subseteq InState("running")'
    BY <2>1, <2>3 DEF QueueTypeOK, InState, FreshId, Used
  <2> QED BY <2>2, <2>4 DEF QueueTypeOK
<1> QED BY <1>1, <1>2 DEF EnqueueRow

LEMMA DroppedUsed == Dropped \subseteq InState("queued") /\ Dropped \subseteq Ids /\ \A i \in Dropped : Used(i)
BY DEF Dropped, InState, Used

LEMMA CleanTyped ==
  ASSUME QueueTypeOK, CleanJobs
  PROVE  QueueTypeOK'
<1>1. job' \in [Ids -> Row]
  BY MovedTyped, DroppedUsed DEF CleanJobs, RowState
<1>2. late \subseteq InState("running")'
  BY DroppedUsed DEF QueueTypeOK, CleanJobs, Moved, InState
<1> QED BY <1>1, <1>2 DEF QueueTypeOK, CleanJobs

LEMMA ArchiveTyped ==
  ASSUME QueueTypeOK, ArchiveJobs
  PROVE  QueueTypeOK'
<1> DEFINE rest == Moved(job, Dropped, "done")
<1>1. rest \in [Ids -> Row]
  BY MovedTyped, DroppedUsed DEF RowState
<1>2. \A i \in late : rest[i].state = "running"
  BY DroppedUsed DEF QueueTypeOK, Moved, InState
<1>3. CASE job' = rest
  BY <1>1, <1>2, <1>3 DEF QueueTypeOK, ArchiveJobs, InState
<1>4. CASE \E k \in ArchiveKeys, i \in Ids : FreshId(i) /\ job' = Inserted(rest, i, k)
  <2>1. PICK k \in ArchiveKeys, i \in Ids : FreshId(i) /\ job' = Inserted(rest, i, k)
    BY <1>4
  <2>2. job' \in [Ids -> Row]
    <3> HIDE DEF rest
    <3> QED BY <1>1, <2>1, QueueAssumption, InsertedTyped
  <2>3. i \notin late
    BY <2>1 DEF QueueTypeOK, InState, FreshId, Used
  <2>4. \A j \in Ids \ {i} : job'[j] = rest[j]
    <3> HIDE DEF rest
    <3> QED BY <1>1, <2>1 DEF Inserted
  <2>5. late \subseteq InState("running")'
    <3> HIDE DEF rest
    <3> QED BY <1>2, <2>3, <2>4 DEF QueueTypeOK, InState
  <2> QED BY <2>2, <2>5 DEF QueueTypeOK, ArchiveJobs
<1> QED BY <1>3, <1>4 DEF ArchiveJobs

LEMMA WorkerTyped ==
  ASSUME QueueTypeOK, NEW w \in Workers
  PROVE  /\ worker[w].pc \in {"recover", "claim", "work", "rest"} /\ worker[w].todo \subseteq Ids
         /\ worker[w].id \in Ids \cup {NoJob} /\ worker[w].outcome \in {"none", "ok", "error"}
         /\ worker[w] \in WorkerRecord /\ IdleWorker \in WorkerRecord
BY DEF QueueTypeOK, WorkerRecord, IdleWorker

LEMMA PassTyped ==
  ASSUME QueueTypeOK, NEW w \in Workers, PassStep(w)
  PROVE  QueueTypeOK'
<1> USE WorkerTyped
<1>1. CASE Recover(w)
  <2>1. Stale \subseteq Ids /\ \A i \in Stale : Used(i)
    BY DEF Stale, InState, Used
  <2>2. job' \in [Ids -> Row]
    BY <1>1, <2>1, MovedTyped DEF Recover, RowState
  <2>3. late' = {}
    BY <1>1 DEF Recover, Stale, QueueTypeOK
  <2>4. worker' \in [Workers -> WorkerRecord]
    BY <1>1 DEF Recover, QueueTypeOK, WorkerRecord
  <2> QED BY <2>2, <2>3, <2>4 DEF QueueTypeOK
<1>2. CASE Claim(w)
  <2>1. PICK I \in SUBSET InState("queued") :
          /\ job' = Moved(job, I, "running") /\ late' = late \ I
          /\ worker' = [worker EXCEPT ![w].pc = "work", ![w].todo = I]
    BY <1>2 DEF Claim
  <2>2. I \subseteq Ids /\ \A i \in I : Used(i)
    BY DEF InState, Used
  <2>3. job' \in [Ids -> Row]
    BY <2>1, <2>2, MovedTyped DEF RowState
  <2>4. late' \subseteq InState("running")'
    BY <2>1, <2>2 DEF QueueTypeOK, InState, Moved
  <2>5. worker' \in [Workers -> WorkerRecord]
    BY <2>1, <2>2, ZenonT(80) DEF QueueTypeOK, WorkerRecord
  <2> QED BY <2>3, <2>4, <2>5 DEF QueueTypeOK
<1>3. CASE Take(w)
  <2> DEFINE first == CHOOSE j \in worker[w].todo : \A l \in worker[w].todo : j <= l
  <2>1. first \in worker[w].todo
    BY <1>3, FirstExists DEF Take
  <2>2. worker' \in [Workers -> WorkerRecord]
    <3>1. worker' = [worker EXCEPT ![w].id = first, ![w].todo = worker[w].todo \ {first}]
      BY <1>3 DEF Take, QueueTypeOK
    <3> HIDE DEF first
    <3> QED BY <2>1, <3>1 DEF QueueTypeOK, WorkerRecord
  <2> QED BY <1>3, <2>2 DEF Take, QueueTypeOK, InState
<1>4. CASE FinishJob(w)
  <2> DEFINE I == {worker[w].id} \cap InState("running")
  <2>1. I \subseteq Ids /\ \A i \in I : Used(i)
    BY DEF InState, Used
  <2>2. job' \in [Ids -> Row]
    BY <1>4, <2>1, MovedTyped DEF FinishJob, RowState
  <2>3. late' \subseteq InState("running")'
    BY <1>4 DEF FinishJob, QueueTypeOK, InState, Moved
  <2>4. worker' \in [Workers -> WorkerRecord]
    BY <1>4 DEF FinishJob, QueueTypeOK, WorkerRecord
  <2> QED BY <2>2, <2>3, <2>4 DEF QueueTypeOK
<1>5. CASE EndBatch(w)
  BY <1>5 DEF EndBatch, QueueTypeOK, WorkerRecord, InState
<1> QED BY <1>1, <1>2, <1>3, <1>4, <1>5 DEF PassStep

LEMMA SmallStepsTyped ==
  ASSUME QueueTypeOK
  PROVE  /\ \A w \in Workers : Rest(w) => QueueTypeOK'
         /\ \A w \in Workers : Crash(w) => QueueTypeOK'
         /\ \A i \in Ids : GrowLate(i) => QueueTypeOK'
         /\ \A w \in Workers, o \in {"ok", "error"} :
              HandlerEnds(w, o) /\ RowsStay => QueueTypeOK'
         /\ UNCHANGED queueVars => QueueTypeOK'
<1> USE WorkerTyped DEF QueueTypeOK, InState
<1>1. ASSUME NEW w \in Workers, Rest(w) PROVE QueueTypeOK'
  BY <1>1 DEF Rest, WorkerRecord
<1>2. ASSUME NEW w \in Workers, Crash(w) PROVE QueueTypeOK'
  BY <1>2 DEF Crash
<1>3. ASSUME NEW i \in Ids, GrowLate(i) PROVE QueueTypeOK'
  BY <1>3 DEF GrowLate
<1>4. ASSUME NEW w \in Workers, NEW o \in {"ok", "error"}, HandlerEnds(w, o), RowsStay
      PROVE  QueueTypeOK'
  BY <1>4 DEF HandlerEnds, RowsStay, WorkerRecord
<1>5. ASSUME UNCHANGED queueVars PROVE QueueTypeOK'
  BY <1>5 DEF queueVars
<1> QED BY <1>1, <1>2, <1>3, <1>4, <1>5

-----------------------------------------------------------------------------
(* Types.                                                                  *)

LEMMA IdleLocalTyped == MaxChanges \in Nat /\ IdleLocal.step = "start" /\ IdleLocal.seen = 0
                        /\ IdleLocal \in [step : {"start", "net", "fail"}, seen : 0 .. MaxChanges]
BY DraftAssumption DEF IdleLocal

\* What a handler's step does to the types: its record stays well typed.
LEMMA StepTyped ==
  ASSUME TypeOK, NEW w \in Workers
  PROVE  /\ \A s \in {"start", "net", "fail"} :
              Step(w, s) => local' \in [Workers -> [step : {"start", "net", "fail"}, seen : 0 .. MaxChanges]]
         /\ \A o \in {"ok", "error"} : Returns(w, o) /\ RowsStay =>
              QueueTypeOK' /\ local' \in [Workers -> [step : {"start", "net", "fail"}, seen : 0 .. MaxChanges]]
         /\ UNCHANGED queueVars => QueueTypeOK'
BY SmallStepsTyped, IdleLocalTyped DEF TypeOK, Step, Returns

LEMMA WebTyped ==
  ASSUME TypeOK, WebStep
  PROVE  TypeOK'
<1> USE SmallStepsTyped DEF TypeOK, draftVars, collVars, syncVars, webVars, queueVars
<1>1. ASSUME NEW k \in Keys, Enqueue(k) PROVE TypeOK'
  BY <1>1, EnqueueTyped DEF Enqueue
<1>2. ASSUME NEW h \in Handlers, WebAbort(h) PROVE TypeOK'
  BY <1>2 DEF WebAbort
<1>3. ASSUME NEW auto \in BOOLEAN, CreateDraft(auto) PROVE TypeOK'
  BY <1>3 DEF CreateDraft, DraftState, Handlers
<1>4. ASSUME ConfirmDraft PROVE TypeOK'
  BY <1>4 DEF ConfirmDraft, Handlers
<1>5. ASSUME AddAnime PROVE TypeOK'
  BY <1>5 DEF AddAnime
<1>6. ASSUME ReleaseDraft PROVE TypeOK'
  BY <1>6 DEF ReleaseDraft
<1>7. ASSUME StartCollection PROVE TypeOK'
  BY <1>7 DEF StartCollection, DraftState, Handlers
<1>8. ASSUME ConfirmCollection PROVE TypeOK'
  BY <1>8 DEF ConfirmCollection, Handlers
<1>9. ASSUME ChangeMapping PROVE TypeOK'
  BY <1>9, IdleLocalTyped DEF ChangeMapping, Handlers
<1>10. ASSUME Complete PROVE TypeOK'
  BY <1>10, CleanTyped DEF Complete, DueNow, Becomes, Life
<1>11. ASSUME Archive PROVE TypeOK'
  BY <1>11, ArchiveTyped DEF Archive, Becomes, Life
<1>12. ASSUME Resume PROVE TypeOK'
  BY <1>12 DEF Resume, DueNow, Life
<1>13. ASSUME Pause PROVE TypeOK'
  BY <1>13 DEF Pause, Life
<1> QED BY <1>1, <1>2, <1>3, <1>4, <1>5, <1>6, <1>7, <1>8, <1>9, <1>10, <1>11, <1>12, <1>13 DEF WebStep

LEMMA HandlerTyped ==
  ASSUME TypeOK, NEW w \in Workers, HandlerStep(w)
  PROVE  TypeOK'
<1> USE StepTyped DEF TypeOK, draftVars, collVars, syncVars, webVars
<1>1. CASE ResolveRead(w)
  BY <1>1 DEF ResolveRead
<1>2. CASE ResolveWrite(w)
  BY <1>2 DEF ResolveWrite, DraftSet, DraftState
<1>3. CASE ResolveFail(w)
  BY <1>3 DEF ResolveFail, DraftSet, DraftState
<1>4. CASE PreviewRead(w)
  BY <1>4 DEF PreviewRead
<1>5. CASE PreviewWrite(w)
  BY <1>5 DEF PreviewWrite, DraftState
<1>6. CASE ImportRead(w)
  BY <1>6 DEF ImportRead
<1>7. CASE ImportWrite(w)
  BY <1>7 DEF ImportWrite
<1>8. CASE CollectionFail(w)
  BY <1>8 DEF CollectionFail, DraftState
<1>9. CASE NetworkFails(w)
  BY <1>9 DEF NetworkFails
<1>10. CASE SyncRead(w)
  BY <1>10 DEF SyncRead, queueVars
<1>11. CASE SyncApply(w)
  BY <1>11 DEF SyncApply, SyncWrites
<1>12. CASE SyncEnds(w)
  BY <1>12 DEF SyncEnds
<1> QED BY <1>1, <1>2, <1>3, <1>4, <1>5, <1>6, <1>7, <1>8, <1>9, <1>10, <1>11, <1>12 DEF HandlerStep

LEMMA OtherTyped ==
  ASSUME TypeOK, \/ TimeStep
                 \/ \E w \in Workers : QueueStep(w) \/ DueStep(w) \/ SchedulerStops(w)
  PROVE  TypeOK'
<1> USE SmallStepsTyped, IdleLocalTyped DEF TypeOK, draftVars, collVars, syncVars, webVars
<1>1. ASSUME DraftExpires PROVE TypeOK'
  BY <1>1 DEF DraftExpires, DraftState
<1>2. ASSUME CollectionExpires PROVE TypeOK'
  BY <1>2 DEF CollectionExpires
<1>3. ASSUME CollectionDeleted PROVE TypeOK'
  BY <1>3 DEF CollectionDeleted, DraftState
<1>4. ASSUME GrowDue PROVE TypeOK'
  BY <1>4 DEF GrowDue
<1>5. ASSUME NEW i \in Ids, TenMinutes(i) PROVE TypeOK'
  BY <1>5 DEF TenMinutes
<1>6. ASSUME NEW w \in Workers, QueueStep(w) PROVE TypeOK'
  BY <1>6, PassTyped DEF QueueStep
<1>7. ASSUME NEW w \in Workers, DueRead(w) PROVE TypeOK'
  BY <1>7 DEF DueRead
<1>8. ASSUME NEW w \in Workers, DueApply(w) PROVE TypeOK'
  BY <1>8 DEF DueApply, SyncWrites
<1>9. ASSUME NEW w \in Workers, DueFails(w) PROVE TypeOK'
  BY <1>9 DEF DueFails
<1>10. ASSUME NEW w \in Workers, NothingDue(w) PROVE TypeOK'
  BY <1>10 DEF NothingDue
<1>11. ASSUME NEW w \in Workers, SchedulerStops(w) PROVE TypeOK'
  BY <1>11 DEF SchedulerStops
<1> QED BY <1>1, <1>2, <1>3, <1>4, <1>5, <1>6, <1>7, <1>8, <1>9, <1>10, <1>11 DEF TimeStep, DueStep

LEMMA InitTyped == Init => TypeOK
<1> SUFFICES ASSUME Init PROVE TypeOK
  OBVIOUS
<1>1. job \in [Ids -> Row] /\ late \subseteq InState("running")
  BY DEF Init, QueueInit, Row
<1>2. worker \in [Workers -> WorkerRecord]
  BY DEF Init, QueueInit, IdleWorker, WorkerRecord
<1>3. local \in [Workers -> [step : {"start", "net", "fail"}, seen : 0 .. MaxChanges]]
  BY IdleLocalTyped DEF Init
<1>4. mapping \in 0 .. MaxChanges /\ synced \in 0 .. MaxChanges
  BY IdleLocalTyped DEF Init
<1>5. consumed \in BOOLEAN /\ expired \in BOOLEAN /\ preview \in BOOLEAN /\ due \in BOOLEAN
  BY DEF Init
<1>6. added \in 0 .. 2 /\ imports \in 0 .. 2
  BY DEF Init
<1>7. adraft \in DraftState /\ cdraft \in DraftState \cup {"completed"} /\ life \in Life
  BY DEF Init, DraftState, Life
<1>8. web \subseteq Handlers /\ cut \subseteq Awaited
  BY DEF Init
<1> QED BY <1>1, <1>2, <1>3, <1>4, <1>5, <1>6, <1>7, <1>8 DEF TypeOK, QueueTypeOK

LEMMA NextTyped ==
  ASSUME TypeOK, [Next]_vars
  PROVE  TypeOK'
<1>1. CASE Next
  BY <1>1, WebTyped, HandlerTyped, OtherTyped DEF Next, SchedulerStep
<1>2. CASE UNCHANGED vars
  BY <1>2, SmallStepsTyped DEF vars, TypeOK, draftVars, collVars, syncVars, webVars
<1> QED BY <1>1, <1>2

-----------------------------------------------------------------------------
(* A draft is added once, a collection imported once.                      *)

\* While somebody is about to add the anime, the draft is claimed and not added;
\* it stays claimed once it was.
AddInv ==
  /\ "add" \in web => consumed /\ added = 0
  /\ added > 0 => consumed
  /\ added <= 1

\* Only the two writes of a confirmation, and giving the draft back, touch this.
AddUntouched == UNCHANGED <<consumed, added>> /\ ("add" \in web' => "add" \in web)

LEMMA AddFootprint ==
  ASSUME TypeOK, [Next]_vars
  PROVE  ConfirmDraft \/ AddAnime \/ ReleaseDraft \/ AddUntouched
<1> USE DEF AddUntouched, draftVars, webVars, vars, Handlers
<1>1. CASE WebStep
  BY <1>1 DEF WebStep, Enqueue, WebAbort, CreateDraft, StartCollection, ConfirmCollection,
              ChangeMapping, Complete, Archive, Resume, Pause, Becomes
<1>2. CASE TimeStep
  BY <1>2 DEF TimeStep, DraftExpires, CollectionExpires, CollectionDeleted, GrowDue, TenMinutes
<1>3. ASSUME NEW w \in Workers, HandlerStep(w)
      PROVE  AddUntouched
  BY <1>3 DEF HandlerStep, ResolveRead, ResolveWrite, ResolveFail, PreviewRead, PreviewWrite,
              ImportRead, ImportWrite, CollectionFail, NetworkFails, SyncRead, SyncApply, SyncEnds
<1>4. ASSUME NEW w \in Workers, QueueStep(w) \/ DueStep(w) \/ SchedulerStops(w)
      PROVE  AddUntouched
  BY <1>4 DEF QueueStep, DueStep, DueRead, DueApply, DueFails, NothingDue, SchedulerStops
<1>5. CASE UNCHANGED vars
  BY <1>5
<1> QED BY <1>1, <1>2, <1>3, <1>4, <1>5 DEF Next, SchedulerStep

LEMMA AddKept ==
  ASSUME TypeOK, AddInv, [Next]_vars
  PROVE  AddInv'
<1> USE DEF TypeOK, AddInv
<1>1. CASE ConfirmDraft
  BY <1>1 DEF ConfirmDraft, Claimable
<1>2. CASE AddAnime
  BY <1>2 DEF AddAnime
<1>3. CASE ReleaseDraft
  BY <1>3 DEF ReleaseDraft
<1>4. CASE AddUntouched
  BY <1>4 DEF AddUntouched
<1> QED BY <1>1, <1>2, <1>3, <1>4, AddFootprint

LEMMA ImportKept ==
  ASSUME TypeOK, ImportedOnce, [Next]_vars
  PROVE  ImportedOnce'
<1> USE DEF ImportedOnce, collVars, vars
<1>1. CASE WebStep
  BY <1>1 DEF WebStep, Enqueue, WebAbort, CreateDraft, ConfirmDraft, AddAnime, ReleaseDraft,
              StartCollection, ConfirmCollection, ChangeMapping, Complete, Archive, Resume, Pause, Becomes
<1>2. CASE TimeStep
  BY <1>2 DEF TimeStep, DraftExpires, CollectionExpires, CollectionDeleted, GrowDue, TenMinutes
<1>3. ASSUME NEW w \in Workers, HandlerStep(w)
      PROVE  ImportedOnce'
  <2>1. CASE PreviewWrite(w)
    BY <2>1 DEF PreviewWrite, Previewable
  <2>2. CASE ImportWrite(w)
    BY <2>2 DEF ImportWrite, TypeOK
  <2>3. CASE CollectionFail(w)
    BY <2>3 DEF CollectionFail, Failable
  <2>4. CASE UNCHANGED collVars
    BY <2>4
  <2> QED BY <1>3, <2>1, <2>2, <2>3, <2>4
          DEF HandlerStep, ResolveRead, ResolveWrite, ResolveFail, PreviewRead, ImportRead,
              NetworkFails, SyncRead, SyncApply, SyncEnds
<1>4. ASSUME NEW w \in Workers, QueueStep(w) \/ DueStep(w) \/ SchedulerStops(w)
      PROVE  ImportedOnce'
  BY <1>4 DEF QueueStep, DueStep, DueRead, DueApply, DueFails, NothingDue, SchedulerStops
<1>5. CASE UNCHANGED vars
  BY <1>5
<1> QED BY <1>1, <1>2, <1>3, <1>4, <1>5 DEF Next, SchedulerStep

-----------------------------------------------------------------------------
(* Behind a queued draft there is a job.                                   *)

\* What a worker with an outcome has left: the draft of its job is not queued.
OutcomeInv ==
  \A w \in Workers : worker[w].outcome # "none" =>
    /\ worker[w].id \in Ids /\ Used(worker[w].id)
    /\ job[worker[w].id].key = "resolve" => adraft # "queued"
    /\ job[worker[w].id].key = "preview" => cdraft # "queued"

\* No job is asked for, and no row has its key, before there is a draft.
EarlyInv ==
  /\ adraft = "none" => "resolve" \notin web /\ \A i \in Ids : job[i].key # "resolve"
  /\ cdraft = "none" => "preview" \notin web /\ \A i \in Ids : job[i].key # "preview"

\* A claimed draft is ready, until it expires.
ClaimedInv == consumed => adraft \in {"ready", "gone"}

\* The keys of the jobs that fill a draft.
DraftKeys == {"resolve", "preview"}

\* Used rows keep their key, and no row gets the key of a draft but from its handler.
KeysKept ==
  \A i \in Ids :
    /\ Used(i) => Used(i)' /\ job'[i].key = job[i].key
    /\ job'[i].key \in DraftKeys /\ job'[i].key # job[i].key
         => job'[i].key \in web /\ Enqueue(job'[i].key)

\* A job stays open unless it was dropped, which is noted, or executed.
OpenKept ==
  \A k \in DraftKeys :
    Active(k) => \/ Active(k)' \/ k \in cut'
                 \/ \E w \in Workers : FinishJob(w) /\ job[worker[w].id].key = k

LEMMA MovedKeeps ==
  ASSUME QueueTypeOK, NEW I \in SUBSET Ids, NEW s \in RowState, job' = Moved(job, I, s),
         \A i \in I : Used(i)
  PROVE  /\ \A i \in Ids : job'[i].key = job[i].key /\ (Used(i) => Used(i)')
         /\ \A i \in Ids \ I : job'[i] = job[i]
         /\ \A i \in I : job'[i].state = s
<1> SUFFICES ASSUME NEW i \in Ids
             PROVE  /\ job'[i].key = job[i].key /\ (Used(i) => Used(i)')
                    /\ i \notin I => job'[i] = job[i]
                    /\ i \in I => job'[i].state = s
  OBVIOUS
<1>1. CASE i \in I
  <2>2. job[i] \in [key : Keys, state : RowState]
    BY <1>1, UsedIsRow
  <2>3. job'[i] = [job[i] EXCEPT !.state = s]
    BY <1>1 DEF Moved
  <2>4. job'[i].key = job[i].key /\ job'[i].state = s
    BY <2>2, <2>3
  <2> QED BY <1>1, <2>4 DEF Used, RowState
<1>2. CASE i \notin I
  BY <1>2 DEF Moved, Used
<1> QED BY <1>1, <1>2

LEMMA SameJobsKeep ==
  ASSUME job' = job
  PROVE  KeysKept /\ OpenKept
BY DEF KeysKept, OpenKept, Used, Active, ActiveIds

\* Rows that return to the queue or start to run are as open as before.
LEMMA OpenMovesKeep ==
  ASSUME QueueTypeOK, NEW I \in SUBSET Ids, NEW s \in {"queued", "running"},
         job' = Moved(job, I, s), \A i \in I : Used(i)
  PROVE  KeysKept /\ OpenKept
<1>1. s \in RowState
  BY DEF RowState
<1>2. KeysKept
  BY <1>1, MovedKeeps DEF KeysKept
<1>3. ASSUME NEW k \in DraftKeys, NEW i \in ActiveIds(k) PROVE i \in ActiveIds(k)'
  BY <1>1, MovedKeeps, SMTT(40) DEF ActiveIds
<1> QED BY <1>2, <1>3 DEF OpenKept, Active

LEMMA EnqueueKeeps ==
  ASSUME TypeOK, NEW k \in Keys, Enqueue(k)
  PROVE  KeysKept /\ OpenKept /\ Active(k)'
<1>1. CASE Active(k) /\ job' = job
  BY <1>1, SameJobsKeep DEF Active, ActiveIds
<1>2. CASE \E i \in Ids : FreshId(i) /\ job' = Inserted(job, i, k)
  <2>1. PICK i \in Ids : FreshId(i) /\ job' = Inserted(job, i, k)
    BY <1>2
  <2>2. /\ \A j \in Ids \ {i} : job'[j] = job[j]
        /\ job'[i] = [key |-> k, state |-> "queued"]
    BY <2>1 DEF Inserted, TypeOK, QueueTypeOK
  <2>3. job[i].state = "none"
    BY <2>1 DEF FreshId, Used
  <2>4. KeysKept
    BY <2>2, <2>3 DEF KeysKept, Used, Enqueue
  <2>5. ASSUME NEW q \in DraftKeys, NEW j \in ActiveIds(q) PROVE j \in ActiveIds(q)'
    BY <2>2, <2>3 DEF ActiveIds
  <2>6. i \in ActiveIds(k)'
    BY <2>2 DEF ActiveIds
  <2> QED BY <2>4, <2>5, <2>6 DEF OpenKept, Active
<1> QED BY <1>1, <1>2 DEF Enqueue, EnqueueRow, TakesRow

\* Jobs that are deleted are noted in cut.
LEMMA DropKeeps ==
  ASSUME TypeOK, NEW l, Becomes(l), NEW rest, rest = Moved(job, Dropped, "done"),
         job' = rest \/ \E i \in Ids : FreshId(i) /\ job' = Inserted(rest, i, "rating")
  PROVE  KeysKept /\ OpenKept
<1>1. \A j \in Ids : j \notin Dropped => rest[j] = job[j]
  BY DEF Moved
<1>2. \A j \in Ids : Used(j) => rest[j].key = job[j].key /\ rest[j].state # "none"
  <2> SUFFICES ASSUME NEW j \in Dropped
               PROVE  rest[j].key = job[j].key /\ rest[j].state # "none"
    BY <1>1 DEF Used
  <2>1. j \in Ids /\ Used(j)
    BY DroppedUsed
  <2>2. job[j] \in [key : Keys, state : RowState]
    BY <2>1, UsedIsRow DEF TypeOK
  <2>3. rest[j] = [job[j] EXCEPT !.state = "done"]
    BY <2>1 DEF Moved
  <2> QED BY <2>2, <2>3
<1>3. rest \in [Ids -> Row]
  BY MovedTyped, DroppedUsed DEF RowState, TypeOK
<1>4. \A j \in Ids : /\ Used(j) => job'[j] = rest[j]
                     /\ job'[j] = rest[j] \/ job'[j].key = "rating"
  <2>1. CASE job' = rest
    BY <2>1
  <2>2. ASSUME NEW i \in Ids, FreshId(i), job' = Inserted(rest, i, "rating")
        PROVE  \A j \in Ids : /\ Used(j) => job'[j] = rest[j]
                              /\ job'[j] = rest[j] \/ job'[j].key = "rating"
    BY <2>2, <1>3 DEF Inserted, FreshId
  <2> QED BY <2>1, <2>2
<1>5. KeysKept
  <2> SUFFICES ASSUME NEW j \in Ids
               PROVE  /\ Used(j) => Used(j)' /\ job'[j].key = job[j].key
                      /\ job'[j].key \in DraftKeys => job'[j].key = job[j].key
    BY DEF KeysKept
  <2>1. CASE Used(j)
    BY <2>1, <1>2, <1>4 DEF Used
  <2>2. CASE ~Used(j)
    <3>1. rest[j] = job[j]
      BY <2>2, <1>1, DroppedUsed
    <3> QED BY <2>2, <3>1, <1>4 DEF DraftKeys
  <2> QED BY <2>1, <2>2
<1>6. ASSUME NEW k \in DraftKeys, NEW j \in ActiveIds(k) PROVE Active(k)' \/ k \in cut'
  <2>1. j \in Ids /\ job[j].key = k /\ Used(j) /\ job[j].state \in {"queued", "running"}
    BY DEF ActiveIds, Used
  <2>2. CASE j \in Dropped
    BY <2>1, <2>2 DEF Becomes, Awaited, DraftKeys
  <2>3. CASE j \notin Dropped
    <3>1. job'[j] = job[j]
      BY <2>1, <2>3, <1>1, <1>4
    <3> QED BY <2>1, <3>1 DEF Active, ActiveIds
  <2> QED BY <2>2, <2>3
<1> QED BY <1>5, <1>6 DEF OpenKept, Active

LEMMA PassKeeps ==
  ASSUME TypeOK, NEW w \in Workers, PassStep(w)
  PROVE  KeysKept /\ OpenKept
<1>1. CASE Recover(w)
  <2>1. Stale \subseteq Ids /\ \A i \in Stale : Used(i)
    BY DEF Stale, InState, Used
  <2> QED BY <1>1, <2>1, OpenMovesKeep DEF Recover, TypeOK
<1>2. CASE Claim(w)
  <2>1. PICK I \in SUBSET InState("queued") : job' = Moved(job, I, "running")
    BY <1>2 DEF Claim
  <2>2. I \subseteq Ids /\ \A i \in I : Used(i)
    BY DEF InState, Used
  <2> QED BY <2>1, <2>2, OpenMovesKeep DEF TypeOK
<1>3. CASE FinishJob(w)
  <2> DEFINE I == {worker[w].id} \cap InState("running")
  <2>1. I \in SUBSET Ids /\ (\A i \in I : Used(i)) /\ "done" \in RowState
    BY DEF InState, Used, RowState
  <2>2. job' = Moved(job, I, "done")
    BY <1>3 DEF FinishJob
  <2>3. /\ \A i \in Ids : job'[i].key = job[i].key /\ (Used(i) => Used(i)')
        /\ \A i \in Ids \ I : job'[i] = job[i]
    BY <2>1, <2>2, MovedKeeps DEF TypeOK
  <2>4. ASSUME NEW k \in DraftKeys, NEW j \in ActiveIds(k)
        PROVE  Active(k)' \/ job[worker[w].id].key = k
    <3>1. CASE j \in I
      BY <3>1 DEF ActiveIds
    <3>2. CASE j \notin I
      BY <3>2, <2>3 DEF Active, ActiveIds
    <3> QED BY <3>1, <3>2
  <2>5. KeysKept
    BY <2>3 DEF KeysKept
  <2> QED BY <1>3, <2>4, <2>5 DEF OpenKept, Active
<1>4. CASE Take(w) \/ EndBatch(w)
  BY <1>4, SameJobsKeep DEF Take, EndBatch
<1> QED BY <1>1, <1>2, <1>3, <1>4 DEF PassStep

LEMMA RowsKept ==
  ASSUME TypeOK, [Next]_vars
  PROVE  KeysKept /\ OpenKept
<1> USE SameJobsKeep DEF queueVars
<1>1. CASE WebStep
  <2>1. ASSUME NEW k \in Keys, Enqueue(k) PROVE KeysKept /\ OpenKept
    BY <2>1, EnqueueKeeps
  <2>2. CASE Complete
    BY <2>2, DropKeeps DEF Complete, CleanJobs
  <2>3. CASE Archive
    <3>1. job' = Moved(job, Dropped, "done")
          \/ \E i \in Ids : FreshId(i) /\ job' = Inserted(Moved(job, Dropped, "done"), i, "rating")
      BY <2>3, DraftAssumption DEF Archive, ArchiveJobs
    <3> QED BY <2>3, <3>1, DropKeeps DEF Archive
  <2>4. CASE job' = job
    BY <2>4
  <2> QED BY <1>1, <2>1, <2>2, <2>3, <2>4
          DEF WebStep, WebAbort, CreateDraft, ConfirmDraft, AddAnime, ReleaseDraft, StartCollection,
              ConfirmCollection, ChangeMapping, Resume, Pause
<1>2. CASE TimeStep
  BY <1>2 DEF TimeStep, DraftExpires, CollectionExpires, CollectionDeleted, GrowDue, TenMinutes, GrowLate
<1>3. ASSUME NEW w \in Workers, HandlerStep(w) \/ DueStep(w) \/ SchedulerStops(w)
      PROVE  job' = job
  BY <1>3 DEF HandlerStep, ResolveRead, ResolveWrite, ResolveFail, PreviewRead, PreviewWrite,
              ImportRead, ImportWrite, CollectionFail, NetworkFails, SyncRead, SyncApply, SyncEnds,
              DueStep, DueRead, DueApply, DueFails, NothingDue, Rest, SchedulerStops, Crash, RowsStay
<1>4. ASSUME NEW w \in Workers, QueueStep(w) PROVE KeysKept /\ OpenKept
  BY <1>4, PassKeeps DEF QueueStep
<1>5. CASE UNCHANGED vars
  BY <1>5 DEF vars
<1> QED BY <1>1, <1>2, <1>3, <1>4, <1>5 DEF Next, SchedulerStep

\* Requests wait with the handler, in the queue, or in cut.
LEMMA WebKept ==
  ASSUME TypeOK, [Next]_vars, NEW k \in DraftKeys
  PROVE  /\ k \in web => k \in web' \/ k \in cut' \/ Active(k)'
         /\ k \in cut => k \in cut'
         /\ k \in web' /\ k \notin web => \/ k = "resolve" /\ adraft = "none" /\ adraft' = "queued"
                                          \/ k = "preview" /\ cdraft = "none" /\ cdraft' = "queued"
<1> USE DEF DraftKeys, webVars, vars
<1>1. CASE WebStep
  <2>1. ASSUME NEW q \in Keys, Enqueue(q)
        PROVE  (k \in web => k \in web' \/ Active(k)') /\ cut' = cut /\ web' \subseteq web
    BY <2>1, EnqueueKeeps DEF Enqueue
  <2> QED BY <1>1, <2>1
          DEF WebStep, WebAbort, CreateDraft, ConfirmDraft, AddAnime, ReleaseDraft, StartCollection,
              ConfirmCollection, ChangeMapping, Complete, Archive, Becomes, Resume, Pause, Awaited
<1>2. CASE UNCHANGED webVars
  BY <1>2
<1>3. CASE TimeStep
  BY <1>3, <1>2 DEF TimeStep, DraftExpires, CollectionExpires, CollectionDeleted, GrowDue, TenMinutes
<1>4. ASSUME NEW w \in Workers, HandlerStep(w) \/ DueStep(w) \/ SchedulerStops(w) \/ QueueStep(w)
      PROVE  UNCHANGED webVars
  BY <1>4 DEF HandlerStep, ResolveRead, ResolveWrite, ResolveFail, PreviewRead, PreviewWrite,
              ImportRead, ImportWrite, CollectionFail, NetworkFails, SyncRead, SyncApply, SyncEnds,
              DueStep, DueRead, DueApply, DueFails, NothingDue, SchedulerStops, QueueStep
<1> QED BY <1>1, <1>2, <1>3, <1>4 DEF Next, SchedulerStep

\* A draft becomes queued by its handler alone, and is none only before.
LEMMA DraftsKept ==
  ASSUME TypeOK, ClaimedInv, [Next]_vars
  PROVE  /\ adraft' = "none" => adraft = "none"
         /\ adraft' = "queued" => adraft = "queued" \/ (adraft = "none" /\ "resolve" \in web')
         /\ cdraft' = "none" => cdraft = "none"
         /\ cdraft' = "queued" => cdraft = "queued" \/ (cdraft = "none" /\ "preview" \in web')
         /\ ClaimedInv'
<1>0. consumed \in BOOLEAN /\ consumed' \in BOOLEAN
  BY NextTyped DEF TypeOK
<1> USE <1>0 DEF ClaimedInv, draftVars, collVars, vars
<1>1. CASE WebStep
  BY <1>1 DEF WebStep, Enqueue, WebAbort, CreateDraft, ConfirmDraft, Claimable, AddAnime, ReleaseDraft,
              StartCollection, ConfirmCollection, ChangeMapping, Complete, Archive, Becomes, Resume, Pause
<1>2. CASE TimeStep
  BY <1>2 DEF TimeStep, DraftExpires, CollectionExpires, CollectionDeleted, GrowDue, TenMinutes
<1>3. ASSUME NEW w \in Workers, HandlerStep(w)
      PROVE  /\ adraft' = "none" => adraft = "none"
             /\ adraft' = "queued" => adraft = "queued"
             /\ cdraft' = "none" => cdraft = "none"
             /\ cdraft' = "queued" => cdraft = "queued"
             /\ ClaimedInv'
  BY <1>3 DEF HandlerStep, ResolveRead, ResolveWrite, ResolveFail, DraftSet, PreviewRead, PreviewWrite,
              ImportRead, ImportWrite, CollectionFail, NetworkFails, SyncRead, SyncApply, SyncEnds
<1>4. ASSUME NEW w \in Workers, DueStep(w) \/ SchedulerStops(w) \/ QueueStep(w)
      PROVE  UNCHANGED <<draftVars, collVars>>
  BY <1>4 DEF DueStep, DueRead, DueApply, DueFails, NothingDue, SchedulerStops, QueueStep
<1>5. CASE UNCHANGED <<draftVars, collVars>>
  BY <1>5
<1> QED BY <1>1, <1>2, <1>3, <1>4, <1>5 DEF Next, SchedulerStep

\* An outcome is an old one, or the handler of the row's job has just ended and
\* has moved the draft on.
LEMMA OutcomeFrom ==
  ASSUME TypeOK, ClaimedInv, OutcomeInv, [Next]_vars, NEW v \in Workers, worker'[v].outcome # "none"
  PROVE  /\ worker'[v].id = worker[v].id
         /\ \/ worker[v].outcome # "none"
            \/ /\ worker[v].id \in Ids /\ Used(worker[v].id)
               /\ job[worker[v].id].key = "resolve" => adraft' # "queued"
               /\ job[worker[v].id].key = "preview" => cdraft' # "queued"
<1> USE WorkerTyped DEF TypeOK
<1>1. CASE worker' = worker
  BY <1>1
<1>2. ASSUME NEW w \in Workers, HandlerStep(w), worker' # worker
      PROVE  /\ worker'[v].id = worker[v].id
             /\ \/ worker[v].outcome # "none"
                \/ /\ worker[v].id \in Ids /\ Used(worker[v].id)
                   /\ job[worker[v].id].key = "resolve" => adraft' # "queued"
                   /\ job[worker[v].id].key = "preview" => cdraft' # "queued"
  <2>1. \E o \in {"ok", "error"} : Returns(w, o)
    BY <1>2 DEF HandlerStep, ResolveRead, ResolveWrite, ResolveFail, PreviewRead, PreviewWrite, ImportRead,
                ImportWrite, CollectionFail, NetworkFails, SyncRead, SyncApply, SyncEnds, queueVars
  <2>2. PICK o \in {"ok", "error"} : worker' = [worker EXCEPT ![w].outcome = o]
    BY <2>1 DEF Returns, HandlerEnds
  <2>3. worker'[v].id = worker[v].id /\ (v # w => worker'[v] = worker[v])
    BY <2>2 DEF QueueTypeOK, WorkerRecord
  <2>4. PICK k \in {"resolve", "preview", "import", "sync", "rating"} : Executes(w, k)
    BY <1>2 DEF HandlerStep, ResolveRead, ResolveWrite, ResolveFail, PreviewRead, PreviewWrite, ImportRead,
                ImportWrite, CollectionFail, NetworkFails, SyncRead, SyncApply, SyncEnds, Running
  <2>5. worker[w].id \in Ids /\ job[worker[w].id].key = k
    BY <2>4 DEF Executes
  <2>6. Used(worker[w].id)
    <3>1. NoRow.key = ""
      BY DEF NoRow
    <3>2. job[worker[w].id] # NoRow
      BY <2>4, <2>5, <3>1
    <3> QED BY <2>5, <3>2 DEF QueueTypeOK, Row, Used, RowState
  <2>7. k = "resolve" => adraft' # "queued"
    BY <1>2, <2>5 DEF HandlerStep, ResolveRead, ResolveWrite, ResolveFail, PreviewRead, PreviewWrite, ImportRead,
                ImportWrite, CollectionFail, NetworkFails, SyncRead, SyncApply, SyncEnds, queueVars,
                Running, Executes, DraftSet, ClaimedInv
  <2>8. k = "preview" => cdraft' # "queued"
    BY <1>2, <2>5 DEF HandlerStep, ResolveRead, ResolveWrite, ResolveFail, PreviewRead, PreviewWrite, ImportRead,
                ImportWrite, CollectionFail, NetworkFails, SyncRead, SyncApply, SyncEnds, queueVars,
                Running, Executes, Previewable, Failable
  <2> QED BY <2>3, <2>5, <2>6, <2>7, <2>8
<1>3. ASSUME NEW w \in Workers, QueueStep(w) \/ DueStep(w) \/ SchedulerStops(w)
      PROVE  worker'[v].id = worker[v].id /\ worker[v].outcome # "none"
  <2>1. CASE QueueStep(w)
    <3>1. CASE v # w
      BY <2>1, <3>1 DEF QueueStep, PassStep, Recover, Claim, Take, FinishJob, EndBatch, QueueTypeOK
    <3>2. CASE v = w /\ (Recover(w) \/ EndBatch(w))
      BY <3>2 DEF Recover, EndBatch, QueueTypeOK, WorkerRecord
    <3>3. CASE v = w /\ Claim(w)
      BY <3>3 DEF Claim, QueueTypeOK, WorkerRecord
    <3>4. CASE v = w /\ Take(w)
      <4>1. worker[w].outcome # "none"
        BY <3>4 DEF Take, QueueTypeOK, WorkerRecord
      <4>2. worker[w].id \in Ids /\ worker[w].id = NoJob
        BY <3>4, <4>1 DEF Take, OutcomeInv
      <4> QED BY <4>2, IdsArePositive
    <3>5. CASE v = w /\ FinishJob(w)
      BY <3>5 DEF FinishJob, QueueTypeOK, WorkerRecord
    <3> QED BY <2>1, <3>1, <3>2, <3>3, <3>4, <3>5 DEF QueueStep, PassStep
  <2>2. CASE DueStep(w)
    BY <2>2 DEF DueStep, DueRead, DueApply, DueFails, NothingDue, Rest, queueVars, QueueTypeOK, WorkerRecord
  <2>3. CASE SchedulerStops(w)
    BY <2>3 DEF SchedulerStops, Crash, IdleWorker, QueueTypeOK, WorkerRecord
  <2> QED BY <1>3, <2>1, <2>2, <2>3
<1>4. CASE WebStep \/ TimeStep \/ UNCHANGED vars
  BY <1>4, <1>1
     DEF WebStep, Enqueue, WebAbort, CreateDraft, ConfirmDraft, AddAnime, ReleaseDraft, StartCollection,
         ConfirmCollection, ChangeMapping, Complete, CleanJobs, Archive, ArchiveJobs, Resume, Pause,
         TimeStep, DraftExpires, CollectionExpires, CollectionDeleted, GrowDue, TenMinutes, GrowLate,
         vars, queueVars
<1> QED BY <1>1, <1>2, <1>3, <1>4 DEF Next, SchedulerStep

LEMMA EarlyKept ==
  ASSUME TypeOK, ClaimedInv, EarlyInv, [Next]_vars
  PROVE  EarlyInv'
<1>1. ASSUME adraft' = "none" PROVE "resolve" \notin web' /\ \A i \in Ids : job'[i].key # "resolve"
  <2>1. adraft = "none"
    BY <1>1, DraftsKept
  <2>2. "resolve" \notin web
    BY <2>1 DEF EarlyInv
  <2>3. "resolve" \notin web'
    BY <1>1, <2>1, <2>2, WebKept DEF DraftKeys
  <2>4. ASSUME NEW i \in Ids PROVE job'[i].key # "resolve"
    BY <2>1, <2>2, RowsKept DEF EarlyInv, KeysKept, DraftKeys
  <2> QED BY <2>3, <2>4
<1>2. ASSUME cdraft' = "none" PROVE "preview" \notin web' /\ \A i \in Ids : job'[i].key # "preview"
  <2>1. cdraft = "none"
    BY <1>2, DraftsKept
  <2>2. "preview" \notin web
    BY <2>1 DEF EarlyInv
  <2>3. "preview" \notin web'
    BY <1>2, <2>1, <2>2, WebKept DEF DraftKeys
  <2>4. ASSUME NEW i \in Ids PROVE job'[i].key # "preview"
    BY <2>1, <2>2, RowsKept DEF EarlyInv, KeysKept, DraftKeys
  <2> QED BY <2>3, <2>4
<1> QED BY <1>1, <1>2 DEF EarlyInv

LEMMA OutcomeKept ==
  ASSUME TypeOK, ClaimedInv, EarlyInv, OutcomeInv, [Next]_vars
  PROVE  OutcomeInv'
<1> SUFFICES ASSUME NEW w \in Workers, worker'[w].outcome # "none"
             PROVE  /\ worker'[w].id \in Ids /\ job'[worker'[w].id].state # "none"
                    /\ job'[worker'[w].id].key = "resolve" => adraft' # "queued"
                    /\ job'[worker'[w].id].key = "preview" => cdraft' # "queued"
  BY DEF OutcomeInv, Used
<1> DEFINE i == worker[w].id
<1>1. worker'[w].id = i
  BY OutcomeFrom
<1>2. i \in Ids /\ Used(i)
  BY OutcomeFrom DEF OutcomeInv
<1>3. job'[i].state # "none" /\ job'[i].key = job[i].key
  BY <1>2, RowsKept DEF KeysKept, Used
<1>4. CASE worker[w].outcome # "none"
  <2>1. job[i].key = "resolve" => adraft # "queued" /\ adraft # "none"
    BY <1>2, <1>4 DEF OutcomeInv, EarlyInv
  <2>2. job[i].key = "preview" => cdraft # "queued" /\ cdraft # "none"
    BY <1>2, <1>4 DEF OutcomeInv, EarlyInv
  <2>3. /\ job[i].key = "resolve" => adraft' # "queued"
        /\ job[i].key = "preview" => cdraft' # "queued"
    BY <2>1, <2>2, DraftsKept
  <2> QED BY <1>1, <1>2, <1>3, <2>3
<1>5. CASE worker[w].outcome = "none"
  <2>1. /\ job[i].key = "resolve" => adraft' # "queued"
        /\ job[i].key = "preview" => cdraft' # "queued"
    BY <1>5, OutcomeFrom
  <2> QED BY <1>1, <1>2, <1>3, <2>1
<1> QED BY <1>4, <1>5

\* The row of a job with an outcome is not one a queued draft waits for.
LEMMA FinishedIsSettled ==
  ASSUME OutcomeInv, NEW w \in Workers, FinishJob(w)
  PROVE  /\ job[worker[w].id].key = "resolve" => adraft # "queued"
         /\ job[worker[w].id].key = "preview" => cdraft # "queued"
BY DEF OutcomeInv, FinishJob

LEMMA QueuedKept ==
  ASSUME TypeOK, ClaimedInv, OutcomeInv, QueuedHasJob, [Next]_vars
  PROVE  QueuedHasJob'
<1>1. ASSUME adraft' = "queued" PROVE Active("resolve")' \/ "resolve" \in web' \cup cut'
  <2>1. CASE "resolve" \in web'
    BY <2>1
  <2>2. CASE adraft = "queued"
    <3>1. CASE Active("resolve")
      BY <2>2, <3>1, RowsKept, FinishedIsSettled DEF OpenKept, DraftKeys
    <3>2. CASE "resolve" \in web \cup cut
      BY <3>2, WebKept DEF DraftKeys
    <3> QED BY <2>2, <3>1, <3>2 DEF QueuedHasJob
  <2> QED BY <1>1, <2>1, <2>2, DraftsKept
<1>2. ASSUME cdraft' = "queued" PROVE Active("preview")' \/ "preview" \in web' \cup cut'
  <2>1. CASE "preview" \in web'
    BY <2>1
  <2>2. CASE cdraft = "queued"
    <3>1. CASE Active("preview")
      BY <2>2, <3>1, RowsKept, FinishedIsSettled DEF OpenKept, DraftKeys
    <3>2. CASE "preview" \in web \cup cut
      BY <3>2, WebKept DEF DraftKeys
    <3> QED BY <2>2, <3>1, <3>2 DEF QueuedHasJob
  <2> QED BY <1>2, <2>1, <2>2, DraftsKept
<1> QED BY <1>1, <1>2 DEF QueuedHasJob

-----------------------------------------------------------------------------
(* The theorems.                                                           *)

IInv ==
  TypeOK /\ AddInv /\ ImportedOnce /\ ClaimedInv /\ EarlyInv /\ OutcomeInv /\ QueuedHasJob

LEMMA InitInv == Init => IInv
<1> SUFFICES ASSUME Init PROVE IInv
  OBVIOUS
<1>1. AddInv /\ ImportedOnce /\ ClaimedInv /\ QueuedHasJob
  BY DEF Init, AddInv, ImportedOnce, ClaimedInv, QueuedHasJob
<1>2. EarlyInv
  <2>1. \A i \in Ids : job[i].key = ""
    BY DEF Init, QueueInit, NoRow
  <2> QED BY <2>1 DEF Init, EarlyInv
<1>3. OutcomeInv
  BY DEF Init, QueueInit, IdleWorker, OutcomeInv
<1> QED BY <1>1, <1>2, <1>3, InitTyped DEF IInv

LEMMA NextInv == IInv /\ [Next]_vars => IInv'
BY NextTyped, AddKept, ImportKept, DraftsKept, EarlyKept, OutcomeKept, QueuedKept DEF IInv

LEMMA AlwaysIInv == Spec => []IInv
BY InitInv, NextInv, PTL DEF Spec

\* The rows of the queue, the schedulers and what the jobs of an anime write are
\* well typed.
THEOREM JobsTypeCorrect == Spec => []TypeOK
<1>1. IInv => TypeOK
  BY DEF IInv
<1> QED BY <1>1, AlwaysIInv, PTL

\* Whatever stops and is executed again, a draft is added as an anime at most once
\* and is not offered again.
THEOREM AlwaysAddedOnce == Spec => []AddedOnce
<1>1. IInv => AddedOnce
  BY DEF IInv, AddInv, AddedOnce, TypeOK
<1> QED BY <1>1, AlwaysIInv, PTL

\* A collection is imported at most once, and its draft says so to the end.
THEOREM AlwaysImportedOnce == Spec => []ImportedOnce
<1>1. IInv => ImportedOnce
  BY DEF IInv
<1> QED BY <1>1, AlwaysIInv, PTL

\* Behind a draft shown as queued there is a job or the handler that inserts it.
THEOREM QueuedAlwaysHasJob == Spec => []QueuedHasJob
<1>1. IInv => QueuedHasJob
  BY DEF IInv
<1> QED BY <1>1, AlwaysIInv, PTL

-----------------------------------------------------------------------------
(* The queue implements JobRequests for any number of schedulers, rows and *)
(* keys, as long as no job of a live worker outlasts ten minutes.          *)
(*                                                                         *)
(* A request is the one open row of its key.  Where that row is follows    *)
(* from three facts: a key has one open row, a row a worker holds is       *)
(* running and not late, and no two workers hold one row.  Each            *)
(* transaction then moves each request as an action of JobRequests does,   *)
(* or not at all.                                                          *)


OneOpenRow ==
  \A i, j \in Ids :
    /\ job[i].state \in {"queued", "running"} /\ job[j].state \in {"queued", "running"}
    /\ job[i].key = job[j].key
    => i = j

HeldRuns == \A w \in Workers : \A i \in HeldBy(w) : i \in Ids /\ job[i].state = "running" /\ i \notin late

HeldOnce ==
  /\ \A v, w \in Workers : v # w => HeldBy(v) \cap HeldBy(w) = {}
  /\ \A w \in Workers : worker[w].id \notin worker[w].todo

Resting ==
  \A w \in Workers :
    /\ worker[w].pc # "work" => HeldBy(w) = {}
    /\ worker[w].outcome # "none" => worker[w].id # NoJob

QueueInv == QueueTypeOK /\ OneOpenRow /\ HeldRuns /\ HeldOnce /\ Resting

-----------------------------------------------------------------------------
(* Where a request is.                                                     *)

Located ==
  \A k \in Keys :
    /\ ~Active(k) => RequestOf(k) = <<"none">>
    /\ \A i \in ActiveIds(k) :
         /\ job[i].state = "queued" => RequestOf(k) = <<"waiting">>
         /\ job[i].state = "running" /\ i \notin Held => RequestOf(k) = <<"orphan">>
         /\ \A w \in Workers : i \in HeldBy(w) => RequestOf(k) = <<"by", w>>

LEMMA LocatedBy == QueueInv => Located
<1> SUFFICES ASSUME QueueInv, NEW k \in Keys
             PROVE  /\ ~Active(k) => RequestOf(k) = <<"none">>
                    /\ \A i \in ActiveIds(k) :
                         /\ job[i].state = "queued" => RequestOf(k) = <<"waiting">>
                         /\ job[i].state = "running" /\ i \notin Held => RequestOf(k) = <<"orphan">>
                         /\ \A w \in Workers : i \in HeldBy(w) => RequestOf(k) = <<"by", w>>
  BY DEF Located
<1>1. CASE ~Active(k)
  BY <1>1 DEF RequestOf, Active
<1>2. ASSUME NEW i \in ActiveIds(k)
      PROVE  /\ job[i].state = "queued" => RequestOf(k) = <<"waiting">>
             /\ job[i].state = "running" /\ i \notin Held => RequestOf(k) = <<"orphan">>
             /\ \A w \in Workers : i \in HeldBy(w) => RequestOf(k) = <<"by", w>>
  <2>1. ActiveIds(k) = {i} /\ Active(k)
    BY DEF ActiveIds, Active, QueueInv, OneOpenRow
  <2>2. CASE job[i].state = "queued"
    <3>1. \A w \in Workers : i \notin HeldBy(w)
      BY <2>2 DEF QueueInv, HeldRuns
    <3> QED BY <2>1, <2>2, <3>1 DEF RequestOf
  <2>3. ASSUME job[i].state = "running", i \notin Held PROVE RequestOf(k) = <<"orphan">>
    <3>1. \A w \in Workers : HeldBy(w) \cap ActiveIds(k) = {}
      BY <2>1, <2>3 DEF Held
    <3>2. ~ \E j \in ActiveIds(k) : job[j].state = "queued"
      BY <2>1, <2>3
    <3> QED BY <2>1, <3>1, <3>2 DEF RequestOf
  <2>4. ASSUME NEW w \in Workers, i \in HeldBy(w) PROVE RequestOf(k) = <<"by", w>>
    <3>1. HeldBy(w) \cap ActiveIds(k) # {}
      BY <2>1, <2>4
    <3>2. \A v \in Workers : HeldBy(v) \cap ActiveIds(k) # {} => v = w
      BY <2>1, <2>4 DEF QueueInv, HeldOnce
    <3>3. (CHOOSE v \in Workers : HeldBy(v) \cap ActiveIds(k) # {}) = w
      BY <3>1, <3>2
    <3>4. ~ \E j \in ActiveIds(k) : job[j].state = "queued"
      BY <2>1, <2>4 DEF QueueInv, HeldRuns
    <3> QED BY <2>1, <3>1, <3>3, <3>4 DEF RequestOf
  <2> QED BY <2>2, <2>3, <2>4 DEF QueueInv, HeldRuns
<1> QED BY <1>1, <1>2

LEMMA LocatedNext == QueueInv' => Located'
BY LocatedBy, PTL

-----------------------------------------------------------------------------
(* What a step does to the queue.                                          *)

\* The rows stay, and each worker holds what it held.
HoldsStill ==
  /\ job' = job /\ late' = late
  /\ \A w \in Workers : /\ worker'[w].id = worker[w].id /\ worker'[w].todo = worker[w].todo
                        /\ worker'[w].pc # "work" => worker[w].pc # "work" \/ HeldBy(w) = {}
                        /\ worker'[w].outcome # "none" => worker[w].outcome # "none" \/ worker[w].id # NoJob

\* All the transactions there are on the queue.
QueueChanges ==
  \/ \E k \in Keys : EnqueueRow(k) /\ UNCHANGED <<late, worker>>
  \/ CleanJobs \/ ArchiveJobs
  \/ \E w \in Workers : Recover(w) \/ Claim(w) \/ Take(w) \/ FinishJob(w) \/ Crash(w)
  \/ \E i \in Ids : GrowLate(i)
  \/ HoldsStill

LEMMA HandlerHolds ==
  ASSUME QueueTypeOK, NEW w \in Workers, HandlerStep(w)
  PROVE  HoldsStill
<1>1. CASE UNCHANGED queueVars
  BY <1>1 DEF queueVars, HoldsStill
<1>2. CASE RowsStay /\ worker[w].id # NoJob /\ \E o \in {"ok", "error"} : HandlerEnds(w, o)
  BY <1>2, WorkerTyped DEF RowsStay, HandlerEnds, HoldsStill, QueueTypeOK, WorkerRecord
<1> QED BY <1>1, <1>2
        DEF HandlerStep, ResolveRead, ResolveWrite, ResolveFail, PreviewRead, PreviewWrite, ImportRead,
            ImportWrite, CollectionFail, NetworkFails, SyncRead, SyncApply, SyncEnds, queueVars,
            Returns, Running, Executes

LEMMA QueueFootprint ==
  ASSUME QueueTypeOK, [Next]_vars
  PROVE  QueueChanges
<1> USE DEF QueueChanges
<1>1. CASE UNCHANGED queueVars
  BY <1>1 DEF queueVars, HoldsStill
<1>2. CASE WebStep
  BY <1>2, <1>1
     DEF WebStep, Enqueue, WebAbort, CreateDraft, ConfirmDraft, AddAnime, ReleaseDraft, StartCollection,
         ConfirmCollection, ChangeMapping, Complete, Archive, Resume, Pause
<1>3. CASE TimeStep
  BY <1>3, <1>1 DEF TimeStep, DraftExpires, CollectionExpires, CollectionDeleted, GrowDue, TenMinutes
<1>4. ASSUME NEW w \in Workers, HandlerStep(w) PROVE QueueChanges
  BY <1>4, HandlerHolds
<1>5. ASSUME NEW w \in Workers, QueueStep(w) PROVE QueueChanges
  <2>1. CASE EndBatch(w)
    BY <2>1 DEF EndBatch, At, HeldBy, HoldsStill, QueueTypeOK, WorkerRecord
  <2> QED BY <1>5, <2>1 DEF QueueStep, PassStep
<1>6. ASSUME NEW w \in Workers, DueStep(w) PROVE QueueChanges
  <2>1. CASE Rest(w)
    BY <2>1 DEF Rest, At, HoldsStill, QueueTypeOK, WorkerRecord
  <2> QED BY <1>6, <1>1, <2>1 DEF DueStep, DueRead, DueApply, DueFails, NothingDue
<1>7. ASSUME NEW w \in Workers, SchedulerStops(w) PROVE QueueChanges
  BY <1>7 DEF SchedulerStops
<1>8. CASE UNCHANGED vars
  BY <1>8, <1>1 DEF vars
<1> QED BY <1>2, <1>3, <1>4, <1>5, <1>6, <1>7, <1>8 DEF Next, SchedulerStep

-----------------------------------------------------------------------------
(* The invariant.                                                          *)

\* Rows that keep their key and are open only if they were leave one row per key.
LEMMA OneRowKept ==
  ASSUME OneOpenRow,
         \A i \in Ids : job'[i].state \in {"queued", "running"} =>
           job[i].state \in {"queued", "running"} /\ job'[i].key = job[i].key
  PROVE  OneOpenRow'
BY DEF OneOpenRow

\* A row is inserted when no other with its key stays open.
LEMMA OneRowInserted ==
  ASSUME OneOpenRow, NEW i \in Ids, NEW k, job'[i].key = k,
         \A j \in Ids \ {i} : job'[j].state \in {"queued", "running"} =>
           job[j].state \in {"queued", "running"} /\ job'[j].key = job[j].key /\ job[j].key # k
  PROVE  OneOpenRow'
BY DEF OneOpenRow

\* Workers that hold what they held, and rows of theirs that stay as they are.
LEMMA HoldsKept ==
  ASSUME HeldRuns, HeldOnce, Resting, worker' = worker, late' \subseteq late,
         \A w \in Workers : \A i \in HeldBy(w) : job'[i] = job[i]
  PROVE  HeldRuns' /\ HeldOnce' /\ Resting'
<1>1. \A w \in Workers : HeldBy(w)' = HeldBy(w)
  BY DEF HeldBy
<1> QED BY <1>1 DEF HeldRuns, HeldOnce, Resting

LEMMA EnqueueInv ==
  ASSUME QueueInv, NEW k \in Keys, EnqueueRow(k), UNCHANGED <<late, worker>>
  PROVE  QueueInv'
<1> USE DEF QueueInv
<1>1. QueueTypeOK'
  BY EnqueueTyped
<1>2. CASE job' = job
  BY <1>1, <1>2, OneRowKept, HoldsKept
<1>3. CASE TakesRow(k) /\ \E i \in Ids : FreshId(i) /\ job' = Inserted(job, i, k)
  <2>1. PICK i \in Ids : FreshId(i) /\ job' = Inserted(job, i, k)
    BY <1>3
  <2>2. job'[i] = [key |-> k, state |-> "queued"] /\ \A j \in Ids \ {i} : job'[j] = job[j]
    BY <2>1 DEF Inserted, QueueTypeOK
  <2>3. job[i].state = "none"
    BY <2>1 DEF FreshId, Used
  <2>4. \A j \in Ids : job[j].state \in {"queued", "running"} => job[j].key # k
    BY <1>3 DEF TakesRow, Active, ActiveIds
  <2>5. OneOpenRow'
    BY <2>2, <2>4, OneRowInserted
  <2>6. \A w \in Workers : \A j \in HeldBy(w) : job'[j] = job[j]
    BY <2>2, <2>3 DEF HeldRuns
  <2> QED BY <1>1, <2>5, <2>6, HoldsKept
<1> QED BY <1>2, <1>3 DEF EnqueueRow

\* The rows that are left when the anime's are dropped.
LEMMA RestOfRows ==
  ASSUME QueueTypeOK, NEW rest, rest = Moved(job, Dropped, "done")
  PROVE  /\ rest \in [Ids -> Row]
         /\ \A i \in Dropped : rest[i].state = "done"
         /\ \A i \in Ids \ Dropped : rest[i] = job[i]
         /\ Dropped \subseteq Ids /\ \A i \in Dropped : job[i].state = "queued"
<1>1. rest \in [Ids -> Row]
  BY MovedTyped, DroppedUsed DEF RowState
<1>2. \A i \in Ids \ Dropped : rest[i] = job[i]
  BY DEF Moved
<1>3. ASSUME NEW i \in Dropped PROVE rest[i].state = "done"
  <2>1. i \in Ids /\ job[i] \in [key : Keys, state : RowState]
    BY DroppedUsed, UsedIsRow
  <2> QED BY <2>1 DEF Moved
<1> QED BY <1>1, <1>2, <1>3, DroppedUsed DEF InState

LEMMA CleanInv ==
  ASSUME QueueInv, CleanJobs
  PROVE  QueueInv'
<1> USE DEF QueueInv
<1>1. QueueTypeOK'
  BY CleanTyped
<1>2. /\ \A i \in Dropped : job'[i].state = "done" /\ job[i].state = "queued"
      /\ \A i \in Ids \ Dropped : job'[i] = job[i]
  BY RestOfRows DEF CleanJobs
<1>3. OneOpenRow'
  BY <1>2, OneRowKept
<1>4. \A w \in Workers : \A j \in HeldBy(w) : job'[j] = job[j]
  BY <1>2 DEF HeldRuns
<1> QED BY <1>1, <1>3, <1>4, HoldsKept DEF CleanJobs

LEMMA ArchiveInv ==
  ASSUME QueueInv, ArchiveJobs
  PROVE  QueueInv'
<1> USE DEF QueueInv
<1> DEFINE rest == Moved(job, Dropped, "done")
<1>1. QueueTypeOK'
  BY ArchiveTyped
<1>2. /\ rest \in [Ids -> Row]
      /\ \A i \in Dropped : rest[i].state = "done" /\ job[i].state = "queued"
      /\ \A i \in Ids \ Dropped : rest[i] = job[i]
  BY RestOfRows
<1>3. worker' = worker /\ late' = late
  BY DEF ArchiveJobs
<1>4. CASE job' = rest
  <2>1. OneOpenRow'
    BY <1>2, <1>4, OneRowKept
  <2>2. \A w \in Workers : \A j \in HeldBy(w) : job'[j] = job[j]
    BY <1>2, <1>4 DEF HeldRuns
  <2> QED BY <1>1, <1>3, <2>1, <2>2, HoldsKept
<1>5. ASSUME NEW k \in ArchiveKeys, ActiveIds(k) \ Dropped = {}, NEW i \in Ids, FreshId(i),
             job' = Inserted(rest, i, k)
      PROVE  QueueInv'
  <2> HIDE DEF rest
  <2>1. job'[i] = [key |-> k, state |-> "queued"] /\ \A j \in Ids \ {i} : job'[j] = rest[j]
    BY <1>2, <1>5 DEF Inserted
  <2>2. job[i].state = "none"
    BY <1>5 DEF FreshId, Used
  <2>3. \A j \in Ids \ {i} : job'[j].state \in {"queued", "running"} =>
          job[j].state \in {"queued", "running"} /\ job'[j].key = job[j].key /\ job[j].key # k
    BY <1>2, <1>5, <2>1 DEF ActiveIds
  <2>4. OneOpenRow'
    BY <2>1, <2>3, OneRowInserted
  <2>5. \A w \in Workers : \A j \in HeldBy(w) : job'[j] = job[j]
    BY <1>2, <2>1, <2>2 DEF HeldRuns
  <2> QED BY <1>1, <1>3, <2>4, <2>5, HoldsKept
<1> QED BY <1>4, <1>5 DEF ArchiveJobs

LEMMA PassInv ==
  ASSUME QueueInv, NEW w \in Workers, Recover(w) \/ Claim(w) \/ Take(w) \/ FinishJob(w) \/ Crash(w)
  PROVE  QueueInv'
<1> USE WorkerTyped DEF QueueInv
<1>1. QueueTypeOK'
  BY PassTyped, SmallStepsTyped DEF PassStep
<1>2. \A v \in Workers \ {w} : worker'[v] = worker[v] /\ HeldBy(v)' = HeldBy(v)
  BY DEF Recover, Claim, Take, FinishJob, Crash, QueueTypeOK, HeldBy
<1>3. CASE Recover(w)
  <2>1. Stale \subseteq Ids /\ (\A i \in Stale : Used(i)) /\ "queued" \in RowState
    BY DEF Stale, InState, Used, RowState
  <2>2. /\ \A i \in Ids : job'[i].key = job[i].key
        /\ \A i \in Ids \ Stale : job'[i] = job[i]
    BY <1>3, <2>1, MovedKeeps DEF Recover
  <2>3. OneOpenRow'
    BY <2>2, OneRowKept DEF Stale, InState
  <2>4. worker'[w].id = worker[w].id /\ worker'[w].todo = worker[w].todo
        /\ worker'[w].outcome = worker[w].outcome /\ HeldBy(w) = {}
    BY <1>3 DEF Recover, At, QueueTypeOK, WorkerRecord, Resting
  <2>5. HeldBy(w)' = {}
    BY <2>4 DEF HeldBy
  <2>6. HeldRuns'
    BY <1>2, <1>3, <2>2, <2>5, ZenonT(80) DEF HeldRuns, Recover, Stale
  <2>7. HeldOnce' /\ Resting'
    BY <1>2, <2>4, <2>5 DEF HeldOnce, Resting
  <2> QED BY <1>1, <2>3, <2>6, <2>7
<1>4. CASE Claim(w)
  <2>1. PICK I \in SUBSET InState("queued") :
          /\ job' = Moved(job, I, "running") /\ late' = late \ I
          /\ worker' = [worker EXCEPT ![w].pc = "work", ![w].todo = I]
    BY <1>4 DEF Claim
  <2>2. I \subseteq Ids /\ (\A i \in I : Used(i) /\ job[i].state = "queued") /\ "running" \in RowState
    BY DEF InState, Used, RowState
  <2>3. /\ \A i \in Ids : job'[i].key = job[i].key
        /\ \A i \in Ids \ I : job'[i] = job[i]
        /\ \A i \in I : job'[i].state = "running"
    BY <2>1, <2>2, MovedKeeps
  <2>4. OneOpenRow'
    BY <2>2, <2>3, OneRowKept
  <2>5. HeldBy(w) = {} /\ worker'[w].id = worker[w].id /\ worker'[w].outcome = worker[w].outcome
        /\ worker'[w].todo = I /\ worker'[w].pc = "work"
    BY <1>4, <2>1, ZenonT(80) DEF Claim, At, QueueTypeOK, WorkerRecord, Resting
  <2>6. worker[w].id = NoJob
    BY <2>5 DEF HeldBy
  <2>7. HeldBy(w)' = I
    BY <2>5, <2>6 DEF HeldBy
  <2>8. \A v \in Workers \ {w} : HeldBy(v) \cap I = {}
    BY <2>2 DEF HeldRuns
  <2>9. HeldRuns'
    BY <1>2, <2>1, <2>2, <2>3, <2>7, <2>8 DEF HeldRuns
  <2>10. HeldOnce'
    <3>1. \A v \in Workers : worker'[v].id \notin worker'[v].todo
      BY <1>2, <2>2, <2>5, <2>6, IdsArePositive DEF HeldOnce
    <3>2. \A u, v \in Workers : u # v => HeldBy(u)' \cap HeldBy(v)' = {}
      BY <1>2, <2>7, <2>8 DEF HeldOnce
    <3> QED BY <3>1, <3>2 DEF HeldOnce
  <2>11. Resting'
    BY <1>2, <2>5 DEF Resting
  <2> QED BY <1>1, <2>4, <2>9, <2>10, <2>11
<1>5. CASE Take(w)
  <2>1. PICK i \in worker[w].todo :
          worker' = [worker EXCEPT ![w].id = i, ![w].todo = worker[w].todo \ {i}]
    BY <1>5, FirstExists DEF Take, QueueTypeOK
  <2>2. worker'[w].id = i /\ worker'[w].todo = worker[w].todo \ {i} /\ worker'[w].pc = worker[w].pc
        /\ worker'[w].outcome = worker[w].outcome /\ i \in Ids /\ worker[w].id = NoJob
    BY <1>5, <2>1 DEF Take, QueueTypeOK, WorkerRecord
  <2>3. HeldBy(w)' = HeldBy(w)
    BY <2>2, IdsArePositive DEF HeldBy
  <2>4. OneOpenRow' /\ HeldRuns'
    BY <1>2, <1>5, <2>3 DEF OneOpenRow, HeldRuns, Take
  <2>5. HeldOnce'
    BY <1>2, <2>2, <2>3 DEF HeldOnce
  <2>6. Resting'
    BY <1>2, <2>2, <2>3, IdsArePositive DEF Resting
  <2> QED BY <1>1, <2>4, <2>5, <2>6
<1>6. CASE FinishJob(w)
  <2>1. worker'[w].id = NoJob /\ worker'[w].todo = worker[w].todo /\ worker'[w].pc = "work"
        /\ worker'[w].outcome = "none"
    BY <1>6 DEF FinishJob, At, QueueTypeOK, WorkerRecord
  <2>2. worker[w].id \in HeldBy(w) /\ worker[w].id \in Ids /\ job[worker[w].id].state = "running"
    BY <1>6 DEF FinishJob, Resting, HeldBy, HeldRuns
  <2>3. HeldBy(w)' = HeldBy(w) \ {worker[w].id}
    BY <2>1, <2>2 DEF HeldBy, HeldOnce
  <2>4. job' = Moved(job, {worker[w].id}, "done") /\ late' = late \ {worker[w].id}
    BY <1>6, <2>2 DEF FinishJob, InState
  <2>5. /\ \A i \in Ids : job'[i].key = job[i].key
        /\ \A i \in Ids \ {worker[w].id} : job'[i] = job[i]
        /\ job'[worker[w].id].state = "done"
    <3> DEFINE I == {worker[w].id}
    <3>1. I \in SUBSET Ids /\ (\A i \in I : Used(i)) /\ "done" \in RowState
      BY <2>2 DEF Used, RowState
    <3>2. job' = Moved(job, I, "done")
      BY <2>4
    <3> HIDE DEF I
    <3>3. /\ \A i \in Ids : job'[i].key = job[i].key
          /\ \A i \in Ids \ I : job'[i] = job[i]
          /\ \A i \in I : job'[i].state = "done"
      BY <3>1, <3>2, MovedKeeps
    <3> QED BY <3>3 DEF I
  <2>6. OneOpenRow'
    BY <2>5, OneRowKept
  <2>7. HeldRuns'
    <3>1. \A v \in Workers : worker[w].id \notin HeldBy(v)'
      BY <1>2, <2>2, <2>3 DEF HeldOnce
    <3>2. \A v \in Workers : HeldBy(v)' \subseteq HeldBy(v)
      BY <1>2, <2>3
    <3>3. ASSUME NEW v \in Workers, NEW i \in HeldBy(v)'
          PROVE  i \in Ids /\ job'[i].state = "running" /\ i \notin late'
      <4>1. i \in HeldBy(v) /\ i # worker[w].id
        BY <3>1, <3>2
      <4>2. i \in Ids /\ job[i].state = "running" /\ i \notin late
        BY <4>1 DEF HeldRuns
      <4> QED BY <2>4, <2>5, <4>1, <4>2
    <3> QED BY <3>3 DEF HeldRuns
  <2>8. HeldOnce'
    BY <1>2, <2>1, <2>3, IdsArePositive DEF HeldOnce
  <2>9. Resting'
    BY <1>2, <2>1 DEF Resting
  <2> QED BY <1>1, <2>6, <2>7, <2>8, <2>9
<1>7. CASE Crash(w)
  <2>1. worker'[w].id = NoJob /\ worker'[w].todo = {} /\ worker'[w].outcome = "none"
    BY <1>7 DEF Crash, IdleWorker, QueueTypeOK
  <2>2. HeldBy(w)' = {}
    BY <2>1 DEF HeldBy
  <2>3. OneOpenRow' /\ HeldRuns'
    BY <1>2, <1>7, <2>2 DEF OneOpenRow, HeldRuns, Crash
  <2>4. HeldOnce' /\ Resting'
    BY <1>2, <2>1, <2>2 DEF HeldOnce, Resting
  <2> QED BY <1>1, <2>3, <2>4
<1> QED BY <1>3, <1>4, <1>5, <1>6, <1>7

LEMMA StillInv ==
  ASSUME QueueInv, QueueTypeOK', HoldsStill
  PROVE  QueueInv' /\ \A w \in Workers : HeldBy(w)' = HeldBy(w)
<1> USE DEF QueueInv
<1>1. \A w \in Workers : HeldBy(w)' = HeldBy(w)
  BY DEF HoldsStill, HeldBy
<1>2. OneOpenRow' /\ HeldRuns'
  BY <1>1 DEF HoldsStill, OneOpenRow, HeldRuns
<1>3. HeldOnce' /\ Resting'
  BY <1>1 DEF HoldsStill, HeldOnce, Resting
<1> QED BY <1>1, <1>2, <1>3

LEMMA QueueInvKept ==
  ASSUME TypeOK, QueueInv, ~Overrun, [Next]_vars
  PROVE  QueueInv'
<1>1. QueueTypeOK /\ QueueTypeOK'
  BY NextTyped DEF TypeOK
<1>2. ASSUME NEW i \in Ids, GrowLate(i) PROVE QueueInv'
  <2>1. i \notin Held /\ job' = job /\ worker' = worker /\ late' = late \cup {i}
    BY <1>2 DEF GrowLate
  <2>2. \A w \in Workers : HeldBy(w)' = HeldBy(w)
    BY <2>1 DEF HeldBy
  <2>3. HeldRuns'
    BY <2>1, <2>2 DEF QueueInv, HeldRuns, Held
  <2>4. OneOpenRow' /\ HeldOnce' /\ Resting'
    BY <2>1, <2>2 DEF QueueInv, OneOpenRow, HeldOnce, Resting
  <2> QED BY <1>1, <2>3, <2>4 DEF QueueInv
<1> QED BY <1>1, <1>2, QueueFootprint, EnqueueInv, CleanInv, ArchiveInv, PassInv, StillInv DEF QueueChanges

LEMMA QueueInvInit == Init => QueueInv
<1> SUFFICES ASSUME Init PROVE QueueInv
  OBVIOUS
<1>1. QueueTypeOK
  BY InitTyped DEF TypeOK
<1>2. \A w \in Workers : worker[w] = IdleWorker /\ HeldBy(w) = {}
  BY DEF Init, QueueInit, IdleWorker, HeldBy
<1>3. OneOpenRow
  BY DEF Init, QueueInit, NoRow, OneOpenRow
<1> QED BY <1>1, <1>2, <1>3 DEF QueueInv, HeldRuns, HeldOnce, Resting, IdleWorker

-----------------------------------------------------------------------------
(* Each transaction is a step of JobRequests, or none.                     *)

LEMMA RequestSame ==
  ASSUME Located, Located', NEW k \in Keys, ActiveIds(k)' = ActiveIds(k),
         \A i \in ActiveIds(k) : job'[i].state = job[i].state
                                 /\ \A w \in Workers : i \in HeldBy(w)' <=> i \in HeldBy(w)
  PROVE  RequestOf(k)' = RequestOf(k)
<1>1. CASE ~Active(k)
  BY <1>1 DEF Located, Active
<1>2. ASSUME NEW i \in ActiveIds(k) PROVE RequestOf(k)' = RequestOf(k)
  <2>1. job[i].state = "queued" \/ job[i].state = "running"
    BY DEF ActiveIds
  <2>2. CASE job[i].state = "queued"
    BY <2>2 DEF Located
  <2>3. ASSUME NEW w \in Workers, i \in HeldBy(w) PROVE RequestOf(k)' = RequestOf(k)
    BY <2>3 DEF Located
  <2>4. CASE job[i].state = "running" /\ i \notin Held
    BY <2>4 DEF Located, Held
  <2> QED BY <2>1, <2>2, <2>3, <2>4 DEF Held
<1> QED BY <1>1, <1>2 DEF Active

LEMMA BecomesBy ==
  ASSUME NEW K \in SUBSET Keys, NEW s, \A k \in K : RequestOf(k)' = s,
         \A k \in Keys \ K : RequestOf(k)' = RequestOf(k)
  PROVE  Requests!Becomes(K, s)
BY DEF Requests!Becomes

\* What is left unchanged in JobRequests.
Still == [k \in Keys |-> RequestOf(k)]' = [k \in Keys |-> RequestOf(k)]

LEMMA StillBy ==
  ASSUME \A k \in Keys : RequestOf(k)' = RequestOf(k)
  PROVE  Still
BY DEF Still

Implemented == Still \/ Requests!RequestNext

LEMMA EnqueueImplements ==
  ASSUME QueueInv, Located, Located', NEW k \in Keys, EnqueueRow(k), UNCHANGED <<late, worker>>
  PROVE  Implemented
<1>1. \A w \in Workers : HeldBy(w)' = HeldBy(w)
  BY DEF HeldBy
<1>2. CASE job' = job
  <2>1. \A q \in Keys : RequestOf(q)' = RequestOf(q)
    BY <1>1, <1>2, RequestSame DEF ActiveIds
  <2> QED BY <2>1, StillBy DEF Implemented
<1>3. CASE TakesRow(k) /\ \E i \in Ids : FreshId(i) /\ job' = Inserted(job, i, k)
  <2>1. PICK i \in Ids : FreshId(i) /\ job' = Inserted(job, i, k)
    BY <1>3
  <2>2. job'[i] = [key |-> k, state |-> "queued"] /\ \A j \in Ids \ {i} : job'[j] = job[j]
    BY <2>1 DEF Inserted, QueueInv, QueueTypeOK
  <2>3. job[i].state = "none"
    BY <2>1 DEF FreshId, Used
  <2>4. RequestOf(k) = <<"none">>
    BY <1>3 DEF TakesRow, Located
  <2>5. RequestOf(k)' = <<"waiting">>
    <3>1. i \in ActiveIds(k)' /\ job'[i].state = "queued"
      BY <2>2 DEF ActiveIds
    <3> QED BY <3>1 DEF Located
  <2>6. ASSUME NEW q \in Keys \ {k} PROVE RequestOf(q)' = RequestOf(q)
    <3>1. ActiveIds(q)' = ActiveIds(q)
      BY <2>2, <2>3 DEF ActiveIds
    <3>2. \A j \in ActiveIds(q) : job'[j].state = job[j].state
      BY <2>2, <2>3 DEF ActiveIds
    <3> QED BY <1>1, <3>1, <3>2, RequestSame
  <2>7. Requests!Ask(k)
    BY <2>4, <2>5, <2>6, BecomesBy DEF Requests!Ask, Requests!None, Requests!Waiting
  <2> QED BY <2>7 DEF Implemented, Requests!RequestNext
<1> QED BY <1>2, <1>3 DEF EnqueueRow

\* The keys of the rows that are dropped.
DroppedKeys == { job[i].key : i \in Dropped }

LEMMA DroppedWait ==
  ASSUME QueueInv, Located
  PROVE  DroppedKeys \subseteq Keys /\ \A k \in DroppedKeys : RequestOf(k) = <<"waiting">>
<1>1. ASSUME NEW i \in Dropped PROVE job[i].key \in Keys /\ RequestOf(job[i].key) = <<"waiting">>
  <2>1. i \in Ids /\ job[i].state = "queued" /\ job[i].key \in Keys
    BY DroppedUsed, UsedIsRow DEF InState, QueueInv
  <2>2. i \in ActiveIds(job[i].key)
    BY <2>1 DEF ActiveIds
  <2> QED BY <2>1, <2>2 DEF Located
<1> QED BY <1>1 DEF DroppedKeys

\* When exactly the dropped rows are gone, or one was inserted under k besides.
LEMMA DropImplements ==
  ASSUME QueueInv, Located, Located', NEW A \in SUBSET Keys, worker' = worker,
         \A k \in A : ActiveIds(k) \ Dropped = {} /\ \E i \in ActiveIds(k)' : job'[i].state = "queued",
         \A k \in Keys \ A : ActiveIds(k)' = ActiveIds(k) \ Dropped,
         \A i \in Ids \ Dropped : Used(i) => job'[i] = job[i]
  PROVE  Implemented
<1>1. \A w \in Workers : HeldBy(w)' = HeldBy(w)
  BY DEF HeldBy
<1>2. ASSUME NEW k \in A
      PROVE  RequestOf(k)' = <<"waiting">> /\ (k \notin DroppedKeys => RequestOf(k) = <<"none">>)
  <2>1. RequestOf(k)' = <<"waiting">>
    BY DEF Located
  <2>2. ASSUME k \notin DroppedKeys PROVE ~Active(k)
    <3>1. \A i \in ActiveIds(k) : i \notin Dropped
      BY <2>2 DEF DroppedKeys, ActiveIds
    <3> QED BY <3>1 DEF Active
  <2> QED BY <2>1, <2>2 DEF Located
<1>3. ASSUME NEW k \in DroppedKeys \ A PROVE RequestOf(k)' = <<"none">>
  <2>1. PICK i \in Dropped : job[i].key = k
    BY DEF DroppedKeys
  <2>2. i \in ActiveIds(k) /\ k \in Keys
    BY <2>1, DroppedUsed, DroppedWait DEF InState, ActiveIds
  <2>3. ActiveIds(k) = {i}
    BY <2>2 DEF QueueInv, OneOpenRow, ActiveIds
  <2>4. ~Active(k)'
    BY <2>1, <2>2, <2>3 DEF Active
  <2> QED BY <2>2, <2>4 DEF Located
<1>4. ASSUME NEW k \in Keys, k \notin A, k \notin DroppedKeys PROVE RequestOf(k)' = RequestOf(k)
  <2>1. \A i \in ActiveIds(k) : i \in Ids /\ i \notin Dropped /\ Used(i)
    BY <1>4 DEF DroppedKeys, ActiveIds, Used
  <2>2. ActiveIds(k)' = ActiveIds(k)
    BY <1>4, <2>1
  <2>3. \A i \in ActiveIds(k) : job'[i] = job[i]
    BY <2>1
  <2> QED BY <1>1, <2>2, <2>3, RequestSame
<1>5. Requests!Drop(DroppedKeys, A)
  BY <1>2, <1>3, <1>4, DroppedWait DEF Requests!Drop, Requests!None, Requests!Waiting
<1> QED BY <1>5, DroppedWait DEF Implemented, Requests!RequestNext

LEMMA CleanImplements ==
  ASSUME QueueInv, Located, Located', CleanJobs
  PROVE  Implemented
<1>1. /\ \A i \in Dropped : job'[i].state = "done" /\ job[i].state = "queued"
      /\ \A i \in Ids \ Dropped : job'[i] = job[i]
  BY RestOfRows DEF CleanJobs, QueueInv
<1>2. \A k \in Keys : ActiveIds(k)' = ActiveIds(k) \ Dropped
  BY <1>1 DEF ActiveIds
<1>3. {} \in SUBSET Keys /\ worker' = worker
  BY DEF CleanJobs
<1> QED BY <1>1, <1>2, <1>3, DropImplements

LEMMA ArchiveImplements ==
  ASSUME QueueInv, Located, Located', ArchiveJobs
  PROVE  Implemented
<1> DEFINE rest == Moved(job, Dropped, "done")
<1>1. /\ rest \in [Ids -> Row]
      /\ \A i \in Dropped : rest[i].state = "done" /\ job[i].state = "queued"
      /\ \A i \in Ids \ Dropped : rest[i] = job[i]
  BY RestOfRows DEF QueueInv
<1>2. worker' = worker
  BY DEF ArchiveJobs
<1>3. CASE job' = rest
  <2>1. \A k \in Keys : ActiveIds(k)' = ActiveIds(k) \ Dropped
    BY <1>1, <1>3 DEF ActiveIds
  <2>2. \A i \in Ids \ Dropped : job'[i] = job[i]
    BY <1>1, <1>3
  <2>3. {} \in SUBSET Keys
    OBVIOUS
  <2> QED BY <1>2, <2>1, <2>2, <2>3, DropImplements
<1>4. ASSUME NEW k \in ArchiveKeys, ActiveIds(k) \ Dropped = {}, NEW i \in Ids, FreshId(i),
             job' = Inserted(rest, i, k)
      PROVE  Implemented
  <2> HIDE DEF rest
  <2>1. job'[i] = [key |-> k, state |-> "queued"] /\ \A j \in Ids \ {i} : job'[j] = rest[j]
    BY <1>1, <1>4 DEF Inserted
  <2>2. job[i].state = "none" /\ ~Used(i)
    BY <1>4 DEF FreshId, Used
  <2>3. {k} \in SUBSET Keys
    BY QueueAssumption
  <2>4. i \in ActiveIds(k)' /\ job'[i].state = "queued"
    BY <2>1 DEF ActiveIds
  <2>5. \A q \in Keys \ {k} : ActiveIds(q)' = ActiveIds(q) \ Dropped
    BY <1>1, <2>1, <2>2 DEF ActiveIds
  <2>6. \A j \in Ids \ Dropped : Used(j) => job'[j] = job[j]
    BY <1>1, <2>1, <2>2
  <2> QED BY <1>2, <1>4, <2>3, <2>4, <2>5, <2>6, DropImplements
<1> QED BY <1>3, <1>4 DEF ArchiveJobs

\* Rows that change their state among queued and running stay the open row of
\* their key; the rest stays.
LEMMA MovedRequests ==
  ASSUME QueueInv, NEW I \in SUBSET Ids, NEW s \in {"queued", "running"},
         \A i \in I : job[i].state \in {"queued", "running"}, job' = Moved(job, I, s)
  PROVE  /\ \A k \in Keys : ActiveIds(k)' = ActiveIds(k)
         /\ \A i \in I : job'[i].state = s
         /\ \A i \in Ids \ I : job'[i] = job[i]
<1>1. s \in RowState /\ \A i \in I : Used(i)
  BY DEF RowState, Used
<1>2. /\ \A i \in Ids : job'[i].key = job[i].key
      /\ \A i \in Ids \ I : job'[i] = job[i]
      /\ \A i \in I : job'[i].state = s
  BY <1>1, MovedKeeps DEF QueueInv
<1>3. \A k \in Keys : ActiveIds(k)' = ActiveIds(k)
  BY <1>2 DEF ActiveIds
<1> QED BY <1>2, <1>3

LEMMA RecoverImplements ==
  ASSUME QueueInv, QueueInv', Located, Located', NEW w \in Workers, Recover(w)
  PROVE  Implemented
<1> DEFINE K == { k \in Keys : \E i \in Stale : job[i].key = k }
<1>1. Stale \in SUBSET Ids /\ (\A i \in Stale : job[i].state = "running") /\ job' = Moved(job, Stale, "queued")
  BY DEF Recover, Stale, InState
<1>2. /\ \A k \in Keys : ActiveIds(k)' = ActiveIds(k)
      /\ \A i \in Stale : job'[i].state = "queued"
      /\ \A i \in Ids \ Stale : job'[i] = job[i]
  BY <1>1, MovedRequests
<1>3. \A v \in Workers : HeldBy(v)' = HeldBy(v)
  BY WorkerTyped DEF Recover, HeldBy, QueueInv, QueueTypeOK, WorkerRecord
<1>4. ASSUME NEW k \in K PROVE RequestOf(k) = <<"orphan">> /\ RequestOf(k)' = <<"waiting">>
  <2>1. PICK i \in Stale : job[i].key = k
    OBVIOUS
  <2>2. i \in ActiveIds(k) /\ k \in Keys
    BY <1>1, <2>1 DEF ActiveIds
  <2>3. i \notin Held
    BY DEF Stale, Held, QueueInv, HeldRuns
  <2> QED BY <1>1, <1>2, <2>2, <2>3 DEF Located
<1>5. ASSUME NEW k \in Keys \ K PROVE RequestOf(k)' = RequestOf(k)
  <2>1. \A i \in ActiveIds(k) : i \in Ids \ Stale
    BY DEF ActiveIds
  <2> QED BY <1>2, <1>3, <2>1, RequestSame
<1>6. K \in SUBSET Keys
  OBVIOUS
<1> HIDE DEF K
<1>7. Requests!Return(K)
  BY <1>4, <1>5, <1>6, BecomesBy DEF Requests!Return, Requests!Orphan, Requests!Waiting
<1> QED BY <1>6, <1>7 DEF Implemented, Requests!RequestNext

LEMMA ClaimImplements ==
  ASSUME QueueInv, QueueInv', Located, Located', NEW w \in Workers, Claim(w)
  PROVE  Implemented
<1>1. PICK I \in SUBSET InState("queued") :
        /\ job' = Moved(job, I, "running")
        /\ worker' = [worker EXCEPT ![w].pc = "work", ![w].todo = I]
  BY DEF Claim
<1> DEFINE K == { k \in Keys : \E i \in I : job[i].key = k }
<1>2. I \in SUBSET Ids /\ \A i \in I : job[i].state = "queued"
  BY DEF InState
<1>3. /\ \A k \in Keys : ActiveIds(k)' = ActiveIds(k)
      /\ \A i \in I : job'[i].state = "running"
      /\ \A i \in Ids \ I : job'[i] = job[i]
  BY <1>1, <1>2, MovedRequests
<1>4. HeldBy(w) = {} /\ HeldBy(w)' = I
  <2>1. HeldBy(w) = {} /\ worker'[w].id = worker[w].id /\ worker'[w].todo = I
    BY <1>1, WorkerTyped DEF Claim, At, QueueInv, QueueTypeOK, WorkerRecord, Resting
  <2> QED BY <2>1 DEF HeldBy
<1>5. \A v \in Workers \ {w} : HeldBy(v)' = HeldBy(v)
  BY <1>1 DEF HeldBy, QueueInv, QueueTypeOK
<1>6. ASSUME NEW k \in K PROVE RequestOf(k) = <<"waiting">> /\ RequestOf(k)' = <<"by", w>>
  <2>1. PICK i \in I : job[i].key = k
    OBVIOUS
  <2>2. i \in ActiveIds(k) /\ k \in Keys
    BY <1>2, <2>1 DEF ActiveIds
  <2> QED BY <1>2, <1>3, <1>4, <2>2 DEF Located
<1>7. ASSUME NEW k \in Keys \ K PROVE RequestOf(k)' = RequestOf(k)
  <2>1. \A i \in ActiveIds(k) : i \in Ids \ I
    BY DEF ActiveIds
  <2>2. \A i \in ActiveIds(k), v \in Workers : i \in HeldBy(v)' <=> i \in HeldBy(v)
    BY <1>4, <1>5, <2>1
  <2> QED BY <1>3, <2>1, <2>2, RequestSame
<1>8. K \in SUBSET Keys
  OBVIOUS
<1> HIDE DEF K
<1>9. Requests!Start(w, K)
  BY <1>6, <1>7, <1>8, BecomesBy DEF Requests!Start, Requests!By, Requests!Waiting
<1> QED BY <1>8, <1>9 DEF Implemented, Requests!RequestNext

LEMMA FinishImplements ==
  ASSUME QueueInv, QueueInv', Located, Located', NEW w \in Workers, FinishJob(w)
  PROVE  Implemented
<1>0. /\ worker[w].id \in HeldBy(w) /\ worker[w].id \in Ids /\ job[worker[w].id].state = "running"
      /\ job[worker[w].id].key \in Keys
  <2>1. worker[w].id \in HeldBy(w) /\ worker[w].id \in Ids /\ job[worker[w].id].state = "running"
    BY DEF FinishJob, QueueInv, Resting, HeldBy, HeldRuns
  <2> QED BY <2>1, UsedIsRow DEF QueueInv, Used
<1>1. PICK i \in Ids : i = worker[w].id /\ i \in HeldBy(w) /\ job[i].state = "running"
  BY <1>0
<1>2. PICK k \in Keys : k = job[i].key /\ i \in ActiveIds(k)
  BY <1>0, <1>1 DEF ActiveIds
<1>3. ActiveIds(k) = {i}
  BY <1>2 DEF QueueInv, OneOpenRow, ActiveIds
<1>4. /\ \A j \in Ids \ {i} : job'[j] = job[j]
      /\ job'[i].state = "done" /\ job'[i].key = k
  <2> DEFINE I == {worker[w].id}
  <2>1. I \in SUBSET Ids /\ (\A j \in I : Used(j)) /\ "done" \in RowState
    BY <1>1 DEF Used, RowState
  <2>2. job' = Moved(job, I, "done")
    BY <1>1 DEF FinishJob, InState
  <2>4. i \in I
    BY <1>1
  <2>5. \A j \in Ids \ {i} : j \notin I
    BY <1>1
  <2> HIDE DEF I
  <2>3. /\ \A j \in Ids : job'[j].key = job[j].key
        /\ \A j \in Ids \ I : job'[j] = job[j]
        /\ \A j \in I : job'[j].state = "done"
    BY <2>1, <2>2, MovedKeeps DEF QueueInv
  <2> QED BY <1>2, <2>3, <2>4, <2>5
<1>5. HeldBy(w)' = HeldBy(w) \ {i}
  <2>1. worker'[w].id = NoJob /\ worker'[w].todo = worker[w].todo
    BY WorkerTyped DEF FinishJob, QueueInv, QueueTypeOK, WorkerRecord
  <2> QED BY <1>1, <2>1 DEF HeldBy, QueueInv, HeldOnce
<1>6. \A v \in Workers \ {w} : HeldBy(v)' = HeldBy(v)
  BY DEF FinishJob, HeldBy, QueueInv, QueueTypeOK
<1>7. RequestOf(k) = <<"by", w>>
  BY <1>1, <1>2 DEF Located
<1>8. RequestOf(k)' = <<"none">>
  <2>1. \A j \in Ids : ~ (job'[j].state \in {"queued", "running"} /\ job'[j].key = k)
    BY <1>3, <1>4 DEF ActiveIds
  <2> QED BY <2>1 DEF Located, Active, ActiveIds
<1>9. ASSUME NEW q \in Keys \ {k} PROVE RequestOf(q)' = RequestOf(q)
  <2>1. ActiveIds(q)' = ActiveIds(q)
    BY <1>2, <1>4 DEF ActiveIds
  <2>2. \A j \in ActiveIds(q) : j \in Ids \ {i}
    BY <1>2 DEF ActiveIds
  <2>3. \A j \in ActiveIds(q), v \in Workers : j \in HeldBy(v)' <=> j \in HeldBy(v)
    BY <1>5, <1>6, <2>2
  <2> QED BY <1>4, <2>1, <2>2, <2>3, RequestSame
<1>10. Requests!Finish(w, k)
  <2>1. {k} \in SUBSET Keys
    OBVIOUS
  <2> QED BY <2>1, <1>7, <1>8, <1>9, BecomesBy DEF Requests!Finish, Requests!By, Requests!None
<1> QED BY <1>2, <1>10 DEF Implemented, Requests!RequestNext

LEMMA CrashImplements ==
  ASSUME QueueInv, QueueInv', Located, Located', NEW w \in Workers, Crash(w)
  PROVE  Implemented
<1> DEFINE K == { k \in Keys : RequestOf(k) = <<"by", w>> }
<1>1. HeldBy(w)' = {}
  BY DEF Crash, IdleWorker, HeldBy, QueueInv, QueueTypeOK
<1>2. job' = job /\ \A v \in Workers \ {w} : HeldBy(v)' = HeldBy(v)
  BY DEF Crash, HeldBy, QueueInv, QueueTypeOK
<1>3. \A k \in Keys : ActiveIds(k)' = ActiveIds(k)
  BY <1>2 DEF ActiveIds
\* Only the rows w held are behind requests executed by w.
<1>4. ASSUME NEW k \in K PROVE \E i \in ActiveIds(k) : i \in HeldBy(w) /\ job[i].state = "running"
  <2>1. PICK i \in Ids : i \in ActiveIds(k)
    BY DEF Located, Active, ActiveIds
  <2>2. job[i].state = "running" /\ i \in Held
    BY <2>1 DEF Located, ActiveIds
  <2>3. PICK v \in Workers : i \in HeldBy(v)
    BY <2>2 DEF Held
  <2>4. <<"by", v>> = <<"by", w>>
    BY <2>1, <2>3 DEF Located
  <2> QED BY <2>1, <2>2, <2>3, <2>4
<1>5. ASSUME NEW k \in K PROVE RequestOf(k)' = <<"orphan">>
  <2>1. PICK i \in ActiveIds(k) : i \in HeldBy(w) /\ job[i].state = "running"
    BY <1>4
  <2>2. i \notin Held'
    BY <1>1, <1>2, <2>1 DEF Held, QueueInv, HeldOnce
  <2> QED BY <1>2, <1>3, <2>1, <2>2 DEF Located
<1>6. ASSUME NEW k \in Keys \ K PROVE RequestOf(k)' = RequestOf(k)
  <2>1. \A i \in ActiveIds(k) : i \notin HeldBy(w)
    BY DEF Located
  <2>2. \A i \in ActiveIds(k), v \in Workers : i \in HeldBy(v)' <=> i \in HeldBy(v)
    BY <1>1, <1>2, <2>1
  <2> QED BY <1>2, <1>3, <2>2, RequestSame
<1>7. K \in SUBSET Keys /\ K = { k \in Keys : [q \in Keys |-> RequestOf(q)][k] = <<"by", w>> }
  OBVIOUS
<1> HIDE DEF K
<1>8. Requests!Becomes(K, <<"orphan">>)
  BY <1>5, <1>6, <1>7, BecomesBy
<1>9. Requests!Lose(w)
  BY <1>7, <1>8 DEF Requests!Lose, Requests!By, Requests!Orphan
<1> QED BY <1>9 DEF Implemented, Requests!RequestNext

LEMMA SameHoldsImplements ==
  ASSUME Located, Located', job' = job, \A v \in Workers : HeldBy(v)' = HeldBy(v)
  PROVE  Implemented
<1>1. \A k \in Keys : RequestOf(k)' = RequestOf(k)
  BY RequestSame DEF ActiveIds
<1> QED BY <1>1, StillBy DEF Implemented

LEMMA TakeImplements ==
  ASSUME QueueInv, QueueInv', Located, Located', NEW w \in Workers, Take(w)
  PROVE  Implemented
<1>1. PICK i \in worker[w].todo :
        worker' = [worker EXCEPT ![w].id = i, ![w].todo = worker[w].todo \ {i}]
  BY FirstExists, WorkerTyped DEF Take, QueueInv, QueueTypeOK
<1>2. worker'[w].id = i /\ worker'[w].todo = worker[w].todo \ {i} /\ i \in Ids /\ worker[w].id = NoJob
  <2>1. worker \in [Workers -> WorkerRecord] /\ i \in Ids
    BY WorkerTyped DEF QueueInv, QueueTypeOK
  <2>2. worker'[w].id = i /\ worker'[w].todo = worker[w].todo \ {i}
    BY <1>1, <2>1 DEF WorkerRecord
  <2> QED BY <2>1, <2>2 DEF Take
<1>3. HeldBy(w)' = HeldBy(w)
  BY <1>2, IdsArePositive DEF HeldBy
<1>4. \A v \in Workers \ {w} : HeldBy(v)' = HeldBy(v)
  BY <1>1 DEF HeldBy, QueueInv, QueueTypeOK
<1> QED BY <1>3, <1>4, SameHoldsImplements DEF Take

LEMMA StepImplements ==
  ASSUME TypeOK, QueueInv, ~Overrun, [Next]_vars
  PROVE  QueueInv' /\ Implemented
<1>1. QueueInv' /\ Located /\ Located'
  BY QueueInvKept, LocatedBy, LocatedNext
<1>2. QueueTypeOK /\ QueueTypeOK'
  BY <1>1 DEF QueueInv
<1>3. ASSUME NEW i \in Ids, GrowLate(i) PROVE Implemented
  <2>1. job' = job /\ \A v \in Workers : HeldBy(v)' = HeldBy(v)
    BY <1>3 DEF GrowLate, HeldBy
  <2> QED BY <1>1, <2>1, SameHoldsImplements
<1>4. CASE HoldsStill
  <2>1. \A v \in Workers : HeldBy(v)' = HeldBy(v)
    BY <1>2, <1>4, StillInv
  <2> QED BY <1>1, <1>4, <2>1, SameHoldsImplements DEF HoldsStill
<1>5. QueueChanges
  BY <1>2, QueueFootprint
<1> QED BY <1>1, <1>3, <1>4, <1>5, EnqueueImplements, CleanImplements, ArchiveImplements,
           RecoverImplements, ClaimImplements, TakeImplements, FinishImplements, CrashImplements
        DEF QueueChanges

LEMMA InitImplements == Init => Requests!RequestInit
<1> SUFFICES ASSUME Init PROVE Requests!RequestInit
  OBVIOUS
<1>1. \A k \in Keys : ~Active(k)
  BY DEF Init, QueueInit, NoRow, Active, ActiveIds
<1>2. \A k \in Keys : RequestOf(k) = <<"none">>
  BY <1>1, QueueInvInit, LocatedBy DEF Located
<1> QED BY <1>2 DEF Requests!RequestInit, Requests!None

-----------------------------------------------------------------------------
(* The theorems.                                                           *)

\* As long as no job of a live worker outlasts ten minutes, no job is executed by
\* two schedulers at once.
THEOREM AlwaysOneWorker ==
  ASSUME ~Overrun
  PROVE  Spec => []NoDoubleExecution
<1>1. Init => TypeOK /\ QueueInv
  BY InitTyped, QueueInvInit
<1>2. (TypeOK /\ QueueInv) /\ [Next]_vars => (TypeOK /\ QueueInv)'
  BY NextTyped, QueueInvKept
<1>3. TypeOK /\ QueueInv => NoDoubleExecution
  BY DEF QueueInv, HeldOnce, NoDoubleExecution
<1> QED BY <1>1, <1>2, <1>3, PTL DEF Spec

\* Under the same condition the rows and workers implement JobRequests: a request
\* is executed by one worker at a time, ends only by it, and returns when it is lost.
THEOREM QueueImplements ==
  ASSUME ~Overrun
  PROVE  Spec => ImplementsRequests
<1>1. Init => TypeOK /\ QueueInv /\ Requests!RequestInit
  BY InitTyped, QueueInvInit, InitImplements
<1>2. (TypeOK /\ QueueInv) /\ [Next]_vars
        => (TypeOK /\ QueueInv)' /\ [Requests!RequestNext]_([k \in Keys |-> RequestOf(k)])
  BY NextTyped, StepImplements DEF Implemented, Still
<1> QED BY <1>1, <1>2, PTL DEF Spec, ImplementsRequests, Requests!RequestSpec
=============================================================================
