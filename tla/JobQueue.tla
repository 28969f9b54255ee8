------------------------------ MODULE JobQueue ------------------------------
(***************************************************************************)
(* The queue of management jobs.  The web server inserts jobs, each under  *)
(* a key of which only one may be queued or running; the scheduler takes a *)
(* batch of them, executes one after another and writes what became of     *)
(* each.  A worker that stops leaves its jobs running; whoever starts a    *)
(* pass returns to the queue what has been running for ten minutes.        *)
(*                                                                         *)
(* Finished rows are only listed on a page: they stay "done" here.         *)
(***************************************************************************)
EXTENDS Integers, FiniteSets

CONSTANTS Keys,       \* the keys jobs are deduplicated by
          AnimeKeys,  \* those whose target is the anime that may be archived
          ArchiveKeys,\* the one job an archive asks for, or none
          Workers,    \* running schedulers
          MaxJobs,    \* bound on the rows ever inserted
          BatchSize,  \* scheduler.management_job_batch_size
          Overrun     \* whether a job may outlast ten minutes of a live worker

ASSUME QueueAssumption ==
  /\ AnimeKeys \subseteq Keys /\ ArchiveKeys \subseteq Keys
  /\ MaxJobs \in Nat /\ BatchSize \in Nat \ {0} /\ Overrun \in BOOLEAN

VARIABLES
  job,     \* the rows of management_job, by id
  late,    \* the running rows started more than ten minutes ago
  worker   \* what each scheduler is doing

queueVars == <<job, late, worker>>

Ids     == 1 .. MaxJobs
NoJob   == 0
NoRow   == [key |-> "", state |-> "none"]
RowState == {"queued", "running", "done"}
Row     == [key : Keys, state : RowState] \cup {NoRow}

IdleWorker == [pc |-> "recover", todo |-> {}, id |-> NoJob, outcome |-> "none"]
WorkerRecord ==
  [pc : {"recover", "claim", "work", "rest"}, todo : SUBSET Ids,
   id : Ids \cup {NoJob}, outcome : {"none", "ok", "error"}]

Used(i)      == job[i].state # "none"
InState(s)   == { i \in Ids : job[i].state = s }
ActiveIds(k) == { i \in Ids : job[i].state \in {"queued", "running"} /\ job[i].key = k }
Active(k)    == ActiveIds(k) # {}
HeldBy(w)    == worker[w].todo \cup ({worker[w].id} \ {NoJob})
Held         == UNION { HeldBy(w) : w \in Workers }

QueueTypeOK ==
  /\ job \in [Ids -> Row]
  /\ late \subseteq InState("running")
  /\ worker \in [Workers -> WorkerRecord]

QueueInit ==
  /\ job = [i \in Ids |-> NoRow]
  /\ late = {}
  /\ worker = [w \in Workers |-> IdleWorker]

-----------------------------------------------------------------------------
(* The transactions on the rows.                                           *)

\* The rows I in state s, the others as they are in jobs.
Moved(jobs, I, s) == [i \in Ids |-> IF i \in I THEN [jobs[i] EXCEPT !.state = s] ELSE jobs[i]]

\* Mutant: the unique index only looks at queued rows.
TakesRowQueued(k) == \A i \in Ids : ~(job[i].state = "queued" /\ job[i].key = k)

\* INSERT OR IGNORE under the unique index over queued and running rows.
TakesRow(k) == ~Active(k)

\* AUTOINCREMENT: the id after the last one ever used.
FreshId(i) == ~Used(i) /\ \A j \in Ids : Used(j) <=> j < i

Inserted(jobs, i, k) == [jobs EXCEPT ![i] = [key |-> k, state |-> "queued"]]

\* enqueue_management_job: an open job with the key is returned instead.  There
\* are at most MaxJobs rows.
EnqueueRow(k) ==
  IF TakesRow(k) THEN \E i \in Ids : FreshId(i) /\ job' = Inserted(job, i, k)
                 ELSE job' = job

\* Mutant: running rows are deleted, too.
DroppedAny == { i \in Ids : Used(i) /\ job[i].key \in AnimeKeys }

\* The rows deleted with an archived or completed anime, which are the ones not
\* running.  For every later statement a deleted row is like a finished one.
Dropped == { i \in InState("queued") : job[i].key \in AnimeKeys }

\* mark_anime_released_complete
CleanJobs ==
  /\ job' = Moved(job, Dropped, "done")
  /\ UNCHANGED <<late, worker>>

\* archive_anime_with_memory, which asks for the job in ArchiveKeys afterwards:
\* the rating, when the anime has a Bangumi subject.
ArchiveJobs ==
  /\ LET rest == Moved(job, Dropped, "done")
     IN  \/ ArchiveKeys = {} /\ job' = rest
         \/ \E k \in ArchiveKeys :
              IF ActiveIds(k) \ Dropped = {}
                THEN \E i \in Ids : FreshId(i) /\ job' = Inserted(rest, i, k)
                ELSE job' = rest
  /\ UNCHANGED <<late, worker>>

-----------------------------------------------------------------------------
(* A pass of the scheduler.                                                *)

At(w, pc) == worker[w].pc = pc

\* Mutant: whatever is running returns to the queue.
StaleRunning == InState("running")

\* The rows recover_stale_management_jobs requeues.
Stale == InState("running") \cap late

Recover(w) ==
  /\ At(w, "recover")
  /\ job' = Moved(job, Stale, "queued")
  /\ late' = late \ Stale
  /\ worker' = [worker EXCEPT ![w].pc = "claim"]

\* The oldest rows that are queued, at most BatchSize of them.
Batch(I) ==
  /\ I \subseteq InState("queued")
  /\ \A i \in I, j \in InState("queued") \ I : i < j
  /\ Cardinality(I) <= BatchSize
  /\ I = InState("queued") \/ Cardinality(I) = BatchSize

Claim(w) ==
  /\ At(w, "claim")
  /\ \E I \in SUBSET InState("queued") :
       /\ Batch(I)
       /\ job' = Moved(job, I, "running")
       /\ late' = late \ I
       /\ worker' = [worker EXCEPT ![w].pc = "work", ![w].todo = I]

\* Jobs of a batch are executed in the order of their ids.
Take(w) ==
  /\ At(w, "work") /\ worker[w].id = NoJob /\ worker[w].todo # {}
  /\ LET i == CHOOSE j \in worker[w].todo : \A l \in worker[w].todo : j <= l
     IN  worker' = [worker EXCEPT ![w].id = i, ![w].todo = @ \ {i}]
  /\ UNCHANGED <<job, late>>

Executes(w, k) ==
  /\ At(w, "work") /\ worker[w].id # NoJob /\ worker[w].outcome = "none"
  /\ job[worker[w].id].key = k

\* execute_management_job returns.
HandlerEnds(w, o) == worker' = [worker EXCEPT ![w].outcome = o]

\* complete_management_job or fail_management_job; either only writes a row
\* that is running.
FinishJob(w) ==
  /\ At(w, "work") /\ worker[w].outcome # "none"
  /\ job' = Moved(job, {worker[w].id} \cap InState("running"), "done")
  /\ late' = late \ {worker[w].id}
  /\ worker' = [worker EXCEPT ![w].id = NoJob, ![w].outcome = "none"]

\* The batch is done; the pass goes on with what is due anyway.
EndBatch(w) ==
  /\ At(w, "work") /\ worker[w].id = NoJob /\ worker[w].todo = {}
  /\ worker' = [worker EXCEPT ![w].pc = "rest"]
  /\ UNCHANGED <<job, late>>

Rest(w) ==
  /\ At(w, "rest")
  /\ worker' = [worker EXCEPT ![w].pc = "recover"]
  /\ UNCHANGED <<job, late>>

\* An error of the database ends the loop, or the process is killed; systemd
\* starts it again.
Crash(w) ==
  /\ worker[w] # IdleWorker
  /\ worker' = [worker EXCEPT ![w] = IdleWorker]
  /\ UNCHANGED <<job, late>>

\* Ten minutes have passed since the batch of row i was claimed.
GrowLate(i) ==
  /\ i \in InState("running") \ late
  /\ Overrun \/ i \notin Held
  /\ late' = late \cup {i}
  /\ UNCHANGED <<job, worker>>

PassStep(w) == Recover(w) \/ Claim(w) \/ Take(w) \/ FinishJob(w) \/ EndBatch(w)

-----------------------------------------------------------------------------
(* What the queue implements.                                              *)

\* Where the request for k is: in the queue, with the worker that executes
\* its row or is going to, or orphaned.
RequestOf(k) ==
  IF \E i \in ActiveIds(k) : job[i].state = "queued" THEN <<"waiting">>
  ELSE IF ~Active(k) THEN <<"none">>
  ELSE IF \E w \in Workers : HeldBy(w) \cap ActiveIds(k) # {}
    THEN <<"by", CHOOSE w \in Workers : HeldBy(w) \cap ActiveIds(k) # {}>>
    ELSE <<"orphan">>

Requests == INSTANCE JobRequests WITH request <- [k \in Keys |-> RequestOf(k)]

=============================================================================
