------------------------------- MODULE Notices -------------------------------
(***************************************************************************)
(* The notices of the scheduler beside releases: review notices for the    *)
(* candidates of an episode, or for their absence, and alerts about a      *)
(* source that fails and recovers.  Checks enqueue a notice per set of     *)
(* candidates, the synchronizer records the health of the source, and a    *)
(* dispatcher reads both tables, sends and marks.  Others act in between:  *)
(* the administrator, and commands that run beside the server.             *)
(*                                                                         *)
(* What was delivered, and whether the delivery of a review notice was     *)
(* recorded, is kept beside the tables.                                    *)
(***************************************************************************)
EXTENDS Naturals, FiniteSets

CONSTANTS Videos,      \* the videos that may become candidates of the episode
          MaxChanges,  \* bound on the changes of the candidates
          MaxStamp,    \* bound on the changes of anime.updated_at
          Threshold,   \* SOURCE_ALERT_FAILURE_THRESHOLD
          MaxRestarts, \* bound on the restarts of a dispatcher
          Dispatchers  \* the processes that dispatch

ASSUME NoticesAssumption ==
  /\ MaxChanges \in Nat /\ MaxStamp \in Nat /\ Threshold \in Nat \ {0}
  /\ MaxRestarts \in Nat

VARIABLES
  pend,      \* the pending candidates of the episode
  open,      \* it is monitored and not completed
  stamp,     \* anime.updated_at
  changes,   \* how often the candidates changed
  notice,    \* the rows of review_notification, by fingerprint
  waits,     \* the rows, and the alert, whose next attempt is in the future
  check,     \* what the check under way has read
  health,    \* the row of source_health
  disp,      \* what each dispatcher is doing
  restarts,  \* how often one was stopped
  arrived,   \* whether each notice arrived, and whether its last arrival was marked
  told       \* what the last alert that arrived said of the source

episodeVars == <<pend, open, stamp, changes>>
noticeVars  == <<notice, check>>
userVars    == <<arrived, told>>
vars == <<episodeVars, noticeVars, waits, health, disp, restarts, userVars>>

\* A fingerprint is the set of candidates, or the time the anime was last changed.
SetPrint(S)  == <<"set", S>>
NonePrint(t) == <<"none", t>>
Prints == { SetPrint(S) : S \in SUBSET Videos } \cup { NonePrint(t) : t \in 0 .. MaxStamp }
Alert  == <<"alert">>
NoPrint == <<>>

AlertState == {"none", "failure_pending", "failure_sent", "recovery_pending"}
Announced  == {"failure_sent", "recovery_pending"}  \* of an outage the user was told of
Pending(a) == a \in {"failure_pending", "recovery_pending"}

IdleCheck == [pc |-> "idle", stamp |-> 0, print |-> NoPrint]
IdleDisp  == [pc |-> "rest", rows |-> {}, stamp |-> 0, events |-> {}, cur |-> NoPrint,
              alert |-> "none", ok |-> FALSE]

DispRecord ==
  [pc : {"rest", "read", "reviews", "review", "alerts", "alert"}, rows : SUBSET Prints,
   stamp : 0 .. MaxStamp, events : SUBSET Prints, cur : Prints \cup {NoPrint}, alert : AlertState, ok : BOOLEAN]

TypeOK ==
  /\ pend \in SUBSET Videos /\ open \in BOOLEAN /\ stamp \in 0 .. MaxStamp /\ changes \in 0 .. MaxChanges
  /\ notice \in [Prints -> {"absent", "pending", "sent", "cancelled"}]
  /\ waits \in SUBSET (Prints \cup {Alert})
  /\ check \in [pc : {"idle", "judge", "print", "enqueue"}, stamp : 0 .. MaxStamp,
                print : Prints \cup {NoPrint}]
  /\ health \in [failures : 0 .. Threshold, alert : AlertState]
  /\ health.alert # "none" => health.failures = Threshold
  /\ disp \in [Dispatchers -> DispRecord] /\ restarts \in 0 .. MaxRestarts
  /\ arrived \in [Prints -> {"never", "unmarked", "marked"}]
  /\ told \in {"fine", "down"}

Init ==
  /\ pend = {} /\ open = TRUE /\ stamp = 0 /\ changes = 0
  /\ notice = [p \in Prints |-> "absent"]
  /\ waits = {}
  /\ check = IdleCheck
  /\ health = [failures |-> 0, alert |-> "none"]
  /\ disp = [d \in Dispatchers |-> IdleDisp] /\ restarts = 0
  /\ arrived = [p \in Prints |-> "never"]
  /\ told = "fine"

Least(m, n) == IF m < n THEN m ELSE n
Cancelled(P) == [p \in Prints |-> IF p \in P /\ notice[p] = "pending" THEN "cancelled" ELSE notice[p]]

-----------------------------------------------------------------------------
(* The episode.                                                            *)

OnlyEpisode == UNCHANGED <<noticeVars, waits, health, disp, restarts, userVars>>

\* A scan stores candidates; a rejection or an expiry takes them away.
CandidatesChange ==
  /\ open /\ changes < MaxChanges
  /\ pend' \in SUBSET Videos \ {pend}
  /\ changes' = changes + 1
  /\ UNCHANGED <<open, stamp>> /\ OnlyEpisode

\* block_uploader: its candidates go, and without candidates the notices, too.
Block ==
  /\ changes < MaxChanges
  /\ pend' \in SUBSET pend
  /\ notice' = IF pend' = {} THEN Cancelled(Prints) ELSE notice
  /\ changes' = changes + 1
  /\ UNCHANGED <<open, stamp, check, waits, health, disp, restarts, userVars>>

\* A confirmation or an import completes the episode, a repair reopens it; either
\* cancels the notices.
Complete(o) ==
  /\ open # o
  /\ open' = o /\ pend' = {}
  /\ notice' = Cancelled(Prints)
  /\ UNCHANGED <<stamp, changes, check, waits, health, disp, restarts, userVars>>

\* The anime is paused, resumed or rescoped.
Monitor ==
  /\ stamp < MaxStamp
  /\ open' \in BOOLEAN /\ stamp' = stamp + 1
  /\ UNCHANGED <<pend, changes>> /\ OnlyEpisode

EpisodeStep == CandidatesChange \/ Block \/ Monitor \/ \E o \in BOOLEAN : Complete(o)

-----------------------------------------------------------------------------
(* A check that does not confirm.                                          *)

OnlyCheck == UNCHANGED <<episodeVars, waits, health, disp, restarts, userVars>>

CheckStart ==
  /\ check.pc = "idle" /\ open
  /\ check' = [IdleCheck EXCEPT !.pc = "judge", !.stamp = stamp]
  /\ UNCHANGED notice /\ OnlyCheck

\* The candidates are read; without any, and when the episode is due for long
\* enough, the notice says so.
CheckJudge ==
  /\ check.pc = "judge"
  /\ \/ pend # {} /\ check' = [check EXCEPT !.pc = "print"]
     \/ pend = {} /\ check' \in {IdleCheck, [check EXCEPT !.pc = "enqueue", !.print = NonePrint(check.stamp)]}
  /\ UNCHANGED notice /\ OnlyCheck

\* They are read again for the fingerprint.
CheckPrint ==
  /\ check.pc = "print"
  /\ check' = [check EXCEPT !.pc = "enqueue", !.print = SetPrint(pend)]
  /\ UNCHANGED notice /\ OnlyCheck

\* Mutant: an episode has one notice.
TakesOnce(p) == \A q \in Prints : notice[q] = "absent"

\* Mutant: a row that exists is pending again.
TakesAlways(p) == TRUE

\* INSERT OR IGNORE under UNIQUE(episode_id, channel, candidate_fingerprint)
Takes(p) == notice[p] = "absent"

CheckEnqueue ==
  /\ check.pc = "enqueue"
  /\ notice' = IF Takes(check.print) THEN [notice EXCEPT ![check.print] = "pending"] ELSE notice
  /\ check' = IdleCheck
  /\ OnlyCheck

CheckStep == CheckStart \/ CheckJudge \/ CheckPrint \/ CheckEnqueue

-----------------------------------------------------------------------------
(* The health of the source.                                               *)

OnlyHealth == UNCHANGED <<episodeVars, noticeVars, disp, restarts, userVars>>

\* Mutant: a failure before the recovery was told starts anew.
AfterFailureAnew(a, n) ==
  IF a = "recovery_pending" THEN "none" ELSE IF a = "none" /\ n >= Threshold THEN "failure_pending" ELSE a

\* Mutant: the alert comes one failure early.
AfterFailureEarly(a, n) ==
  IF a = "recovery_pending" THEN "failure_sent"
  ELSE IF a = "none" /\ n + 1 >= Threshold THEN "failure_pending" ELSE a

AfterFailure(a, n) ==
  IF a = "recovery_pending" THEN "failure_sent"
  ELSE IF a = "none" /\ n >= Threshold THEN "failure_pending" ELSE a

\* record_source_failure
SourceFails ==
  LET n == Least(health.failures + 1, Threshold) IN
  /\ health' = [failures |-> n, alert |-> AfterFailure(health.alert, n)]
  /\ waits' = IF health.alert \in {"none", "recovery_pending"} THEN waits \ {Alert} ELSE waits
  /\ OnlyHealth

\* record_source_success
SourceAnswers ==
  /\ health' = IF health.alert \in Announced
                 THEN [health EXCEPT !.alert = "recovery_pending"]
                 ELSE [failures |-> 0, alert |-> "none"]
  /\ waits' = IF health.alert = "recovery_pending" THEN waits ELSE waits \ {Alert}
  /\ OnlyHealth

-----------------------------------------------------------------------------
(* A dispatcher.                                                           *)

At(d, pc)   == disp[d].pc = pc
Turns(d, r) == disp' = [disp EXCEPT ![d] = r]
OnlyDisp    == UNCHANGED <<episodeVars, noticeVars, waits, health, userVars>>

\* pending_review_notifications: the rows, each with its anime's updated_at.
ReadRows(d) ==
  /\ At(d, "rest")
  /\ Turns(d, [IdleDisp EXCEPT !.pc = "read", !.stamp = stamp,
       !.rows = IF open THEN { p \in Prints \ waits : notice[p] = "pending" } ELSE {}])
  /\ OnlyDisp

\* The candidates are read row by row.
Obsolete(d, p) ==
  IF p[1] = "none" THEN pend # {} \/ p # NonePrint(disp[d].stamp) ELSE p # SetPrint(pend)

ReadCandidates(d) ==
  /\ At(d, "read")
  /\ \E p \in disp[d].rows :
       /\ notice' = IF Obsolete(d, p) THEN Cancelled({p}) ELSE notice
       /\ Turns(d, [disp[d] EXCEPT !.rows = @ \ {p}, !.events = IF Obsolete(d, p) THEN @ ELSE @ \cup {p}])
  /\ UNCHANGED <<episodeVars, check, waits, health, userVars>>

ReadDone(d) ==
  /\ At(d, "read") /\ disp[d].rows = {}
  /\ Turns(d, [disp[d] EXCEPT !.pc = "reviews", !.stamp = 0])
  /\ OnlyDisp

\* notify_review: it arrives or not, and the dispatcher learns it or not.
SendReview(d) ==
  /\ At(d, "reviews")
  /\ \E p \in disp[d].events, arrives, ok \in BOOLEAN :
       /\ ok => arrives
       /\ Turns(d, [disp[d] EXCEPT !.pc = "review", !.cur = p, !.events = @ \ {p}, !.ok = ok])
       /\ arrived' = IF arrives THEN [arrived EXCEPT ![p] = "unmarked"] ELSE arrived
  /\ UNCHANGED <<episodeVars, noticeVars, waits, health, told>>

\* The dispatcher goes on with the next notice.
AfterReview(d) == [disp[d] EXCEPT !.pc = "reviews", !.cur = NoPrint, !.ok = FALSE]

\* mark_review_notification_sent, whatever the row has become.
MarkReviewSent(d) ==
  /\ At(d, "review") /\ disp[d].ok
  /\ notice' = [notice EXCEPT ![disp[d].cur] = "sent"]
  /\ arrived' = [arrived EXCEPT ![disp[d].cur] = "marked"]
  /\ Turns(d, AfterReview(d))
  /\ UNCHANGED <<episodeVars, check, waits, health, told>>

\* mark_review_notification_failed
MarkReviewFailed(d) ==
  /\ At(d, "review") /\ ~disp[d].ok
  /\ waits' = waits \cup {disp[d].cur}
  /\ Turns(d, AfterReview(d))
  /\ UNCHANGED <<episodeVars, noticeVars, health, userVars>>

\* pending_source_alerts
ReadAlerts(d) ==
  /\ At(d, "reviews") /\ disp[d].events = {}
  /\ IF Pending(health.alert) /\ Alert \notin waits
       THEN Turns(d, [IdleDisp EXCEPT !.pc = "alerts", !.alert = health.alert])
       ELSE Turns(d, IdleDisp)
  /\ OnlyDisp

\* notify_source_alert
Says(a) == IF a = "failure_pending" THEN "down" ELSE "fine"

SendAlert(d) ==
  /\ At(d, "alerts")
  /\ \E arrives, ok \in BOOLEAN :
       /\ ok => arrives
       /\ Turns(d, [disp[d] EXCEPT !.pc = "alert", !.ok = ok])
       /\ told' = IF arrives THEN Says(disp[d].alert) ELSE told
  /\ UNCHANGED <<episodeVars, noticeVars, waits, health, arrived>>

\* Mutant: a recovery is not marked.
MarkableFailure(a) == health.alert = a /\ a = "failure_pending"

Markable(a) == health.alert = a

\* mark_source_alert_sent: if the alert has become another one nothing is recorded, and
\* the error ends the process.
MarkAlertSent(d) ==
  LET a == disp[d].alert IN
  /\ At(d, "alert") /\ disp[d].ok
  /\ IF Markable(a)
       THEN /\ health' = IF a = "failure_pending" THEN [health EXCEPT !.alert = "failure_sent"]
                         ELSE [failures |-> 0, alert |-> "none"]
            /\ waits' = waits \ {Alert}
       ELSE UNCHANGED <<health, waits>>
  /\ Turns(d, IdleDisp)
  /\ UNCHANGED <<episodeVars, noticeVars, arrived, told>>

\* mark_source_alert_failed
MarkAlertFailed(d) ==
  /\ At(d, "alert") /\ ~disp[d].ok
  /\ waits' = IF Pending(health.alert) THEN waits \cup {Alert} ELSE waits
  /\ Turns(d, IdleDisp)
  /\ UNCHANGED <<episodeVars, noticeVars, health, userVars>>

\* The process stops and is started again.
Restart(d) ==
  /\ ~At(d, "rest") /\ Turns(d, IdleDisp)
  /\ restarts < MaxRestarts /\ restarts' = restarts + 1
  /\ OnlyDisp

RetryComes(x) ==
  /\ x \in waits /\ waits' = waits \ {x}
  /\ UNCHANGED <<episodeVars, noticeVars, health, disp, restarts, userVars>>

DispatchStep(d) ==
  \/ ReadRows(d) \/ ReadCandidates(d) \/ ReadDone(d) \/ SendReview(d) \/ MarkReviewSent(d)
  \/ MarkReviewFailed(d) \/ ReadAlerts(d) \/ SendAlert(d) \/ MarkAlertSent(d) \/ MarkAlertFailed(d)

Next ==
  \/ EpisodeStep \/ CheckStep \/ SourceFails \/ SourceAnswers
  \/ \E x \in Prints \cup {Alert} : RetryComes(x)
  \/ \E d \in Dispatchers : (DispatchStep(d) /\ UNCHANGED restarts) \/ Restart(d)

Spec == Init /\ [][Next]_vars

\* The scheduler polls for ever, retries come, and of the messages sent again and
\* again some arrive and are known to.
FairSpec ==
  /\ Spec
  /\ WF_vars(CheckStep)
  /\ \A x \in Prints \cup {Alert} : WF_vars(RetryComes(x))
  /\ \A d \in Dispatchers :
       /\ WF_vars(DispatchStep(d) /\ UNCHANGED restarts)
       /\ SF_vars(SendAlert(d) /\ disp'[d].ok /\ UNCHANGED restarts)
       /\ \A p \in Prints :
            SF_vars(SendReview(d) /\ disp'[d].cur = p /\ disp'[d].ok /\ UNCHANGED restarts)

-----------------------------------------------------------------------------
(* Properties.                                                             *)

\* A set of candidates is announced once, and again only when an arrival was not
\* recorded: the reply was lost or the process stopped (doc/web-deployment.md, "同一
\* 个候选集合只提醒一次").
RemindsOnce == [][\A p \in Prints : arrived[p] = "marked" => arrived'[p] = "marked"]_vars

\* The row counts an outage as told only when the last message said so, and forgets a
\* told outage only when the last message was the recovery: in whatever order the source
\* fails and answers around a send, and whatever is lost or stopped, the recovery of a
\* recorded outage is not skipped (record_source_failure, record_source_success,
\* mark_source_alert_sent).
ForgetsOnlyTold ==
  [][ /\ health.alert \notin Announced /\ health'.alert \in Announced => told = "down"
      /\ health.alert \in Announced /\ health'.alert \notin Announced => told = "fine" ]_vars

\* When a dispatcher that knows its alert arrived is done with it, the row agrees with the
\* user, so that an outage is told once and then its recovery (deployment.md:498, :500).
\* The code does not keep this: if the source answers between the send and the mark,
\* failure_pending has become none, the mark fits no row and the recovery is never told;
\* if it fails there, recovery_pending has become failure_sent and the user is not told.
AlertIsRecorded ==
  [][ \A d \in Dispatchers :
        MarkAlertSent(d) => (told = "down" <=> health'.alert \in Announced) ]_vars

\* No alert waits for ever, neither behind review notices that fail nor for a mark
\* that does not fit the row any more.
AlertIsSettled == []<>(~Pending(health.alert))

\* A set of candidates that stays is announced, unless a notice of it was cancelled
\* before: then its row takes no second one (enqueue_review_notification).
SetIsReminded ==
  \A S \in SUBSET Videos \ {{}} :
    <>[](open /\ pend = S) => <>(arrived[SetPrint(S)] # "never" \/ notice[SetPrint(S)] = "cancelled")

=============================================================================
