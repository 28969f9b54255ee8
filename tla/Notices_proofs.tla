--------------------------- MODULE Notices_proofs ---------------------------
(***************************************************************************)
(* For any number of videos, changes and restarts, and a source with any   *)
(* threshold: the types, and, when one process dispatches, that a set of   *)
(* candidates whose arrival was recorded is not announced again, and that  *)
(* the row of the source counts an outage as told, and forgets a told one, *)
(* only after the last message said so.                                    *)
(*                                                                         *)
(* With one dispatcher nobody else sends or marks between its sending and  *)
(* its marking, so what it holds (Held) is still what the row was; others  *)
(* only cancel notices and change the alert.                               *)
(***************************************************************************)
EXTENDS Notices, TLAPS

OneDispatcher == \E d : Dispatchers = {d}

-----------------------------------------------------------------------------
(* Types.                                                                  *)

LEMMA StampPrints ==
  /\ 0 \in 0 .. MaxStamp
  /\ \A t \in 0 .. MaxStamp : NonePrint(t) \in Prints
  /\ \A S \in SUBSET Videos : SetPrint(S) \in Prints
BY NoticesAssumption DEF Prints

EpisodeTypeOK ==
  pend \in SUBSET Videos /\ open \in BOOLEAN /\ stamp \in 0 .. MaxStamp /\ changes \in 0 .. MaxChanges

CheckRecord ==
  [pc : {"idle", "judge", "print", "enqueue"}, stamp : 0 .. MaxStamp, print : Prints \cup {NoPrint}]

HealthTypeOK ==
  /\ health \in [failures : 0 .. Threshold, alert : AlertState]
  /\ health.alert # "none" => health.failures = Threshold

RestTypeOK ==
  /\ notice \in [Prints -> {"absent", "pending", "sent", "cancelled"}]
  /\ waits \in SUBSET (Prints \cup {Alert})
  /\ check \in CheckRecord

SeenTypeOK ==
  /\ arrived \in [Prints -> {"never", "unmarked", "marked"}]
  /\ told \in {"fine", "down"}

DispTypeOK == disp \in [Dispatchers -> DispRecord] /\ restarts \in 0 .. MaxRestarts

LEMMA TypeParts ==
  TypeOK <=> EpisodeTypeOK /\ RestTypeOK /\ HealthTypeOK /\ DispTypeOK /\ SeenTypeOK
BY DEF TypeOK, EpisodeTypeOK, RestTypeOK, HealthTypeOK, DispTypeOK, SeenTypeOK, CheckRecord

LEMMA CancelledTyped ==
  ASSUME RestTypeOK, NEW P
  PROVE  Cancelled(P) \in [Prints -> {"absent", "pending", "sent", "cancelled"}]
BY DEF RestTypeOK, Cancelled

LEMMA PartsKept ==
  ASSUME TypeOK
  PROVE  /\ EpisodeTypeOK /\ RestTypeOK /\ HealthTypeOK /\ DispTypeOK /\ SeenTypeOK
         /\ UNCHANGED episodeVars => EpisodeTypeOK'
         /\ UNCHANGED <<notice, waits, check>> => RestTypeOK'
         /\ UNCHANGED health => HealthTypeOK'
         /\ UNCHANGED <<disp, restarts>> => DispTypeOK'
         /\ UNCHANGED userVars => SeenTypeOK'
         /\ EpisodeTypeOK' /\ RestTypeOK' /\ HealthTypeOK' /\ DispTypeOK' /\ SeenTypeOK' => TypeOK'
<1>1. EpisodeTypeOK /\ RestTypeOK /\ HealthTypeOK /\ DispTypeOK /\ SeenTypeOK
  BY TypeParts
<1>2. UNCHANGED episodeVars => EpisodeTypeOK'
  BY <1>1 DEF episodeVars, EpisodeTypeOK
<1>3. UNCHANGED <<notice, waits, check>> => RestTypeOK'
  BY <1>1 DEF RestTypeOK
<1>4. UNCHANGED health => HealthTypeOK'
  BY <1>1 DEF HealthTypeOK
<1>5. UNCHANGED <<disp, restarts>> => DispTypeOK'
  BY <1>1 DEF DispTypeOK
<1>6. UNCHANGED userVars => SeenTypeOK'
  BY <1>1 DEF userVars, SeenTypeOK
<1>7. EpisodeTypeOK' /\ RestTypeOK' /\ HealthTypeOK' /\ DispTypeOK' /\ SeenTypeOK' => TypeOK'
  BY DEF TypeOK, EpisodeTypeOK, RestTypeOK, HealthTypeOK, DispTypeOK, SeenTypeOK, CheckRecord
<1> QED BY <1>1, <1>2, <1>3, <1>4, <1>5, <1>6, <1>7

LEMMA EpisodeTyped ==
  ASSUME TypeOK, EpisodeStep
  PROVE  TypeOK'
<1>1. EpisodeTypeOK'
  BY PartsKept, NoticesAssumption
     DEF EpisodeTypeOK, EpisodeStep, CandidatesChange, Block, Monitor, Complete
<1>2. RestTypeOK'
  BY PartsKept, CancelledTyped
     DEF RestTypeOK, EpisodeStep, CandidatesChange, Block, Monitor, Complete, OnlyEpisode, noticeVars
<1>3. UNCHANGED health /\ UNCHANGED <<disp, restarts>> /\ UNCHANGED userVars
  BY DEF EpisodeStep, CandidatesChange, Block, Monitor, Complete, OnlyEpisode
<1> QED BY <1>1, <1>2, <1>3, PartsKept

LEMMA CheckTyped ==
  ASSUME TypeOK, CheckStep
  PROVE  TypeOK'
<1>0. RestTypeOK
  BY PartsKept
<1>1. UNCHANGED episodeVars /\ UNCHANGED health /\ UNCHANGED <<disp, restarts>> /\ UNCHANGED userVars
      /\ waits' = waits
  BY DEF CheckStep, CheckStart, CheckJudge, CheckPrint, CheckEnqueue, OnlyCheck
<1>2. IdleCheck \in CheckRecord
  BY StampPrints DEF IdleCheck, CheckRecord
<1>3. check' \in CheckRecord
  <2>1. CASE CheckStart
    <3>1. stamp \in 0 .. MaxStamp
      BY PartsKept DEF EpisodeTypeOK
    <3> QED BY <1>2, <2>1, <3>1 DEF CheckStart, CheckRecord
  <2>2. CASE CheckJudge
    <3>1. check.stamp \in 0 .. MaxStamp
      BY <1>0 DEF RestTypeOK, CheckRecord
    <3>2. NonePrint(check.stamp) \in Prints
      BY <3>1, StampPrints
    <3> QED BY <1>0, <1>2, <2>2, <3>2 DEF CheckJudge, RestTypeOK, CheckRecord
  <2>3. CASE CheckPrint
    <3>1. SetPrint(pend) \in Prints
      BY PartsKept, StampPrints DEF EpisodeTypeOK
    <3> QED BY <1>0, <2>3, <3>1 DEF CheckPrint, RestTypeOK, CheckRecord
  <2>4. CASE CheckEnqueue
    BY <1>2, <2>4 DEF CheckEnqueue
  <2> QED BY <2>1, <2>2, <2>3, <2>4 DEF CheckStep
<1>4. notice' \in [Prints -> {"absent", "pending", "sent", "cancelled"}]
  BY <1>0 DEF RestTypeOK, CheckStep, CheckStart, CheckJudge, CheckPrint, CheckEnqueue
<1>5. RestTypeOK'
  BY <1>0, <1>1, <1>3, <1>4 DEF RestTypeOK
<1> QED BY <1>1, <1>5, PartsKept

LEMMA HealthTyped ==
  ASSUME TypeOK, SourceFails \/ SourceAnswers
  PROVE  TypeOK'
<1>0. HealthTypeOK /\ RestTypeOK
  BY PartsKept
<1>1. UNCHANGED episodeVars /\ UNCHANGED noticeVars /\ UNCHANGED <<disp, restarts>> /\ UNCHANGED userVars
      /\ waits' \subseteq waits
  BY DEF SourceFails, SourceAnswers, OnlyHealth
<1>2. RestTypeOK'
  BY <1>0, <1>1 DEF RestTypeOK, noticeVars
<1>3. CASE SourceFails
  <2>1. PICK n, a : /\ health' = [failures |-> n, alert |-> a]
                    /\ n = Least(health.failures + 1, Threshold) /\ a = AfterFailure(health.alert, n)
    BY <1>3 DEF SourceFails
  <2>2. n \in 0 .. Threshold /\ (health.alert # "none" => n = Threshold)
    BY <1>0, <2>1, NoticesAssumption DEF HealthTypeOK, Least
  <2>3. a \in AlertState /\ (a # "none" => n = Threshold)
    <3>1. health.alert \in AlertState
      BY <1>0 DEF HealthTypeOK
    <3> QED BY <2>1, <2>2, <3>1, NoticesAssumption DEF AfterFailure, AlertState
  <2>4. HealthTypeOK'
    BY <2>1, <2>2, <2>3 DEF HealthTypeOK
  <2> QED BY <1>1, <1>2, <2>4, PartsKept
<1>4. CASE SourceAnswers
  <2>1. HealthTypeOK'
    BY <1>0, <1>4, NoticesAssumption DEF SourceAnswers, HealthTypeOK, AlertState, Announced
  <2> QED BY <1>1, <1>2, <2>1, PartsKept
<1> QED BY <1>3, <1>4

\* Replacing the record of a dispatcher by a typed one keeps the type.
LEMMA TurnsTyped ==
  ASSUME DispTypeOK, NEW d \in Dispatchers, NEW r \in DispRecord, Turns(d, r)
  PROVE  disp' \in [Dispatchers -> DispRecord] /\ disp'[d] = r
         /\ \A e \in Dispatchers \ {d} : disp'[e] = disp[e]
BY DEF DispTypeOK, Turns

LEMMA IdleDispTyped == IdleDisp \in DispRecord
BY StampPrints DEF IdleDisp, DispRecord, AlertState

\* What a dispatcher turns to is typed; what it cannot turn to is not asked.
LEMMA DispatchTurns ==
  ASSUME TypeOK, NEW d \in Dispatchers, DispatchStep(d)
  PROVE  \E r \in DispRecord : Turns(d, r)
<1>0. DispTypeOK /\ RestTypeOK /\ HealthTypeOK /\ disp[d] \in DispRecord
  BY PartsKept DEF DispTypeOK
<1>1. CASE ReadRows(d)
  <2>1. stamp \in 0 .. MaxStamp
    BY PartsKept DEF EpisodeTypeOK
  <2>2. [IdleDisp EXCEPT !.pc = "read", !.stamp = stamp,
          !.rows = IF open THEN { p \in Prints \ waits : notice[p] = "pending" } ELSE {}] \in DispRecord
    BY <2>1, IdleDispTyped DEF DispRecord
  <2> QED BY <1>1, <2>2 DEF ReadRows
<1>2. CASE ReadCandidates(d)
  <2>1. PICK p \in disp[d].rows :
          Turns(d, [disp[d] EXCEPT !.rows = disp[d].rows \ {p},
                                   !.events = IF Obsolete(d, p) THEN disp[d].events ELSE disp[d].events \cup {p}])
    BY <1>2 DEF ReadCandidates
  <2> DEFINE R == disp[d].rows \ {p}
  <2> DEFINE E == IF Obsolete(d, p) THEN disp[d].events ELSE disp[d].events \cup {p}
  <2>2. R \in SUBSET Prints /\ E \in SUBSET Prints
    BY <1>0 DEF DispRecord
  <2>3. [disp[d] EXCEPT !.rows = R, !.events = E] \in DispRecord
    <3> HIDE DEF R, E
    <3> QED BY <1>0, <2>2 DEF DispRecord
  <2> QED BY <2>1, <2>3
<1>3. CASE ReadDone(d)
  BY <1>0, <1>3, StampPrints DEF ReadDone, DispRecord
<1>4. CASE SendReview(d)
  <2>1. PICK p \in disp[d].events, ok \in BOOLEAN :
          Turns(d, [disp[d] EXCEPT !.pc = "review", !.cur = p, !.events = disp[d].events \ {p}, !.ok = ok])
    BY <1>4 DEF SendReview
  <2> QED BY <1>0, <2>1 DEF DispRecord
<1>5. CASE MarkReviewSent(d) \/ MarkReviewFailed(d)
  <2>1. AfterReview(d) \in DispRecord
    BY <1>0 DEF AfterReview, DispRecord
  <2> QED BY <1>5, <2>1 DEF MarkReviewSent, MarkReviewFailed
<1>6. CASE ReadAlerts(d)
  <2>1. [IdleDisp EXCEPT !.pc = "alerts", !.alert = health.alert] \in DispRecord
    BY <1>0, IdleDispTyped DEF DispRecord, HealthTypeOK
  <2> QED BY <1>6, <2>1, IdleDispTyped DEF ReadAlerts
<1>7. CASE SendAlert(d)
  <2>1. PICK ok \in BOOLEAN : Turns(d, [disp[d] EXCEPT !.pc = "alert", !.ok = ok])
    BY <1>7 DEF SendAlert
  <2> QED BY <1>0, <2>1 DEF DispRecord
<1>8. CASE MarkAlertSent(d) \/ MarkAlertFailed(d)
  BY <1>8, IdleDispTyped DEF MarkAlertSent, MarkAlertFailed
<1> QED BY <1>1, <1>2, <1>3, <1>4, <1>5, <1>6, <1>7, <1>8 DEF DispatchStep

LEMMA CurIsPrint ==
  ASSUME TypeOK, NEW d \in Dispatchers
  PROVE  disp[d].cur \in Prints \cup {NoPrint} /\ disp[d].alert \in AlertState /\ disp[d].ok \in BOOLEAN
         /\ disp[d].rows \subseteq Prints /\ disp[d].events \subseteq Prints
BY PartsKept DEF DispTypeOK, DispRecord

\* A dispatcher at a notice holds one.
HoldsNotice ==
  \A d \in Dispatchers : (At(d, "review") => disp[d].cur \in Prints)
                         /\ (At(d, "alerts") \/ At(d, "alert") => Pending(disp[d].alert))

LEMMA DispatchTyped ==
  ASSUME TypeOK, HoldsNotice, NEW d \in Dispatchers, DispatchStep(d), UNCHANGED restarts
  PROVE  TypeOK'
<1>0. DispTypeOK /\ RestTypeOK /\ HealthTypeOK /\ SeenTypeOK
  BY PartsKept
<1>1. UNCHANGED episodeVars /\ check' = check
  BY DEF DispatchStep, ReadRows, ReadCandidates, ReadDone, SendReview, MarkReviewSent, MarkReviewFailed,
         ReadAlerts, SendAlert, MarkAlertSent, MarkAlertFailed, OnlyDisp, noticeVars
<1>2. DispTypeOK'
  BY <1>0, DispatchTurns, TurnsTyped DEF DispTypeOK
<1>3. RestTypeOK'
  <2>1. notice' \in [Prints -> {"absent", "pending", "sent", "cancelled"}]
    <3>1. CASE notice' = notice
      BY <1>0, <3>1 DEF RestTypeOK
    <3>2. CASE ReadCandidates(d)
      BY <1>0, <3>1, <3>2, CancelledTyped DEF ReadCandidates
    <3>3. CASE MarkReviewSent(d)
      BY <1>0, <3>3 DEF MarkReviewSent, RestTypeOK
    <3> QED BY <3>1, <3>2, <3>3
            DEF DispatchStep, ReadRows, ReadDone, SendReview, MarkReviewFailed, ReadAlerts, SendAlert,
                MarkAlertSent, MarkAlertFailed, OnlyDisp, noticeVars
  <2>2. waits' \in SUBSET (Prints \cup {Alert})
    <3>1. CASE waits' \subseteq waits
      BY <1>0, <3>1 DEF RestTypeOK
    <3>2. CASE MarkReviewFailed(d)
      BY <1>0, <3>2 DEF MarkReviewFailed, HoldsNotice, RestTypeOK
    <3>3. CASE MarkAlertFailed(d)
      BY <1>0, <3>3 DEF MarkAlertFailed, RestTypeOK
    <3> QED BY <3>1, <3>2, <3>3
            DEF DispatchStep, ReadRows, ReadCandidates, ReadDone, SendReview, MarkReviewSent, ReadAlerts,
                SendAlert, MarkAlertSent, OnlyDisp
  <2> QED BY <1>0, <1>1, <2>1, <2>2 DEF RestTypeOK
<1>4. HealthTypeOK'
  <2>1. CASE health' = health
    BY <2>1, PartsKept
  <2>2. CASE MarkAlertSent(d)
    <3>1. health' \in {health, [health EXCEPT !.alert = "failure_sent"], [failures |-> 0, alert |-> "none"]}
          /\ (health' = [health EXCEPT !.alert = "failure_sent"] => health.alert # "none" \/ health' = health)
      BY <2>2 DEF MarkAlertSent, Markable
    <3> QED BY <1>0, <3>1, NoticesAssumption DEF HealthTypeOK, AlertState
  <2> QED BY <2>1, <2>2
          DEF DispatchStep, ReadRows, ReadCandidates, ReadDone, SendReview, MarkReviewSent, MarkReviewFailed,
              ReadAlerts, SendAlert, MarkAlertFailed, OnlyDisp
<1>5. SeenTypeOK'
  <2>1. CASE UNCHANGED userVars
    BY <2>1, PartsKept
  <2>2. CASE SendReview(d)
    BY <1>0, <2>2 DEF SendReview, SeenTypeOK
  <2>3. CASE MarkReviewSent(d)
    BY <1>0, <2>3 DEF MarkReviewSent, SeenTypeOK
  <2>4. CASE SendAlert(d)
    BY <1>0, <2>4 DEF SendAlert, SeenTypeOK, Says
  <2>5. CASE MarkAlertSent(d)
    BY <1>0, <2>5 DEF MarkAlertSent, SeenTypeOK
  <2> QED BY <2>1, <2>2, <2>3, <2>4, <2>5
          DEF DispatchStep, ReadRows, ReadCandidates, ReadDone, MarkReviewFailed, ReadAlerts,
              MarkAlertFailed, OnlyDisp, userVars
<1> QED BY <1>1, <1>2, <1>3, <1>4, <1>5, PartsKept

\* The record a dispatcher has after its step; the others keep theirs.
LEMMA OnlyItsRecord ==
  ASSUME TypeOK, NEW d \in Dispatchers, NEW r, Turns(d, r)
  PROVE  disp'[d] = r /\ \A e \in Dispatchers \ {d} : disp'[e] = disp[e]
BY PartsKept DEF DispTypeOK, Turns

LEMMA OthersKeep ==
  ASSUME TypeOK, NEW d \in Dispatchers, DispatchStep(d)
  PROVE  \A e \in Dispatchers \ {d} : disp'[e] = disp[e]
<1>1. \E r \in DispRecord : Turns(d, r)
  BY DispatchTurns
<1> QED BY <1>1, OnlyItsRecord

LEMMA StepRecord ==
  ASSUME TypeOK, NEW d \in Dispatchers, DispatchStep(d)
  PROVE  /\ At(d, "review")' => SendReview(d) /\ disp'[d].cur \in disp[d].events
         /\ At(d, "alerts")' => Pending(disp'[d].alert)
         /\ At(d, "alert")' => SendAlert(d) /\ disp'[d].alert = disp[d].alert
<1>0. disp[d] \in DispRecord
  BY PartsKept DEF DispTypeOK
<1>1. PICK r \in DispRecord : Turns(d, r)
  BY DispatchTurns
<1>2. disp'[d] = r /\ disp' = [disp EXCEPT ![d] = r]
  BY <1>1, OnlyItsRecord DEF Turns
<1>3. \A q : Turns(d, q) => q = r
  BY <1>2, OnlyItsRecord
<1>4. CASE ReadRows(d)
  <2>1. r.pc = "read"
    BY <1>3, <1>4 DEF ReadRows, IdleDisp
  <2> QED BY <1>2, <2>1 DEF At
<1>5. CASE ReadDone(d)
  <2>1. r.pc = "reviews"
    BY <1>0, <1>3, <1>5 DEF ReadDone, DispRecord
  <2> QED BY <1>2, <2>1 DEF At
<1>6. CASE MarkReviewSent(d) \/ MarkReviewFailed(d)
  <2>1. r = AfterReview(d)
    BY <1>3, <1>6 DEF MarkReviewSent, MarkReviewFailed
  <2>2. r.pc = "reviews"
    BY <1>0, <2>1 DEF AfterReview, DispRecord
  <2> QED BY <1>2, <2>2 DEF At
<1>7. CASE MarkAlertSent(d) \/ MarkAlertFailed(d)
  <2>1. r = IdleDisp
    BY <1>3, <1>7 DEF MarkAlertSent, MarkAlertFailed
  <2> QED BY <1>2, <2>1 DEF At, IdleDisp
<1>8. CASE ReadCandidates(d)
  <2>1. PICK p \in disp[d].rows :
          r = [disp[d] EXCEPT !.rows = disp[d].rows \ {p},
                              !.events = IF Obsolete(d, p) THEN disp[d].events ELSE disp[d].events \cup {p}]
    BY <1>3, <1>8 DEF ReadCandidates
  <2>2. r.pc = "read"
    BY <1>0, <1>8, <2>1 DEF ReadCandidates, At, DispRecord
  <2> QED BY <1>2, <2>2 DEF At
<1>9. CASE SendReview(d)
  <2>1. PICK p \in disp[d].events, ok \in BOOLEAN :
          r = [disp[d] EXCEPT !.pc = "review", !.cur = p, !.events = disp[d].events \ {p}, !.ok = ok]
    BY <1>3, <1>9 DEF SendReview
  <2>2. r.pc = "review" /\ r.cur = p
    BY <1>0, <2>1 DEF DispRecord
  <2> QED BY <1>2, <1>9, <2>2 DEF At
<1>10. CASE ReadAlerts(d)
  <2>1. CASE r = IdleDisp
    BY <1>2, <2>1 DEF At, IdleDisp
  <2>2. CASE r = [IdleDisp EXCEPT !.pc = "alerts", !.alert = health.alert] /\ Pending(health.alert)
    <3>1. r.pc = "alerts" /\ r.alert = health.alert
      BY <2>2 DEF IdleDisp
    <3> QED BY <1>2, <2>2, <3>1 DEF At
  <2> QED BY <1>3, <1>10, <2>1, <2>2 DEF ReadAlerts
<1>11. CASE SendAlert(d)
  <2>1. PICK ok \in BOOLEAN : r = [disp[d] EXCEPT !.pc = "alert", !.ok = ok]
    BY <1>3, <1>11 DEF SendAlert
  <2>2. r.pc = "alert" /\ r.alert = disp[d].alert
    BY <1>0, <2>1 DEF DispRecord
  <2> QED BY <1>2, <1>11, <2>2 DEF At
<1> QED BY <1>4, <1>5, <1>6, <1>7, <1>8, <1>9, <1>10, <1>11 DEF DispatchStep

\* Everything that is no dispatcher's step leaves the dispatchers and what arrived.
LEMMA OtherSteps ==
  ASSUME EpisodeStep \/ CheckStep \/ SourceFails \/ SourceAnswers
         \/ \E x \in Prints \cup {Alert} : RetryComes(x)
  PROVE  disp' = disp /\ UNCHANGED userVars
BY DEF EpisodeStep, CandidatesChange, Block, Monitor, Complete, OnlyEpisode, CheckStep, CheckStart,
       CheckJudge, CheckPrint, CheckEnqueue, OnlyCheck, SourceFails, SourceAnswers, OnlyHealth, RetryComes

LEMMA RestartIdles ==
  ASSUME TypeOK, NEW d \in Dispatchers, Restart(d)
  PROVE  /\ disp'[d] = IdleDisp /\ \A e \in Dispatchers \ {d} : disp'[e] = disp[e]
         /\ UNCHANGED userVars /\ UNCHANGED noticeVars /\ UNCHANGED health
BY OnlyItsRecord DEF Restart, OnlyDisp

LEMMA HoldsKept ==
  ASSUME TypeOK, HoldsNotice, [Next]_vars
  PROVE  HoldsNotice'
<1>1. CASE disp' = disp
  BY <1>1 DEF HoldsNotice, At
<1>2. ASSUME NEW d \in Dispatchers, DispatchStep(d) PROVE HoldsNotice'
  <2>1. /\ At(d, "review")' => disp'[d].cur \in Prints
        /\ At(d, "alerts")' \/ At(d, "alert")' => Pending(disp'[d].alert)
    BY <1>2, StepRecord, CurIsPrint DEF HoldsNotice, SendAlert
  <2>2. \A e \in Dispatchers \ {d} : disp'[e] = disp[e]
    BY <1>2, OthersKeep
  <2> QED BY <2>1, <2>2 DEF HoldsNotice, At
<1>3. ASSUME NEW d \in Dispatchers, Restart(d) PROVE HoldsNotice'
  <2>1. disp'[d].pc = "rest" /\ \A e \in Dispatchers \ {d} : disp'[e] = disp[e]
    BY <1>3, RestartIdles DEF IdleDisp
  <2> QED BY <2>1 DEF HoldsNotice, At
<1> QED BY <1>1, <1>2, <1>3, OtherSteps DEF Next, vars

LEMMA NextTyped ==
  ASSUME TypeOK, HoldsNotice, [Next]_vars
  PROVE  TypeOK'
<1>1. ASSUME NEW d \in Dispatchers, Restart(d) PROVE TypeOK'
  <2>1. DispTypeOK'
    BY <1>1, PartsKept, IdleDispTyped, TurnsTyped, NoticesAssumption DEF Restart, DispTypeOK
  <2> QED BY <1>1, <2>1, PartsKept DEF Restart, OnlyDisp, noticeVars
<1>2. ASSUME NEW x \in Prints \cup {Alert}, RetryComes(x) PROVE TypeOK'
  <2>1. RestTypeOK'
    BY <1>2, PartsKept DEF RestTypeOK, RetryComes, noticeVars
  <2> QED BY <1>2, <2>1, PartsKept DEF RetryComes
<1>3. CASE UNCHANGED vars
  BY <1>3, PartsKept DEF vars, noticeVars
<1> QED BY <1>1, <1>2, <1>3, EpisodeTyped, CheckTyped, HealthTyped, DispatchTyped DEF Next

LEMMA InitTyped == Init => TypeOK /\ HoldsNotice
<1> SUFFICES ASSUME Init PROVE TypeOK /\ HoldsNotice
  OBVIOUS
<1>1. EpisodeTypeOK
  BY NoticesAssumption DEF Init, EpisodeTypeOK
<1>2. RestTypeOK
  <2>1. IdleCheck \in CheckRecord
    BY StampPrints DEF IdleCheck, CheckRecord
  <2> QED BY <2>1 DEF Init, RestTypeOK
<1>3. HealthTypeOK
  BY NoticesAssumption DEF Init, HealthTypeOK, AlertState
<1>4. DispTypeOK
  BY NoticesAssumption, IdleDispTyped DEF Init, DispTypeOK
<1>5. SeenTypeOK
  BY DEF Init, SeenTypeOK
<1>6. HoldsNotice
  BY DEF Init, HoldsNotice, At, IdleDisp
<1> QED BY <1>1, <1>2, <1>3, <1>4, <1>5, <1>6, TypeParts

-----------------------------------------------------------------------------
(* One dispatcher: review notices.                                         *)

\* A recorded arrival is in the row.
RecordedIsSent == \A p \in Prints : arrived[p] = "marked" => notice[p] = "sent"

\* What the dispatcher still has to announce, no arrival of which was recorded.
ToAnnounce ==
  \A d \in Dispatchers :
    /\ \A p \in disp[d].rows \cup disp[d].events : arrived[p] # "marked"
    /\ ~At(d, "read") => disp[d].rows = {}
    /\ At(d, "review") => disp[d].cur \notin disp[d].events

ReviewInv == RecordedIsSent /\ ToAnnounce

\* The step that RemindsOnce asks for.
KeepsRecords == \A p \in Prints : arrived[p] = "marked" => arrived'[p] = "marked"

\* A dispatcher's record after a step, for the two parts that speak of it.
RecordFine(r) ==
  /\ \A p \in r.rows \cup r.events : arrived'[p] # "marked"
  /\ r.pc # "read" => r.rows = {}
  /\ r.pc = "review" => r.cur \notin r.events

LEMMA RowsStaySent ==
  ASSUME RestTypeOK, NEW P
  PROVE  \A p \in Prints : notice[p] = "sent" => Cancelled(P)[p] = "sent"
BY DEF RestTypeOK, Cancelled

LEMMA OthersKeepReviews ==
  ASSUME TypeOK, ReviewInv,
         EpisodeStep \/ CheckStep \/ SourceFails \/ SourceAnswers
         \/ \E x \in Prints \cup {Alert} : RetryComes(x)
  PROVE  ReviewInv' /\ KeepsRecords
<1>0. RestTypeOK
  BY PartsKept
<1>1. disp' = disp /\ arrived' = arrived
  BY OtherSteps DEF userVars
<1>2. \A p \in Prints : notice[p] = "sent" => notice'[p] = "sent"
  <2>1. CASE notice' = notice
    BY <2>1
  <2>2. CASE \E P : notice' = Cancelled(P)
    BY <1>0, <2>2, RowsStaySent
  <2>3. CASE CheckEnqueue
    BY <1>0, <2>3 DEF CheckEnqueue, Takes, RestTypeOK
  <2> QED BY <2>1, <2>2, <2>3
          DEF EpisodeStep, CandidatesChange, Block, Monitor, Complete, OnlyEpisode, CheckStep, CheckStart,
              CheckJudge, CheckPrint, SourceFails, SourceAnswers, OnlyHealth, RetryComes, noticeVars
<1>3. RecordedIsSent'
  BY <1>1, <1>2 DEF ReviewInv, RecordedIsSent
<1>4. ToAnnounce'
  BY <1>1 DEF ReviewInv, ToAnnounce, At
<1> QED BY <1>1, <1>3, <1>4 DEF ReviewInv, KeepsRecords

LEMMA DispatcherReviews ==
  ASSUME TypeOK, HoldsNotice, ReviewInv, NEW d \in Dispatchers, DispatchStep(d),
         NEW r \in DispRecord, Turns(d, r)
  PROVE  RecordFine(r) /\ RecordedIsSent' /\ KeepsRecords
<1>0. RestTypeOK /\ SeenTypeOK /\ disp[d] \in DispRecord
  BY PartsKept DEF DispTypeOK
<1>1. \A q : Turns(d, q) => q = r
  <2>1. disp'[d] = r
    BY OnlyItsRecord
  <2> QED BY <2>1, OnlyItsRecord
<1>2. /\ \A p \in disp[d].rows \cup disp[d].events : arrived[p] # "marked"
      /\ disp[d].pc # "read" => disp[d].rows = {}
      /\ disp[d].pc = "review" => disp[d].cur \notin disp[d].events
      /\ \A p \in Prints : arrived[p] = "marked" => notice[p] = "sent"
  BY DEF ReviewInv, ToAnnounce, RecordedIsSent, At
<1>3. CASE ReadRows(d)
  <2>1. arrived' = arrived /\ notice' = notice
    BY <1>3 DEF ReadRows, OnlyDisp, userVars, noticeVars
  <2>2. r = [IdleDisp EXCEPT !.pc = "read", !.stamp = stamp,
               !.rows = IF open THEN { p \in Prints \ waits : notice[p] = "pending" } ELSE {}]
    BY <1>1, <1>3 DEF ReadRows
  <2>3. r.pc = "read" /\ r.events = {} /\ \A p \in r.rows : p \in Prints /\ notice[p] = "pending"
    BY <2>2 DEF IdleDisp
  <2> QED BY <1>2, <2>1, <2>3 DEF RecordFine, RecordedIsSent, KeepsRecords
<1>4. CASE ReadCandidates(d)
  <2>1. PICK p \in disp[d].rows :
          /\ notice' = IF Obsolete(d, p) THEN Cancelled({p}) ELSE notice
          /\ r = [disp[d] EXCEPT !.rows = disp[d].rows \ {p},
                                 !.events = IF Obsolete(d, p) THEN disp[d].events ELSE disp[d].events \cup {p}]
    BY <1>1, <1>4 DEF ReadCandidates
  <2>2. /\ r.pc = "read" /\ r.rows \subseteq disp[d].rows
        /\ r.events \subseteq disp[d].events \cup {p}
    BY <1>0, <1>4, <2>1 DEF ReadCandidates, At, DispRecord
  <2>3. arrived' = arrived
    BY <1>4 DEF ReadCandidates, userVars
  <2>4. \A q \in Prints : notice[q] = "sent" => notice'[q] = "sent"
    BY <1>0, <2>1, RowsStaySent
  <2> QED BY <1>2, <2>2, <2>3, <2>4 DEF RecordFine, RecordedIsSent, KeepsRecords
<1>5. CASE ReadDone(d)
  <2>1. arrived' = arrived /\ notice' = notice
    BY <1>5 DEF ReadDone, OnlyDisp, userVars, noticeVars
  <2>2. r = [disp[d] EXCEPT !.pc = "reviews", !.stamp = 0]
    BY <1>1, <1>5 DEF ReadDone
  <2>3. r.pc = "reviews" /\ r.rows = {} /\ r.events = disp[d].events
    BY <1>0, <1>5, <2>2 DEF ReadDone, DispRecord
  <2> QED BY <1>2, <2>1, <2>3 DEF RecordFine, RecordedIsSent, KeepsRecords
<1>6. CASE SendReview(d)
  <2>1. PICK p \in disp[d].events, ok \in BOOLEAN :
          r = [disp[d] EXCEPT !.pc = "review", !.cur = p, !.events = disp[d].events \ {p}, !.ok = ok]
          /\ (arrived' = arrived \/ arrived' = [arrived EXCEPT ![p] = "unmarked"])
    BY <1>1, <1>6 DEF SendReview
  <2>2. r.pc = "review" /\ r.cur = p /\ r.events = disp[d].events \ {p} /\ r.rows = disp[d].rows
    BY <1>0, <2>1 DEF DispRecord
  <2>3. disp[d].rows = {} /\ notice' = notice
    BY <1>2, <1>6 DEF SendReview, At, noticeVars
  <2>4. p \in Prints /\ arrived[p] # "marked" /\ disp[d].events \subseteq Prints
    BY <1>0, <1>2, <2>1 DEF DispRecord
  <2>5. \A q \in Prints : arrived'[q] = arrived[q] \/ (q = p /\ arrived'[q] = "unmarked")
    BY <1>0, <2>1 DEF SeenTypeOK
  <2> QED BY <1>2, <2>2, <2>3, <2>4, <2>5 DEF RecordFine, RecordedIsSent, KeepsRecords
<1>7. CASE MarkReviewSent(d)
  <2>1. r = AfterReview(d)
    BY <1>1, <1>7 DEF MarkReviewSent
  <2>2. r.pc = "reviews" /\ r.rows = disp[d].rows /\ r.events = disp[d].events
    BY <1>0, <2>1 DEF AfterReview, DispRecord
  <2>3. disp[d].rows = {} /\ disp[d].cur \notin disp[d].events /\ disp[d].cur \in Prints
        /\ disp[d].events \subseteq Prints
    BY <1>0, <1>2, <1>7 DEF MarkReviewSent, At, HoldsNotice, DispRecord
  <2>4. \A q \in Prints : IF q = disp[d].cur THEN arrived'[q] = "marked" /\ notice'[q] = "sent"
                                             ELSE arrived'[q] = arrived[q] /\ notice'[q] = notice[q]
    BY <1>0, <1>7, <2>3 DEF MarkReviewSent, SeenTypeOK, RestTypeOK
  <2> QED BY <1>2, <2>2, <2>3, <2>4 DEF RecordFine, RecordedIsSent, KeepsRecords
<1>8. CASE MarkReviewFailed(d)
  <2>1. r = AfterReview(d) /\ arrived' = arrived /\ notice' = notice
    BY <1>1, <1>8 DEF MarkReviewFailed, userVars, noticeVars
  <2>2. r.pc = "reviews" /\ r.rows = disp[d].rows /\ r.events = disp[d].events
    BY <1>0, <2>1 DEF AfterReview, DispRecord
  <2> QED BY <1>2, <1>8, <2>1, <2>2 DEF MarkReviewFailed, At, RecordFine, RecordedIsSent, KeepsRecords
<1>9. CASE ReadAlerts(d) \/ MarkAlertSent(d) \/ MarkAlertFailed(d)
  <2>1. r = IdleDisp \/ r = [IdleDisp EXCEPT !.pc = "alerts", !.alert = health.alert]
    BY <1>1, <1>9 DEF ReadAlerts, MarkAlertSent, MarkAlertFailed
  <2>2. r.rows = {} /\ r.events = {} /\ r.pc # "review"
    <3>1. CASE r = IdleDisp
      BY <3>1 DEF IdleDisp
    <3>2. CASE r = [IdleDisp EXCEPT !.pc = "alerts", !.alert = health.alert]
      <4>1. r.rows = IdleDisp.rows /\ r.events = IdleDisp.events /\ r.pc = "alerts"
        BY <3>2 DEF IdleDisp
      <4> QED BY <4>1 DEF IdleDisp
    <3> QED BY <2>1, <3>1, <3>2
  <2>3. arrived' = arrived /\ notice' = notice
    BY <1>9 DEF ReadAlerts, MarkAlertSent, MarkAlertFailed, OnlyDisp, userVars, noticeVars
  <2> QED BY <1>2, <2>2, <2>3 DEF RecordFine, RecordedIsSent, KeepsRecords
<1>10. CASE SendAlert(d)
  <2>1. PICK ok \in BOOLEAN : r = [disp[d] EXCEPT !.pc = "alert", !.ok = ok]
    BY <1>1, <1>10 DEF SendAlert
  <2>2. r.pc = "alert" /\ r.rows = disp[d].rows /\ r.events = disp[d].events
    BY <1>0, <2>1 DEF DispRecord
  <2>3. arrived' = arrived /\ notice' = notice
    BY <1>10 DEF SendAlert, noticeVars
  <2> QED BY <1>2, <1>10, <2>2, <2>3 DEF SendAlert, At, RecordFine, RecordedIsSent, KeepsRecords
<1> QED BY <1>3, <1>4, <1>5, <1>6, <1>7, <1>8, <1>9, <1>10 DEF DispatchStep

LEMMA ReviewKept ==
  ASSUME OneDispatcher, TypeOK, HoldsNotice, ReviewInv, [Next]_vars
  PROVE  ReviewInv' /\ KeepsRecords
<1>1. ASSUME NEW d \in Dispatchers, DispatchStep(d) PROVE ReviewInv' /\ KeepsRecords
  <2>1. PICK r \in DispRecord : Turns(d, r)
    BY <1>1, DispatchTurns
  <2>2. disp'[d] = r /\ \A e \in Dispatchers : e = d
    BY <2>1, OnlyItsRecord DEF OneDispatcher
  <2>3. RecordFine(r) /\ RecordedIsSent' /\ KeepsRecords
    BY <1>1, <2>1, DispatcherReviews
  <2>4. ToAnnounce'
    BY <2>2, <2>3 DEF ToAnnounce, RecordFine, At
  <2> QED BY <2>3, <2>4 DEF ReviewInv
<1>2. ASSUME NEW d \in Dispatchers, Restart(d) PROVE ReviewInv' /\ KeepsRecords
  <2>1. disp'[d] = IdleDisp /\ notice' = notice /\ arrived' = arrived
    BY <1>2, RestartIdles DEF noticeVars, userVars
  <2>2. \A e \in Dispatchers : e = d
    BY DEF OneDispatcher
  <2>3. IdleDisp.rows = {} /\ IdleDisp.events = {} /\ IdleDisp.pc = "rest"
    BY DEF IdleDisp
  <2>4. ToAnnounce'
    BY <2>1, <2>2, <2>3 DEF ToAnnounce, At
  <2> QED BY <2>1, <2>4 DEF ReviewInv, RecordedIsSent, KeepsRecords
<1>3. CASE UNCHANGED vars
  BY <1>3 DEF vars, noticeVars, userVars, ReviewInv, RecordedIsSent, ToAnnounce, KeepsRecords, At
<1> QED BY <1>1, <1>2, <1>3, OthersKeepReviews DEF Next

-----------------------------------------------------------------------------
(* One dispatcher: alerts.                                                 *)

\* After an alert that is known to have arrived, it is what was told last.
KnownIsTold == \A d \in Dispatchers : At(d, "alert") /\ disp[d].ok => told = Says(disp[d].alert)

\* A change of the row that counts the user as told of the same.
SaysSame == health.alert \in Announced <=> health'.alert \in Announced

LEMMA SourceSaysSame ==
  ASSUME TypeOK, SourceFails \/ SourceAnswers
  PROVE  SaysSame
<1>0. health.alert \in AlertState
  BY PartsKept DEF HealthTypeOK
<1>1. CASE SourceFails
  <2>1. PICK n : health' = [failures |-> n, alert |-> AfterFailure(health.alert, n)]
    BY <1>1 DEF SourceFails
  <2>2. health'.alert = AfterFailure(health.alert, n)
    BY <2>1
  <2> QED BY <1>0, <2>2 DEF SaysSame, AfterFailure, AlertState, Announced
<1>2. CASE SourceAnswers
  <2>1. CASE health.alert \in Announced
    <3>1. health'.alert = "recovery_pending"
      BY <1>2, <2>1, PartsKept DEF SourceAnswers, HealthTypeOK
    <3> QED BY <2>1, <3>1 DEF SaysSame, Announced
  <2>2. CASE health.alert \notin Announced
    <3>1. health' = [failures |-> 0, alert |-> "none"]
      BY <1>2, <2>2 DEF SourceAnswers
    <3> QED BY <2>2, <3>1 DEF SaysSame, Announced
  <2> QED BY <2>1, <2>2
<1> QED BY <1>1, <1>2

LEMMA KnownKept ==
  ASSUME OneDispatcher, TypeOK, KnownIsTold, [Next]_vars
  PROVE  KnownIsTold'
<1>1. CASE disp' = disp /\ told' = told
  BY <1>1 DEF KnownIsTold, At
<1>2. ASSUME NEW d \in Dispatchers, DispatchStep(d) PROVE KnownIsTold'
  <2>0. disp[d] \in DispRecord /\ \A e \in Dispatchers : e = d
    BY PartsKept DEF DispTypeOK, OneDispatcher
  <2>1. CASE SendAlert(d)
    <3>1. PICK arrives \in BOOLEAN, ok \in BOOLEAN :
            /\ ok => arrives
            /\ Turns(d, [disp[d] EXCEPT !.pc = "alert", !.ok = ok])
            /\ told' = IF arrives THEN Says(disp[d].alert) ELSE told
      BY <2>1 DEF SendAlert
    <3>2. disp'[d] = [disp[d] EXCEPT !.pc = "alert", !.ok = ok]
      BY <3>1, OnlyItsRecord
    <3>3. disp'[d].ok = ok /\ disp'[d].alert = disp[d].alert
      BY <2>0, <3>2 DEF DispRecord
    <3> QED BY <2>0, <3>1, <3>3 DEF KnownIsTold
  <2>2. CASE ~SendAlert(d)
    BY <1>2, <2>0, <2>2, StepRecord DEF KnownIsTold
  <2> QED BY <2>1, <2>2
<1>3. ASSUME NEW d \in Dispatchers, Restart(d) PROVE KnownIsTold'
  <2>1. disp'[d] = IdleDisp /\ \A e \in Dispatchers : e = d
    BY <1>3, RestartIdles DEF OneDispatcher
  <2> QED BY <2>1 DEF KnownIsTold, At, IdleDisp
<1> QED BY <1>1, <1>2, <1>3, OtherSteps DEF Next, vars, userVars

\* Only the mark of an alert moves the row between an outage that counts as told and one
\* that does not, and it does as it was told.
LEMMA RowFollowsMessage ==
  ASSUME TypeOK, HoldsNotice, KnownIsTold, [Next]_vars
  PROVE  /\ health.alert \notin Announced /\ health'.alert \in Announced => told = "down"
         /\ health.alert \in Announced /\ health'.alert \notin Announced => told = "fine"
<1>1. CASE SaysSame
  BY <1>1 DEF SaysSame
<1>2. CASE health' = health
  BY <1>2
<1>3. ASSUME NEW d \in Dispatchers, MarkAlertSent(d), Markable(disp[d].alert)
      PROVE  /\ health.alert \notin Announced /\ health'.alert \in Announced => told = "down"
             /\ health.alert \in Announced /\ health'.alert \notin Announced => told = "fine"
  <2>1. told = Says(disp[d].alert) /\ Pending(disp[d].alert) /\ health.alert = disp[d].alert
    BY <1>3 DEF MarkAlertSent, KnownIsTold, HoldsNotice, Markable
  <2>2. CASE disp[d].alert = "failure_pending"
    BY <2>1, <2>2 DEF Says, Announced
  <2>3. CASE disp[d].alert = "recovery_pending"
    <3>1. health'.alert = "none"
      BY <1>3, <2>3 DEF MarkAlertSent
    <3> QED BY <2>1, <2>3, <3>1 DEF Says, Announced
  <2> QED BY <2>1, <2>2, <2>3 DEF Pending
<1>4. ASSUME NEW d \in Dispatchers, DispatchStep(d)
      PROVE  health' = health \/ (MarkAlertSent(d) /\ Markable(disp[d].alert))
  BY <1>4 DEF DispatchStep, ReadRows, ReadCandidates, ReadDone, SendReview, MarkReviewSent,
              MarkReviewFailed, ReadAlerts, SendAlert, MarkAlertSent, MarkAlertFailed, OnlyDisp
<1>5. ASSUME NEW d \in Dispatchers, Restart(d) PROVE health' = health
  BY <1>5, RestartIdles
<1>6. ASSUME EpisodeStep \/ CheckStep \/ \E x \in Prints \cup {Alert} : RetryComes(x)
      PROVE  health' = health
  BY <1>6 DEF EpisodeStep, CandidatesChange, Block, Monitor, Complete, OnlyEpisode, CheckStep,
              CheckStart, CheckJudge, CheckPrint, CheckEnqueue, OnlyCheck, RetryComes
<1> QED BY <1>1, <1>2, <1>3, <1>4, <1>5, <1>6, SourceSaysSame DEF Next, vars

-----------------------------------------------------------------------------
(* The theorems.                                                           *)

IInv == TypeOK /\ HoldsNotice

LEMMA AlwaysIInv == Spec => []IInv
<1>1. Init => IInv
  BY InitTyped DEF IInv
<1>2. IInv /\ [Next]_vars => IInv'
  BY NextTyped, HoldsKept DEF IInv
<1> QED BY <1>1, <1>2, PTL DEF Spec

\* The rows, the health of the source and the dispatchers are well typed, for any
\* number of dispatchers.
THEOREM NoticesTypeCorrect == Spec => []TypeOK
<1>1. IInv => TypeOK
  BY DEF IInv
<1> QED BY <1>1, AlwaysIInv, PTL

LEMMA OneInit == Init => ReviewInv /\ KnownIsTold
<1> SUFFICES ASSUME Init PROVE ReviewInv /\ KnownIsTold
  OBVIOUS
<1>1. \A d \in Dispatchers : disp[d].pc = "rest" /\ disp[d].rows = {} /\ disp[d].events = {}
  BY DEF Init, IdleDisp
<1>2. ReviewInv
  BY <1>1 DEF Init, ReviewInv, RecordedIsSent, ToAnnounce, At
<1>3. KnownIsTold
  BY <1>1 DEF KnownIsTold, At
<1> QED BY <1>2, <1>3

\* When one process dispatches, a set whose arrival was recorded is not announced again.
THEOREM AlwaysRemindsOnce ==
  ASSUME OneDispatcher
  PROVE  Spec => RemindsOnce
<1>1. IInv /\ ReviewInv /\ [Next]_vars
        => ReviewInv' /\ [\A p \in Prints : arrived[p] = "marked" => arrived'[p] = "marked"]_vars
  BY ReviewKept DEF IInv, KeepsRecords
<1> QED BY <1>1, OneInit, AlwaysIInv, PTL DEF Spec, RemindsOnce

\* When one process dispatches, the row counts an outage as told only when the last message
\* said so, and forgets a told one only when the last message was the recovery, whatever the
\* source does around a send and whatever is lost or stopped.
THEOREM AlwaysForgetsOnlyTold ==
  ASSUME OneDispatcher
  PROVE  Spec => ForgetsOnlyTold
<1>1. IInv /\ KnownIsTold /\ [Next]_vars
      => /\ KnownIsTold'
         /\ [ /\ health.alert \notin Announced /\ health'.alert \in Announced => told = "down"
              /\ health.alert \in Announced /\ health'.alert \notin Announced => told = "fine" ]_vars
  BY KnownKept, RowFollowsMessage DEF IInv
<1> QED BY <1>1, OneInit, AlwaysIInv, PTL DEF Spec, ForgetsOnlyTold

=============================================================================
