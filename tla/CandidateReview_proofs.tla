----------------------- MODULE CandidateReview_proofs -----------------------
(***************************************************************************)
(* The candidate rows of an episode keep their invariants for any number   *)
(* of videos, uploaders and detectors, and for every configuration.  The   *)
(* argument follows the transactions: whatever a detector, a form or a     *)
(* link import has read earlier, it changes the rows only by storing a     *)
(* candidate, confirming one, or rejecting or expiring some.               *)
(***************************************************************************)
EXTENDS CandidateReview, TLAPS

\* What the transactions keep.
RowsOK ==
  /\ ep \in EpisodeState
  /\ cand \in [Videos -> CandidateState]
  /\ OneWinner
  /\ PendingShows

-----------------------------------------------------------------------------
(* The transactions on candidate rows.                                     *)

LEMMA InitRows == Init => RowsOK
  BY DEF Init, RowsOK, OneWinner, PendingShows, Pending, EpisodeState, CandidateState

LEMMA UnchangedRows == RowsOK /\ UNCHANGED <<ep, cand>> => RowsOK'
  BY DEF RowsOK, OneWinner, PendingShows, Pending, Completed

\* Storing a candidate: a winner is never made or unmade by it.
LEMMA UpsertRows ==
  ASSUME RowsOK, NEW v, NEW s \in {"rejected", "weak", "strong"}, Upsert(v, s)
  PROVE  RowsOK'
<1>1. /\ ep' \in EpisodeState
      /\ Completed(ep) => Completed(ep')
      /\ ep' = "watching" => ep = "watching" /\ s = "rejected"
  BY DEF RowsOK, Upsert, EpisodeState, Completed
<1>2. ASSUME NEW w \in Videos
      PROVE  /\ cand'[w] \in CandidateState
             /\ cand'[w] = "confirmed" <=> cand[w] = "confirmed"
             /\ w \in Pending' => w \in Pending \/ s # "rejected"
  BY DEF RowsOK, Upsert, Stored, CandidateState, Pending
<1>3. cand' \in [Videos -> CandidateState]
  BY <1>2 DEF RowsOK, Upsert
<1>4. OneWinner'
  BY <1>1, <1>2 DEF RowsOK, OneWinner, Completed
<1>5. PendingShows'
  BY <1>1, <1>2 DEF RowsOK, PendingShows, Pending
<1> QED BY <1>1, <1>3, <1>4, <1>5 DEF RowsOK

\* A confirmation is refused on a completed episode, and only such an
\* episode has a winner: so there is none yet.
LEMMA ConfirmRows ==
  ASSUME RowsOK, NEW v, NEW R, Confirmable(v, R), Confirm(v)
  PROVE  RowsOK'
<1>1. \A w \in Videos : cand[w] # "confirmed"
  BY DEF Confirmable, Monitorable, RowsOK, OneWinner
<1>2. ASSUME NEW w \in Videos
      PROVE  /\ cand'[w] \in CandidateState
             /\ cand'[w] = "confirmed" => w = v
             /\ w \notin Pending'
  BY <1>1 DEF Confirm, Outcome, RowsOK, Pending, CandidateState
<1>3. cand' \in [Videos -> CandidateState]
  BY <1>2 DEF Confirm
<1>4. Completed(ep') /\ ep' \in EpisodeState
  BY DEF Confirm, Completed, EpisodeState
<1> QED BY <1>2, <1>3, <1>4 DEF RowsOK, OneWinner, PendingShows, Pending, Completed

\* Rejecting pending candidates: the episode goes back to watching only when
\* none is left.
LEMMA RejectedRows ==
  ASSUME RowsOK, NEW V \in SUBSET Pending,
         cand' = Rejected(V), ep' = AfterRejection(V)
  PROVE  RowsOK'
<1>1. ASSUME NEW w \in Videos
      PROVE  /\ cand'[w] \in CandidateState
             /\ cand'[w] = "confirmed" => cand[w] = "confirmed"
             /\ w \in Pending' => w \in Pending \ V
  BY DEF Rejected, RowsOK, Pending, CandidateState
<1>2. cand' \in [Videos -> CandidateState]
  BY <1>1 DEF Rejected
<1>3. /\ ep' \in EpisodeState
      /\ Completed(ep) => Completed(ep')
      /\ Pending \ V # {} => ep' = ep
  BY DEF AfterRejection, RowsOK, EpisodeState
<1>4. OneWinner'
  BY <1>1, <1>3 DEF RowsOK, OneWinner, Completed
<1>5. PendingShows'
  <2> SUFFICES ASSUME Pending' # {} PROVE ep' # "watching"
    BY DEF PendingShows
  <2>1. PICK w \in Videos : w \in Pending'
    BY DEF Pending
  <2>2. w \in Pending \ V
    BY <1>1, <2>1
  <2> QED BY <1>3, <2>2 DEF RowsOK, PendingShows
<1> QED BY <1>2, <1>3, <1>4, <1>5 DEF RowsOK

\* Expiring candidates, all the pending ones unless the episode stays as it
\* is, and the winner only with the completion.
LEMMA ExpiredRows ==
  ASSUME RowsOK, NEW V, cand' = Expired(V), ep' \in EpisodeState,
         ep' = ep \/ Pending \subseteq V,
         \/ Completed(ep')
         \/ ~Completed(ep)
         \/ \A w \in Videos : cand[w] = "confirmed" => w \in V
  PROVE  RowsOK'
<1>1. ASSUME NEW w \in Videos
      PROVE  /\ cand'[w] \in CandidateState
             /\ cand'[w] = "confirmed" => cand[w] = "confirmed" /\ w \notin V
             /\ w \in Pending' => w \in Pending \ V
  BY DEF Expired, RowsOK, Pending, CandidateState
<1>2. cand' \in [Videos -> CandidateState]
  BY <1>1 DEF Expired
<1>3. OneWinner'
  <2>1. \A w \in Videos : cand'[w] = "confirmed" => Completed(ep')
    BY <1>1 DEF RowsOK, OneWinner
  <2> QED BY <1>1, <2>1 DEF RowsOK, OneWinner, Completed
<1>4. PendingShows'
  <2> SUFFICES ASSUME Pending' # {} PROVE ep' # "watching"
    BY DEF PendingShows
  <2>1. PICK w \in Videos : w \in Pending'
    BY DEF Pending
  <2>2. w \in Pending \ V
    BY <1>1, <2>1
  <2> QED BY <2>2 DEF RowsOK, PendingShows
<1> QED BY <1>2, <1>3, <1>4 DEF RowsOK

-----------------------------------------------------------------------------
(* The steps of the administrator, of the detectors and of the rest.       *)

LEMMA UserStepRows == RowsOK /\ UserStep => RowsOK'
<1> SUFFICES ASSUME RowsOK, UserStep PROVE RowsOK'
  OBVIOUS
<1>1. ASSUME NEW v \in Videos, Accept(v) PROVE RowsOK'
  BY <1>1, ConfirmRows DEF Accept
<1>2. ASSUME NEW v \in Videos, Reject(v) PROVE RowsOK'
  <2>1. {v} \in SUBSET Pending
    BY <1>2 DEF Reject
  <2> QED BY <1>2, <2>1, RejectedRows DEF Reject
<1>3. RejectPending => RowsOK'
  BY RejectedRows DEF RejectPending
<1>4. CASE RejectAll
  BY <1>3, <1>4 DEF RejectAll
<1>5. CASE ShowForm
  BY <1>5, UnchangedRows DEF ShowForm, reviewVars
<1>6. CASE SubmitForm
  BY <1>3, <1>6, UnchangedRows DEF SubmitForm, reviewVars
<1>7. ASSUME NEW u \in Uploaders, Block(u) PROVE RowsOK'
  <2> DEFINE V == { v \in Pending : UploaderOf[v] = u }
  <2>1. cand' = Rejected(V) /\ ep' = AfterRejection(V)
    BY <1>7 DEF Block
  <2>2. V \in SUBSET Pending
    OBVIOUS
  <2> HIDE DEF V
  <2> QED BY <2>1, <2>2, RejectedRows
<1>8. CASE ChangeLists
  BY <1>8, UnchangedRows DEF ChangeLists, reviewVars
<1>9. ASSUME NEW v \in Links, NEW a \in BOOLEAN, ImportStart(v, a) PROVE RowsOK'
  BY <1>9, UnchangedRows DEF ImportStart, reviewVars
<1>10. ASSUME NEW s \in {"weak", "strong"}, ImportStore(s) PROVE RowsOK'
  BY <1>10, UpsertRows DEF ImportStore
<1>11. CASE ImportConfirm
  BY <1>11, ConfirmRows DEF ImportConfirm
<1>12. CASE ImportRead \/ ImportAbort
  BY <1>12, UnchangedRows DEF ImportRead, ImportAbort, reviewVars
<1> QED BY <1>1, <1>2, <1>4, <1>5, <1>6, <1>7, <1>8, <1>9, <1>10, <1>11, <1>12 DEF UserStep

LEMMA OtherStepRows == RowsOK /\ OtherStep => RowsOK'
<1> SUFFICES ASSUME RowsOK, OtherStep PROVE RowsOK'
  OBVIOUS
<1>1. CASE Rescope
  BY <1>1, UnchangedRows DEF Rescope
<1>2. CASE ReleaseElsewhere \/ Notified
  BY <1>2, ExpiredRows DEF ReleaseElsewhere, Notified, EpisodeState, Completed
<1>3. CASE Repair
  <2>1. /\ Pending \subseteq RepairExpires
        /\ \A w \in Videos : cand[w] = "confirmed" => w \in RepairExpires
    BY DEF RepairExpires
  <2> QED BY <1>3, <2>1, ExpiredRows DEF Repair, EpisodeState
<1>4. ASSUME NEW V \in SUBSET Pending, ExpireElsewhere(V) PROVE RowsOK'
  <2>1. \/ ~Completed(ep)
        \/ Completed(ep')
    BY <1>4 DEF ExpireElsewhere
  <2> QED BY <1>4, <2>1, ExpiredRows DEF ExpireElsewhere, RowsOK
<1> QED BY <1>1, <1>2, <1>3, <1>4 DEF OtherStep

LEMMA DetectorStepRows ==
  ASSUME RowsOK, NEW d \in Detectors, DetectorStep(d)
  PROVE  RowsOK'
<1>1. ASSUME NEW V \in SUBSET Videos, ScanStart(d, V) PROVE RowsOK'
  BY <1>1, UnchangedRows DEF ScanStart, reviewVars
<1>2. ASSUME NEW V \in SUBSET Videos, ScanExpire(d, V) PROVE RowsOK'
  <2>1. \/ ~Completed(ep)
        \/ Completed(ep')
    BY <1>2 DEF ScanExpire
  <2> QED BY <1>2, <2>1, ExpiredRows DEF ScanExpire, RowsOK
<1>3. ASSUME NEW v \in Videos, ScanRead(d, v) \/ JudgeTrust(d, v) \/ JudgeConsensus(d, v)
      PROVE  RowsOK'
  BY <1>3, UnchangedRows DEF ScanRead, JudgeTrust, JudgeConsensus, reviewVars
<1>4. ASSUME NEW s \in {"rejected", "weak", "strong"}, NEW r \in BOOLEAN, ScanStore(d, s, r)
      PROVE  RowsOK'
  BY <1>4, UpsertRows DEF ScanStore
<1>5. CASE ScanFlag(d)
  <2>1. cand' = cand /\ ep' \in {ep, "needs_manual_review"}
    BY <1>5 DEF ScanFlag
  <2>2. Completed(ep) => ep' = ep
    BY <1>5 DEF ScanFlag
  <2> QED BY <2>1, <2>2 DEF RowsOK, OneWinner, PendingShows, Pending, Completed, EpisodeState
<1>6. CASE AutoConfirm(d)
  BY <1>6, ConfirmRows DEF AutoConfirm
<1>7. CASE Judge(d) \/ JudgeNone(d) \/ ScanAbort(d)
  BY <1>7, UnchangedRows DEF Judge, JudgeNone, ScanAbort, reviewVars
<1> QED BY <1>1, <1>2, <1>3, <1>4, <1>5, <1>6, <1>7 DEF DetectorStep

LEMMA NextRows == RowsOK /\ [Next]_vars => RowsOK'
<1> SUFFICES ASSUME RowsOK, [Next]_vars PROVE RowsOK'
  OBVIOUS
<1>1. CASE UserStep
  BY <1>1, UserStepRows
<1>2. CASE OtherStep
  BY <1>2, OtherStepRows
<1>3. ASSUME NEW d \in Detectors, DetectorStep(d) PROVE RowsOK'
  BY <1>3, DetectorStepRows
<1>4. CASE UNCHANGED vars
  BY <1>4, UnchangedRows DEF vars, reviewVars
<1> QED BY <1>1, <1>2, <1>3, <1>4 DEF Next

-----------------------------------------------------------------------------
(* The theorems.                                                           *)

LEMMA RowsAlwaysOK == Spec => []RowsOK
<1>1. Init => RowsOK
  BY InitRows
<1>2. RowsOK /\ [Next]_vars => RowsOK'
  BY NextRows
<1> QED BY <1>1, <1>2, PTL DEF Spec

\* At most one candidate of an episode is ever confirmed, and only while the
\* episode is completed, for any number of detectors.
THEOREM AlwaysOneWinner == Spec => []OneWinner
<1>1. RowsOK => OneWinner
  BY DEF RowsOK
<1> QED BY <1>1, RowsAlwaysOK, PTL

\* An episode with candidates to review never hides them behind watching.
THEOREM PendingAlwaysShows == Spec => []PendingShows
<1>1. RowsOK => PendingShows
  BY DEF RowsOK
<1> QED BY <1>1, RowsAlwaysOK, PTL

-----------------------------------------------------------------------------
(* A rejection is final.                                                   *)

\* The step keeps every rejection but that of a link being confirmed.
KeepsRejections ==
  \A v \in Videos : cand[v] = "rejected" /\ cand'[v] # "rejected"
    => importer.pc = "confirm" /\ importer.video = v /\ cand'[v] = "confirmed"

LEMMA UnchangedKeeps == UNCHANGED cand => KeepsRejections
  BY DEF KeepsRejections

LEMMA UpsertKeeps ==
  ASSUME RowsOK, NEW v, NEW s, Upsert(v, s)
  PROVE  KeepsRejections
  BY DEF RowsOK, Upsert, Stored, KeepsRejections

LEMMA RejectedKeeps ==
  ASSUME NEW V, cand' = Rejected(V) \/ (cand' = Expired(V) /\ \A w \in V : cand[w] # "rejected")
  PROVE  KeepsRejections
  BY DEF Rejected, Expired, KeepsRejections

\* Without reopened states, confirming finds the candidate pending.
LEMMA ConfirmKeeps ==
  ASSUME NEW v, Confirmable(v, {}), Confirm(v)
  PROVE  KeepsRejections
  BY DEF Confirmable, Confirm, Outcome, Pending, KeepsRejections

LEMMA LinkKeeps == ImportConfirm => KeepsRejections
  BY DEF ImportConfirm, Confirm, Outcome, Pending, KeepsRejections

LEMMA UserStepKeeps == RowsOK /\ UserStep => KeepsRejections
<1> SUFFICES ASSUME RowsOK, UserStep PROVE KeepsRejections
  OBVIOUS
<1>1. ASSUME NEW v \in Videos, Accept(v) PROVE KeepsRejections
  BY <1>1, ConfirmKeeps DEF Accept
<1>2. ASSUME NEW v \in Videos, Reject(v) PROVE KeepsRejections
  BY <1>2, RejectedKeeps DEF Reject
<1>3. RejectPending => KeepsRejections
  BY RejectedKeeps DEF RejectPending
<1>4. CASE RejectAll
  BY <1>3, <1>4 DEF RejectAll
<1>5. CASE SubmitForm
  BY <1>3, <1>5, UnchangedKeeps DEF SubmitForm, reviewVars
<1>6. ASSUME NEW u \in Uploaders, Block(u) PROVE KeepsRejections
  BY <1>6, RejectedKeeps DEF Block
<1>7. ASSUME NEW s \in {"weak", "strong"}, ImportStore(s) PROVE KeepsRejections
  BY <1>7, UpsertKeeps DEF ImportStore
<1>8. ASSUME NEW v \in Links, NEW a \in BOOLEAN, ImportStart(v, a) PROVE KeepsRejections
  BY <1>8, UnchangedKeeps DEF ImportStart, reviewVars
<1>9. CASE ShowForm \/ ChangeLists \/ ImportRead \/ ImportAbort
  BY <1>9, UnchangedKeeps DEF ShowForm, ChangeLists, ImportRead, ImportAbort, reviewVars
<1> QED BY <1>1, <1>2, <1>4, <1>5, <1>6, <1>7, <1>8, <1>9, LinkKeeps DEF UserStep

LEMMA OtherStepKeeps == OtherStep => KeepsRejections
<1> SUFFICES ASSUME OtherStep PROVE KeepsRejections
  OBVIOUS
<1>1. CASE Rescope
  BY <1>1, UnchangedKeeps DEF Rescope
<1>2. CASE ReleaseElsewhere \/ Notified
  BY <1>2, RejectedKeeps DEF ReleaseElsewhere, Notified, Pending
<1>3. CASE Repair
  BY <1>3, RejectedKeeps DEF Repair, RepairExpires, Pending
<1>4. ASSUME NEW V \in SUBSET Pending, ExpireElsewhere(V) PROVE KeepsRejections
  BY <1>4, RejectedKeeps DEF ExpireElsewhere, Pending
<1> QED BY <1>1, <1>2, <1>3, <1>4 DEF OtherStep

LEMMA DetectorStepKeeps ==
  ASSUME RowsOK, NEW d \in Detectors, DetectorStep(d)
  PROVE  KeepsRejections
<1>1. ASSUME NEW V \in SUBSET Videos, ScanStart(d, V) PROVE KeepsRejections
  BY <1>1, UnchangedKeeps DEF ScanStart, reviewVars
<1>2. ASSUME NEW V \in SUBSET Videos, ScanExpire(d, V) PROVE KeepsRejections
  BY <1>2, RejectedKeeps DEF ScanExpire, Pending
<1>3. ASSUME NEW v \in Videos, ScanRead(d, v) \/ JudgeTrust(d, v) \/ JudgeConsensus(d, v)
      PROVE  KeepsRejections
  BY <1>3, UnchangedKeeps DEF ScanRead, JudgeTrust, JudgeConsensus, reviewVars
<1>4. ASSUME NEW s \in {"rejected", "weak", "strong"}, NEW r \in BOOLEAN, ScanStore(d, s, r)
      PROVE  KeepsRejections
  BY <1>4, UpsertKeeps DEF ScanStore
<1>5. CASE AutoConfirm(d)
  BY <1>5, ConfirmKeeps DEF AutoConfirm
<1>6. CASE ScanFlag(d) \/ Judge(d) \/ JudgeNone(d) \/ ScanAbort(d)
  BY <1>6, UnchangedKeeps DEF ScanFlag, Judge, JudgeNone, ScanAbort, reviewVars
<1> QED BY <1>1, <1>2, <1>3, <1>4, <1>5, <1>6 DEF DetectorStep

\* No scan, form or judgement that comes late, and no repair, takes back a
\* rejection: only the link of that video does.
THEOREM RejectionAlwaysFinal == Spec => RejectionIsFinal
<1>1. RowsOK /\ [Next]_vars => [KeepsRejections]_vars
  BY UserStepKeeps, OtherStepKeeps, DetectorStepKeeps DEF Next
<1> QED BY <1>1, RowsAlwaysOK, PTL DEF Spec, RejectionIsFinal, KeepsRejections

-----------------------------------------------------------------------------
(* A form rejects what it shows.                                           *)

\* The step rejects what the form showed, or nothing, if it takes the form.
FitsForm ==
  form # {} /\ form' = {}
    => { v \in Videos : cand'[v] = "rejected" /\ cand[v] # "rejected" } \in {{}, form}

LEMMA UnchangedForm == UNCHANGED form => FitsForm
  BY DEF FitsForm

LEMMA NextFits == Next => FitsForm
<1> SUFFICES ASSUME Next PROVE FitsForm
  OBVIOUS
<1>1. CASE ShowForm
  BY <1>1 DEF ShowForm, FitsForm
<1>2. CASE SubmitForm
  <2> DEFINE R == { v \in Videos : cand'[v] = "rejected" /\ cand[v] # "rejected" }
  <2>1. CASE FormFits
    <3>1. cand' = [v \in Videos |-> IF v \in form THEN "rejected" ELSE cand[v]]
      BY <1>2, <2>1 DEF SubmitForm, RejectPending, Rejected, FormFits
    <3>2. \A v : v \in form <=> v \in Videos /\ cand[v] \in {"weak", "strong"}
      BY <2>1 DEF FormFits, Pending
    <3>3. R = form
      BY <3>1, <3>2
    <3> QED BY <3>3 DEF FitsForm
  <2>2. CASE ~FormFits
    <3>1. cand' = cand
      BY <1>2, <2>2 DEF SubmitForm, reviewVars
    <3> QED BY <3>1 DEF FitsForm
  <2> QED BY <2>1, <2>2
<1>3. ASSUME UserStep, ~ShowForm, ~SubmitForm PROVE form' = form
  BY <1>3 DEF UserStep, Accept, Reject, RejectAll, Block, ChangeLists, ImportStart,
              ImportRead, ImportStore, ImportConfirm, ImportAbort
<1>4. CASE OtherStep
  BY <1>4, UnchangedForm DEF OtherStep, Rescope, ReleaseElsewhere, Notified,
                               Repair, ExpireElsewhere
<1>5. ASSUME NEW d \in Detectors, DetectorStep(d) PROVE form' = form
  BY <1>5 DEF DetectorStep, ScanStart, ScanRead, ScanStore, ScanFlag, ScanExpire, Judge,
              JudgeTrust, JudgeConsensus, JudgeNone, AutoConfirm, ScanAbort
<1> QED BY <1>1, <1>2, <1>3, <1>4, <1>5, UnchangedForm DEF Next

\* A submitted form never rejects a candidate the administrator has not seen.
THEOREM FormAlwaysFits == Spec => FormRejectsShown
<1>1. [Next]_vars => [FitsForm]_vars
  BY NextFits
<1> QED BY <1>1, PTL DEF Spec, FormRejectsShown, FitsForm

-----------------------------------------------------------------------------
(* Type correctness of the rest: trust lists, detectors, import and form.  *)

LEMMA ListStepType ==
  ASSUME TrustTypeOK, ListStep, UNCHANGED <<accepted, spoiled>>
  PROVE  TrustTypeOK'
<1>0. changes < MaxChanges /\ changes' = changes + 1 => changes' \in 0 .. MaxChanges
  BY TrustAssumption DEF TrustTypeOK
<1>1. ASSUME NEW u \in Uploaders, NEW f \in Flag, SetFlagRead(u, f) PROVE TrustTypeOK'
  <2>1. FlagWritten(u, f) \in Flag
    BY DEF FlagWritten, Flag
  <2> QED BY <1>0, <1>1, <2>1 DEF TrustTypeOK, SetFlagRead, Changing
<1>2. ASSUME NEW u \in Uploaders, AddTrustedRead(u) PROVE TrustTypeOK'
  BY <1>0, <1>2 DEF TrustTypeOK, AddTrustedRead, Changing, Flag
<1>3. ASSUME NEW u \in Uploaders, RemoveTrusted(u) PROVE TrustTypeOK'
  BY <1>0, <1>3 DEF TrustTypeOK, RemoveTrusted, Changing, Flag
<1>4. ASSUME NEW u \in Uploaders, AddGlobal(u) PROVE TrustTypeOK'
  <2>1. flag' \in [Uploaders -> Flag]
    BY <1>4 DEF TrustTypeOK, AddGlobal, Untrusted, Flag
  <2> QED BY <1>0, <1>4, <2>1 DEF TrustTypeOK, AddGlobal, Changing
<1>5. ASSUME NEW u \in Uploaders, RemoveGlobal(u) PROVE TrustTypeOK'
  BY <1>0, <1>5 DEF TrustTypeOK, RemoveGlobal, Changing
<1>6. CASE FlagWrite
  <2>1. marker \in Uploaders \X Flag
    BY <1>6 DEF FlagWrite, TrustTypeOK
  <2> QED BY <1>6, <2>1 DEF TrustTypeOK, FlagWrite
<1> QED BY <1>1, <1>2, <1>3, <1>4, <1>5, <1>6 DEF ListStep

LEMMA CountConfirmedType ==
  ASSUME TrustTypeOK, NEW u, CountConfirmed(u), UNCHANGED listVars
  PROVE  TrustTypeOK'
<1> DEFINE n == IF accepted[u] < TrustedAfter THEN accepted[u] + 1 ELSE accepted[u]
<1>0. accepted' = [accepted EXCEPT ![u] = n]
  BY DEF CountConfirmed
<1>1. accepted' \in [Uploaders -> 0 .. TrustedAfter]
  <2>1. u \in Uploaders => n \in 0 .. TrustedAfter
    BY TrustAssumption DEF TrustTypeOK
  <2> HIDE DEF n
  <2> QED BY <1>0, <2>1 DEF TrustTypeOK
<1> QED BY <1>1 DEF TrustTypeOK, CountConfirmed, listVars

LEMMA CountRejectedType ==
  ASSUME TrustTypeOK, NEW U \in SUBSET Uploaders, CountRejected(U), UNCHANGED listVars
  PROVE  TrustTypeOK'
  BY DEF TrustTypeOK, CountRejected, listVars

LEMMA UnchangedTrustType == TrustTypeOK /\ UNCHANGED trustVars => TrustTypeOK'
  BY DEF TrustTypeOK, trustVars, listVars

LEMMA TrustStepType == TypeOK /\ [Next]_vars => TrustTypeOK'
<1> SUFFICES ASSUME TypeOK, [Next]_vars PROVE TrustTypeOK'
  OBVIOUS
<1> USE DEF TypeOK
<1>1. ASSUME NEW v \in Videos, Accept(v) PROVE TrustTypeOK'
  BY <1>1, CountConfirmedType DEF Accept
<1>2. ASSUME NEW v \in Videos, Reject(v) PROVE TrustTypeOK'
  BY <1>2, ReviewAssumption, CountRejectedType DEF Reject
<1>3. RejectPending /\ UNCHANGED listVars => TrustTypeOK'
  <2>1. { UploaderOf[v] : v \in Pending } \in SUBSET Uploaders
    BY ReviewAssumption DEF Pending
  <2> QED BY <2>1, CountRejectedType DEF RejectPending
<1>4. CASE RejectAll
  BY <1>3, <1>4 DEF RejectAll
<1>5. CASE SubmitForm
  BY <1>3, <1>5, UnchangedTrustType DEF SubmitForm, trustVars
<1>6. ASSUME NEW u \in Uploaders, Block(u) PROVE TrustTypeOK'
  BY <1>6 DEF Block, BlockFlag, TrustTypeOK, Flag
<1>7. CASE ChangeLists
  BY <1>7, ListStepType DEF ChangeLists
<1>8. CASE ImportConfirm
  BY <1>8, CountConfirmedType DEF ImportConfirm
<1>9. UNCHANGED trustVars => TrustTypeOK'
  BY UnchangedTrustType
<1>10. ASSUME NEW d \in Detectors, DetectorStep(d) PROVE UNCHANGED trustVars
  BY <1>10 DEF DetectorStep, ScanStart, ScanRead, ScanStore, ScanFlag, ScanExpire, Judge,
               JudgeTrust, JudgeConsensus, JudgeNone, AutoConfirm, ScanAbort
<1>11. OtherStep => UNCHANGED trustVars
  BY DEF OtherStep, Rescope, ReleaseElsewhere, Notified,
                               Repair, ExpireElsewhere
<1>12. CASE UserStep
  <2>1. CASE ShowForm \/ ImportRead \/ ImportAbort
    BY <1>9, <2>1 DEF ShowForm, ImportRead, ImportAbort
  <2>2. ASSUME NEW v, NEW a, ImportStart(v, a) PROVE TrustTypeOK'
    BY <1>9, <2>2 DEF ImportStart
  <2>3. ASSUME NEW s, ImportStore(s) PROVE TrustTypeOK'
    BY <1>9, <2>3 DEF ImportStore
  <2> QED BY <1>1, <1>2, <1>4, <1>5, <1>6, <1>7, <1>8, <1>12, <2>1, <2>2, <2>3 DEF UserStep
<1>13. UNCHANGED vars => UNCHANGED trustVars
  BY DEF vars
<1> QED BY <1>9, <1>10, <1>11, <1>12, <1>13 DEF Next

LEMMA DetectorType ==
  ASSUME TypeOK, NEW d \in Detectors, DetectorStep(d)
  PROVE  det' \in [Detectors -> DetectorRecord]
<1>0. /\ det \in [Detectors -> DetectorRecord]
      /\ IdleDetector \in DetectorRecord
  BY DEF TypeOK, IdleDetector, DetectorRecord
<1>1. ASSUME NEW V \in SUBSET Videos, ScanStart(d, V)
      PROVE  det' \in [Detectors -> DetectorRecord]
  BY <1>0, <1>1 DEF ScanStart, IdleDetector, DetectorRecord
<1>2. ASSUME NEW V \in SUBSET Videos, ScanExpire(d, V)
      PROVE  det' \in [Detectors -> DetectorRecord]
  BY <1>0, <1>2 DEF ScanExpire, DetectorRecord
<1>3. ASSUME NEW v \in Videos, ScanRead(d, v)
      PROVE  det' \in [Detectors -> DetectorRecord]
  <2>1. Blocked(UploaderOf[v]) \in BOOLEAN
    BY DEF Blocked
  <2> QED BY <1>0, <1>3, <2>1 DEF ScanRead, DetectorRecord
<1>4. ASSUME NEW v \in Videos, JudgeTrust(d, v)
      PROVE  det' \in [Detectors -> DetectorRecord]
  BY <1>0, <1>4 DEF JudgeTrust, DetectorRecord
<1>5. ASSUME NEW v \in Videos, JudgeConsensus(d, v)
      PROVE  det' \in [Detectors -> DetectorRecord]
  BY <1>0, <1>5 DEF JudgeConsensus, DetectorRecord
<1>6. ASSUME NEW s \in {"rejected", "weak", "strong"}, NEW r \in BOOLEAN, ScanStore(d, s, r)
      PROVE  det' \in [Detectors -> DetectorRecord]
  BY <1>0, <1>6 DEF ScanStore, DetectorRecord
<1>7. CASE ScanFlag(d)
  BY <1>0, <1>7 DEF ScanFlag, DetectorRecord
<1>8. CASE Judge(d)
  BY <1>0, <1>8 DEF Judge, DetectorRecord
<1>9. CASE JudgeNone(d) \/ AutoConfirm(d) \/ ScanAbort(d)
  BY <1>0, <1>9 DEF JudgeNone, AutoConfirm, ScanAbort
<1> QED BY <1>1, <1>2, <1>3, <1>4, <1>5, <1>6, <1>7, <1>8, <1>9 DEF DetectorStep

LEMMA ImporterType ==
  ASSUME TypeOK, UserStep
  PROVE  importer' \in ImporterRecord
<1>0. importer \in ImporterRecord /\ IdleImporter \in ImporterRecord
  BY DEF TypeOK, IdleImporter, ImporterRecord
<1>1. ASSUME NEW v \in Links, NEW a \in BOOLEAN, ImportStart(v, a)
      PROVE  importer' \in ImporterRecord
  BY <1>1, ReviewAssumption DEF ImportStart, IdleImporter, ImporterRecord
<1>2. CASE ImportRead
  <2>1. Blocked(UploaderOf[importer.video]) \in BOOLEAN
    BY DEF Blocked
  <2> QED BY <1>0, <1>2, <2>1 DEF ImportRead, ImporterRecord
<1>3. ASSUME NEW s, ImportStore(s) PROVE importer' \in ImporterRecord
  BY <1>0, <1>3 DEF ImportStore, ImporterRecord
<1>4. CASE ImportConfirm \/ ImportAbort
  BY <1>0, <1>4 DEF ImportConfirm, ImportAbort
<1>5. ASSUME ~ImportRead, ~ImportConfirm, ~ImportAbort,
             ~\E v \in Links, a \in BOOLEAN : ImportStart(v, a),
             ~\E s \in {"weak", "strong"} : ImportStore(s)
      PROVE  importer' = importer
  BY <1>5 DEF UserStep, Accept, Reject, RejectAll, ShowForm, SubmitForm, Block, ChangeLists
<1> QED BY <1>0, <1>1, <1>2, <1>3, <1>4, <1>5

LEMMA NextType == TypeOK /\ RowsOK /\ [Next]_vars => TypeOK'
<1> SUFFICES ASSUME TypeOK, RowsOK, [Next]_vars PROVE TypeOK'
  OBVIOUS
<1>1. TrustTypeOK'
  BY TrustStepType
<1>2. ep' \in EpisodeState /\ cand' \in [Videos -> CandidateState]
  BY NextRows DEF RowsOK
<1>3. CASE UserStep
  <2>1. form' \in SUBSET Videos /\ inScope' = inScope /\ det' = det
    BY <1>3 DEF TypeOK, UserStep, Accept, Reject, RejectAll, ShowForm, SubmitForm, Block,
                ChangeLists, ImportStart, ImportRead, ImportStore, ImportConfirm,
                ImportAbort, reviewVars, Pending
  <2> QED BY <1>1, <1>2, <1>3, <2>1, ImporterType DEF TypeOK
<1>4. CASE OtherStep
  BY <1>1, <1>2, <1>4 DEF TypeOK, OtherStep, Rescope, ReleaseElsewhere, Notified,
                               Repair, ExpireElsewhere
<1>5. ASSUME NEW d \in Detectors, DetectorStep(d) PROVE TypeOK'
  <2>1. UNCHANGED <<inScope, importer, form>>
    BY <1>5 DEF DetectorStep, ScanStart, ScanRead, ScanStore, ScanFlag, ScanExpire, Judge,
                JudgeTrust, JudgeConsensus, JudgeNone, AutoConfirm, ScanAbort, reviewVars
  <2> QED BY <1>1, <1>2, <1>5, <2>1, DetectorType DEF TypeOK
<1>6. CASE UNCHANGED vars
  BY <1>1, <1>2, <1>6 DEF TypeOK, vars, reviewVars
<1> QED BY <1>3, <1>4, <1>5, <1>6 DEF Next

\* Every variable keeps its type; in particular a flag never holds trust and
\* block at once.
THEOREM ReviewTypeCorrect == Spec => []TypeOK
<1>1. Init => TypeOK
  BY TrustAssumption DEF Init, TrustInit, TypeOK, TrustTypeOK, Flag, NoMark, EpisodeState,
     CandidateState, IdleDetector, DetectorRecord, IdleImporter, ImporterRecord
<1>2. TypeOK /\ RowsOK /\ [Next]_vars => TypeOK'
  BY NextType
<1> QED BY <1>1, <1>2, RowsAlwaysOK, PTL DEF Spec

=============================================================================
