-------------------------- MODULE CandidateReview --------------------------
(***************************************************************************)
(* The candidates of one episode, from the scan that finds them to the one *)
(* that is confirmed.  A detector scans, stores what it finds and judges   *)
(* what is pending, one read or transaction at a time; the administrator   *)
(* accepts, rejects and blocks meanwhile, imports links whose details are  *)
(* fetched from the network, and submits forms that show an earlier state. *)
(*                                                                         *)
(* A video's pending candidate is "strong" when its stored evaluation      *)
(* allows an automatic confirmation, and "weak" otherwise; the scores and  *)
(* the matching behind that are inputs here.                               *)
(***************************************************************************)
EXTENDS TrustLists

CONSTANTS Videos, UploaderOf,
          Links,          \* the videos whose link the administrator may paste
          Detectors,      \* the processes that run check_anime
          Votes           \* consensus_uploaders of the configuration

ASSUME ReviewAssumption ==
  /\ UploaderOf \in [Videos -> Uploaders]
  /\ Links \subseteq Videos
  /\ Votes \in Nat \ {0}

CandidateState == {"none", "weak", "strong", "rejected", "confirmed", "expired"}
EpisodeState   == {"watching", "candidate_found", "needs_manual_review",
                   "confirmed", "notified"}
NoVideo == <<>>

VARIABLES
  ep,       \* episode.state ("waiting" and "watching" are one)
  inScope,  \* the episode is monitored as long as it is not completed
  cand,     \* state of each video's candidate row
  det,      \* what each detector is doing
  importer, \* the link import under way
  form      \* the candidates an open reject-all form shows, {} without form

reviewVars == <<ep, inScope, cand>>
vars       == <<trustVars, reviewVars, det, importer, form>>

Pending      == { v \in Videos : cand[v] \in {"weak", "strong"} }
Completed(s) == s \in {"confirmed", "notified"}
Monitorable  == inScope /\ ~Completed(ep)

IdleDetector ==
  [pc |-> "idle", todo |-> {}, video |-> NoVideo, blocked |-> FALSE, snap |-> {}]

DetectorRecord ==
  [pc : {"idle", "scan", "store", "flag", "judge", "trust", "confirm"},
   todo : SUBSET Videos, video : Videos \cup {NoVideo}, blocked : BOOLEAN,
   snap : SUBSET Videos]

IdleImporter ==
  [pc |-> "idle", video |-> NoVideo, accept |-> FALSE, blocked |-> FALSE]

ImporterRecord ==
  [pc : {"idle", "fetch", "store", "confirm"}, video : Videos \cup {NoVideo},
   accept : BOOLEAN, blocked : BOOLEAN]

TypeOK ==
  /\ TrustTypeOK
  /\ ep \in EpisodeState
  /\ inScope \in BOOLEAN
  /\ cand \in [Videos -> CandidateState]
  /\ det \in [Detectors -> DetectorRecord]
  /\ importer \in ImporterRecord
  /\ form \in SUBSET Videos

Init ==
  /\ TrustInit
  /\ ep = "watching" /\ inScope = TRUE
  /\ cand = [v \in Videos |-> "none"]
  /\ det = [d \in Detectors |-> IdleDetector]
  /\ importer = IdleImporter
  /\ form = {}

-----------------------------------------------------------------------------
(* The transactions on candidate rows.                                     *)

\* Mutant: a scan overwrites every earlier decision.
StoredAlways(v, s) == s

\* The state upsert_candidate leaves when it is called with s.
Stored(v, s) == IF cand[v] \in {"confirmed", "rejected"} THEN cand[v] ELSE s

\* upsert_candidate: s is "weak" or "strong" for a pending candidate.
Upsert(v, s) ==
  /\ cand' = [cand EXCEPT ![v] = Stored(v, s)]
  /\ ep' = IF s # "rejected" /\ ep = "watching" THEN "candidate_found" ELSE ep

\* What confirming v makes of candidate w.
Outcome(v, w) ==
  IF w = v THEN "confirmed" ELSE IF w \in Pending THEN "expired" ELSE cand[w]

\* Mutant: the episode may have been confirmed meanwhile.
ConfirmableTwice(v, reopened) == cand[v] \in {"weak", "strong"} \cup reopened

\* The checks of confirm_candidate_with_intent.  An explicit link may reopen
\* the states in reopened.
Confirmable(v, reopened) ==
  /\ cand[v] \in {"weak", "strong"} \cup reopened
  /\ Monitorable

Confirm(v) ==
  /\ cand' = [w \in Videos |-> Outcome(v, w)]
  /\ ep' = "confirmed"

Expired(V) == [v \in Videos |-> IF v \in V THEN "expired" ELSE cand[v]]
Rejected(V) == [v \in Videos |-> IF v \in V THEN "rejected" ELSE cand[v]]

\* Mutant: the episode goes back to watching with candidates left.
AfterRejectionAlways(V) == IF Completed(ep) THEN ep ELSE "watching"

\* The episode after the candidates V are rejected.
AfterRejection(V) ==
  IF Completed(ep) \/ Pending \ V # {} THEN ep ELSE "watching"

-----------------------------------------------------------------------------
(* The administrator.                                                      *)

\* accept_candidate_for_episode
Accept(v) ==
  /\ Confirmable(v, {})
  /\ Confirm(v)
  /\ CountConfirmed(UploaderOf[v])
  /\ UNCHANGED <<listVars, inScope, det, importer, form>>

\* reject_candidate_for_episode
Reject(v) ==
  /\ v \in Pending /\ Monitorable
  /\ cand' = Rejected({v})
  /\ ep' = AfterRejection({v})
  /\ CountRejected({UploaderOf[v]})
  /\ UNCHANGED <<listVars, inScope, det, importer, form>>

RejectPending ==
  /\ cand' = Rejected(Pending)
  /\ ep' = AfterRejection(Pending)
  /\ CountRejected({ UploaderOf[v] : v \in Pending })

\* reject_all_candidates (command line): whatever is pending.
RejectAll ==
  /\ Monitorable
  /\ RejectPending
  /\ UNCHANGED <<listVars, inScope, det, importer, form>>

\* reject_all_intent: the form is bound to the candidates it shows.
ShowForm ==
  /\ form = {} /\ Pending # {}
  /\ form' = Pending
  /\ UNCHANGED <<trustVars, reviewVars, det, importer>>

\* Mutant: the set shown is not compared.
FormFitsAny == Monitorable /\ Pending # {}

\* The checks of reject_all_candidates_checked.
FormFits == Monitorable /\ Pending = form

\* reject_all: the form's nonce is consumed whatever becomes of it.
SubmitForm ==
  /\ form # {}
  /\ form' = {}
  /\ IF FormFits
       THEN RejectPending /\ UNCHANGED inScope
       ELSE UNCHANGED <<accepted, spoiled, reviewVars>>
  /\ UNCHANGED <<listVars, det, importer>>

\* block_uploader (web): with the flag, every pending candidate goes.
Block(u) ==
  LET V == { v \in Pending : UploaderOf[v] = u } IN
  /\ BlockFlag(u)
  /\ cand' = Rejected(V)
  /\ ep' = AfterRejection(V)
  /\ UNCHANGED <<accepted, spoiled, inScope, det, importer, form>>

\* The other changes of the trust lists touch no candidate.
ChangeLists ==
  /\ ListStep
  /\ UNCHANGED <<accepted, spoiled, reviewVars, det, importer, form>>

\* A link import: import_bilibili_url_for_episode, and with accept the two
\* operations that confirm the imported candidate as well.
ImportStart(v, a) ==
  /\ importer.pc = "idle"
  /\ IF a THEN Monitorable ELSE ~Completed(ep)
  /\ importer' = [IdleImporter EXCEPT !.pc = "fetch", !.video = v, !.accept = a]
  /\ UNCHANGED <<trustVars, reviewVars, det, form>>

\* The details are there, and the uploader's trust is read.
ImportRead ==
  /\ importer.pc = "fetch"
  /\ importer' = [importer EXCEPT !.pc = "store",
                                 !.blocked = Blocked(UploaderOf[importer.video])]
  /\ UNCHANGED <<trustVars, reviewVars, det, form>>

\* A hard rejection keeps a link from being strong, but does not reject it.
ImportStore(s) ==
  /\ importer.pc = "store"
  /\ importer.blocked => s = "weak"
  /\ Upsert(importer.video, s)
  /\ importer' = IF importer.accept
                   THEN [importer EXCEPT !.pc = "confirm", !.blocked = FALSE]
                   ELSE IdleImporter
  /\ UNCHANGED <<trustVars, inScope, det, form>>

\* confirm_candidate_from_url
ImportConfirm ==
  /\ importer.pc = "confirm"
  /\ Confirmable(importer.video, {"rejected", "expired"})
  /\ Confirm(importer.video)
  /\ CountConfirmed(UploaderOf[importer.video])
  /\ importer' = IdleImporter
  /\ UNCHANGED <<listVars, inScope, det, form>>

\* Any error of the fetch or of the confirmation.
ImportAbort ==
  /\ importer.pc # "idle"
  /\ importer' = IdleImporter
  /\ UNCHANGED <<trustVars, reviewVars, det, form>>

-----------------------------------------------------------------------------
(* The rest of the program, as far as it touches this episode.             *)

\* Another operation moves the current episode, pauses or resumes the anime.
Rescope ==
  /\ inScope' = ~inScope
  /\ UNCHANGED <<trustVars, ep, cand, det, importer, form>>

\* import_collection completes the episode with a video of its own.
ReleaseElsewhere ==
  /\ ~Completed(ep)
  /\ ep' = "confirmed"
  /\ cand' = Expired(Pending)
  /\ UNCHANGED <<trustVars, inScope, det, importer, form>>

\* mark_notification_sent
Notified ==
  /\ ep = "confirmed"
  /\ ep' = "notified"
  /\ cand' = Expired(Pending)
  /\ UNCHANGED <<trustVars, inScope, det, importer, form>>

\* expire_candidates is not limited to the anime whose check calls it.
ExpireElsewhere(V) ==
  /\ V # {}
  /\ cand' = Expired(V)
  /\ UNCHANGED <<trustVars, ep, inScope, det, importer, form>>

\* The candidates repair_current_episode takes back.
RepairExpires == Pending \cup { v \in Videos : cand[v] = "confirmed" }

Repair ==
  /\ ep' = "watching"
  /\ cand' = Expired(RepairExpires)
  /\ UNCHANGED <<trustVars, inScope, det, importer, form>>

-----------------------------------------------------------------------------
(* The detector: check_episode and try_confirm.                            *)

\* The searches answer the videos V.
ScanStart(d, V) ==
  /\ det[d].pc = "idle" /\ Monitorable
  /\ det' = [det EXCEPT ![d] = [IdleDetector EXCEPT !.pc = "scan", !.todo = V]]
  /\ UNCHANGED <<trustVars, reviewVars, importer, form>>

\* The uploader's trust, read before the candidate is evaluated.
ScanRead(d, v) ==
  /\ det[d].pc = "scan" /\ v \in det[d].todo
  /\ det' = [det EXCEPT ![d] =
               [det[d] EXCEPT !.pc = "store", !.todo = det[d].todo \ {v},
                              !.video = v, !.blocked = Blocked(UploaderOf[v])]]
  /\ UNCHANGED <<trustVars, reviewVars, importer, form>>

\* The evaluation may come out as s: a block is a hard rejection.
Evaluated(d, s) == det[d].blocked => s = "rejected"

ScanStore(d, s, review) ==
  /\ det[d].pc = "store"
  /\ Evaluated(d, s)
  /\ review => s # "strong"      \* what asks for a review is not confirmed by itself
  /\ Upsert(det[d].video, s)
  /\ det' = [det EXCEPT ![d] =
               [det[d] EXCEPT !.pc = IF review THEN "flag" ELSE "scan",
                              !.video = NoVideo, !.blocked = FALSE]]
  /\ UNCHANGED <<trustVars, inScope, importer, form>>

\* set_episode_manual_review
ScanFlag(d) ==
  /\ det[d].pc = "flag"
  /\ ep' = IF Completed(ep) THEN ep ELSE "needs_manual_review"
  /\ det' = [det EXCEPT ![d] = [det[d] EXCEPT !.pc = "scan"]]
  /\ UNCHANGED <<trustVars, inScope, cand, importer, form>>

\* expire_candidates: V was last seen too long ago.
ScanExpire(d, V) ==
  /\ det[d].pc = "scan" /\ det[d].todo = {}
  /\ V \subseteq Pending
  /\ cand' = Expired(V)
  /\ det' = [det EXCEPT ![d] = [det[d] EXCEPT !.pc = "judge"]]
  /\ UNCHANGED <<trustVars, ep, inScope, importer, form>>

\* try_confirm: the pending candidates with an evaluation strong enough.
Judge(d) ==
  /\ det[d].pc = "judge"
  /\ LET S == { v \in Videos : cand[v] = "strong" } IN
       det' = [det EXCEPT ![d] = [det[d] EXCEPT !.pc = "trust", !.todo = S, !.snap = S]]
  /\ UNCHANGED <<trustVars, reviewVars, importer, form>>

\* Mutant: only a manual flag counts.
TrustsFlagged(d, v) == v \in det[d].todo /\ flag[UploaderOf[v]] = "trusted"

\* The detector finds the uploader of v trusted.
Trusts(d, v) == v \in det[d].todo /\ IsTrusted(UploaderOf[v])

JudgeTrust(d, v) ==
  /\ det[d].pc = "trust" /\ v \in det[d].todo
  /\ det' = [det EXCEPT ![d] =
               IF Trusts(d, v) THEN [det[d] EXCEPT !.pc = "confirm", !.video = v]
               ELSE [det[d] EXCEPT !.todo = det[d].todo \ {v}]]
  /\ UNCHANGED <<trustVars, reviewVars, importer, form>>

\* find_consensus on the candidates read: enough uploaders agree on v.
JudgeConsensus(d, v) ==
  /\ det[d].pc = "trust" /\ det[d].todo = {}
  /\ v \in det[d].snap
  /\ Cardinality({ UploaderOf[w] : w \in det[d].snap }) >= Votes
  /\ det' = [det EXCEPT ![d] = [det[d] EXCEPT !.pc = "confirm", !.video = v]]
  /\ UNCHANGED <<trustVars, reviewVars, importer, form>>

\* There is no consensus (durations or dates may differ): the check ends.
JudgeNone(d) ==
  /\ det[d].pc = "trust" /\ det[d].todo = {}
  /\ det' = [det EXCEPT ![d] = IdleDetector]
  /\ UNCHANGED <<trustVars, reviewVars, importer, form>>

AutoConfirm(d) ==
  /\ det[d].pc = "confirm"
  /\ Confirmable(det[d].video, {})
  /\ Confirm(det[d].video)
  /\ det' = [det EXCEPT ![d] = IdleDetector]
  /\ UNCHANGED <<trustVars, inScope, importer, form>>

\* An error of the provider, a confirmation refused, or the process stops.
ScanAbort(d) ==
  /\ det[d].pc # "idle"
  /\ det' = [det EXCEPT ![d] = IdleDetector]
  /\ UNCHANGED <<trustVars, reviewVars, importer, form>>

-----------------------------------------------------------------------------
(* The specification.                                                      *)

UserStep ==
  \/ \E v \in Videos : Accept(v) \/ Reject(v)
  \/ RejectAll \/ ShowForm \/ SubmitForm
  \/ \E u \in Uploaders : Block(u)
  \/ ChangeLists
  \/ \E v \in Links, a \in BOOLEAN : ImportStart(v, a)
  \/ \E s \in {"weak", "strong"} : ImportStore(s)
  \/ ImportRead \/ ImportConfirm \/ ImportAbort

OtherStep ==
  \/ Rescope \/ ReleaseElsewhere \/ Notified \/ Repair
  \/ \E V \in SUBSET Pending : ExpireElsewhere(V)

DetectorStep(d) ==
  \/ \E V \in SUBSET Videos : ScanStart(d, V) \/ ScanExpire(d, V)
  \/ \E v \in Videos : ScanRead(d, v) \/ JudgeTrust(d, v) \/ JudgeConsensus(d, v)
  \/ \E s \in {"rejected", "weak", "strong"}, review \in BOOLEAN : ScanStore(d, s, review)
  \/ ScanFlag(d) \/ Judge(d) \/ JudgeNone(d) \/ AutoConfirm(d) \/ ScanAbort(d)

Next ==
  \/ UserStep \/ OtherStep
  \/ \E d \in Detectors : DetectorStep(d)

Spec == Init /\ [][Next]_vars

-----------------------------------------------------------------------------
(* Safety.                                                                 *)

\* An episode is won once: at most one candidate is confirmed, only on a
\* completed episode, however many processes try to confirm and whatever a
\* repair takes back.
OneWinner ==
  /\ \A v, w \in Videos : cand[v] = "confirmed" /\ cand[w] = "confirmed" => v = w
  /\ \A v \in Videos : cand[v] = "confirmed" => Completed(ep)

\* An unfinished episode with candidates to review shows it: it is not left
\* in watching by the rejection of others or by a scan that comes late.
PendingShows == Pending # {} => ep # "watching"

\* A rejection is final for every scan, stale form and later judgement: only
\* the link of that very video, pasted with the intent to confirm, undoes it.
RejectionIsFinal ==
  [][ \A v \in Videos : cand[v] = "rejected" /\ cand'[v] # "rejected"
        => importer.pc = "confirm" /\ importer.video = v /\ cand'[v] = "confirmed" ]_vars

\* The reject-all form rejects exactly the candidates it showed, or none.
FormRejectsShown ==
  [][ form # {} /\ form' = {}
        => { v \in Videos : cand'[v] = "rejected" /\ cand[v] # "rejected" } \in {{}, form} ]_vars

\* The program on its own confirms no video of an uploader blocked for this
\* anime: a block excludes what is pending and what is detected later.
BlockedNotConfirmed ==
  [][ \A d \in Detectors, v \in Videos :
        det[d].pc = "confirm" /\ det[d].video = v /\ cand[v] # "confirmed"
        /\ cand'[v] = "confirmed" /\ det'[d] # det[d]
          => ~Blocked(UploaderOf[v]) ]_vars

-----------------------------------------------------------------------------
(* Liveness.                                                               *)

\* The scheduler polls for ever, a check goes on, and an outage of the video
\* site or of the process ends: every step of a check happens that is
\* possible again and again.
CheckFairness ==
  \A d \in Detectors :
    /\ \A v \in Videos : SF_vars(ScanRead(d, v)) /\ SF_vars(JudgeTrust(d, v))
    /\ SF_vars(\E V \in SUBSET Videos : ScanStart(d, V))
    /\ SF_vars(\E s \in {"rejected", "weak", "strong"}, r \in BOOLEAN : ScanStore(d, s, r))
    /\ SF_vars(ScanFlag(d))
    /\ SF_vars(\E V \in SUBSET Videos : ScanExpire(d, V))
    /\ SF_vars(Judge(d)) /\ SF_vars(JudgeNone(d))
    /\ SF_vars(AutoConfirm(d))

FairSpec == Spec /\ CheckFairness

\* A strong candidate of a trusted uploader does not stay pending in a
\* monitored episode: the program confirms it (or something overtakes it).
TrustedIsSettled ==
  \A v \in Videos :
    []<>~(cand[v] = "strong" /\ IsTrusted(UploaderOf[v]) /\ Monitorable)

=============================================================================
