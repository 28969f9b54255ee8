---------------------------- MODULE MC_DraftJobs ----------------------------
(* Small instances of DraftJobs.                                           *)
EXTENDS DraftJobs

\* The two kinds of draft share nothing but the queue: one of them is used.
OneKindOfDraft == adraft = "none" \/ cdraft = "none"
=============================================================================
