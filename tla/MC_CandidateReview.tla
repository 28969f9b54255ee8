------------------------ MODULE MC_CandidateReview ------------------------
(* Small instances of CandidateReview.                                     *)
EXTENDS CandidateReview, TLC

CONSTANTS v1, v2, u1, u2

\* Two uploaders with a video each: the smallest case of a consensus.
TwoVideos     == { v1, v2 }
TwoUploaders  == { u1, u2 }
TwoUploaderOf == (v1 :> u1) @@ (v2 :> u2)

\* One video: the only link in the run with two videos, and the instance in which
\* the trust lists change.
OneVideo      == { v1 }
OneUploader   == { u1 }
OneUploaderOf == v1 :> u1

\* A link is imported while no form is open and the anime stays monitored: the form
\* acts in one step on what is pending then, whoever brought it there.
ImportAlone == importer = IdleImporter \/ (form = {} /\ inScope)
=============================================================================
