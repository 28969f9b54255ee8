----------------------- MODULE MC_EpisodeLifecycle -----------------------
(* Small instances of EpisodeLifecycle: which origins a user may enter and *)
(* which release plans the timetable may answer.                           *)
EXTENDS EpisodeLifecycle

NoPlan      == {}
DoublePlan  == { <<1, 2>> }

\* No release plan, or one double release.
FewAnswers   == { NoPlan, DoublePlan }

\* For the liveness run, where every further answer costs a factor: seasons whose
\* episodes come out one by one.
NoAnswer     == { NoPlan }

Unmapped     == { Unknown }
SomeOrigins  == { Unknown, 2 }
=============================================================================
