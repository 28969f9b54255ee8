--------------------------- MODULE MC_WatchFlow ---------------------------
(* Small instances of WatchFlow.                                           *)
EXTENDS WatchFlow

\* A timetable that answers one double release, and one that answers none.
FewAnswers == { {}, { <<1, 2>> } }

SomeOrigins == { Unknown, 2 }
=============================================================================
