----------------------------- MODULE WatchFlow -----------------------------
(***************************************************************************)
(* Marking an episode as watched, and the automatic archive behind it.     *)
(*                                                                         *)
(* mark_episode_watched is no single transaction: it marks the episode,    *)
(* reads the anime, asks whether the season is watched, and then calls the *)
(* two operations that complete and archive an anime, each a transaction   *)
(* of its own that decides on the total read before.  This module adds     *)
(* that handler to EpisodeLifecycle, whose every other step can come       *)
(* between two of its steps.                                               *)
(***************************************************************************)
EXTENDS EpisodeLifecycle

VARIABLE viewer  \* what mark_episode_watched is doing and what it has read; seen
                 \* are the watched episodes of the query that decides

watchVars == <<vars, viewer>>

IdleViewer ==
  [pc |-> "idle", total |-> Unknown, origin |-> Unknown, complete |-> FALSE, seen |-> {}]

ViewerRecord ==
  [pc : {"idle", "read", "ready", "complete", "archive"}, total : 0 .. MaxEpisode,
   origin : 0 .. MaxEpisode, complete : BOOLEAN, seen : SUBSET Episodes]

WatchTypeOK == TypeOK /\ viewer \in ViewerRecord

WatchInit == Init /\ viewer = IdleViewer

-----------------------------------------------------------------------------
(* The handler.                                                            *)

\* The first transaction: only a completed episode can be marked.
WatchMark(e) ==
  /\ viewer.pc = "idle"
  /\ MarkWatched(e)
  /\ viewer' = [viewer EXCEPT !.pc = "read"]

\* get_anime: the anime as the rest of the handler knows it.  Without a final
\* episode there is nothing to archive.
WatchRead ==
  /\ viewer.pc = "read"
  /\ viewer' = IF FinalEpisode(total, origin) = Unknown THEN IdleViewer
                ELSE [IdleViewer EXCEPT !.pc = "ready", !.total = total, !.origin = origin,
                                        !.complete = lifecycle = "tracking"]
  /\ UNCHANGED vars

\* Mutant: an episode without a row counts as watched.
SeasonWatchedRows(t, o) ==
  \A e \in FirstEpisode(o) .. FinalEpisode(t, o) : ep[e] # "absent" => e \in watched

\* Every episode of a season with these numbers exists and is watched.
SeasonWatched(t, o) == FirstEpisode(o) .. FinalEpisode(t, o) \subseteq watched

\* The query that decides about archiving, and the watch marks it saw.
WatchReady ==
  /\ viewer.pc = "ready"
  /\ viewer' = IF SeasonWatched(viewer.total, viewer.origin)
                THEN [viewer EXCEPT !.pc = IF viewer.complete THEN "complete" ELSE "archive",
                                    !.seen = watched]
                ELSE IdleViewer
  /\ UNCHANGED vars

\* mark_anime_released_complete with the total read before.
WatchComplete ==
  /\ viewer.pc = "complete"
  /\ MarkReleased(viewer.total)
  /\ viewer' = [viewer EXCEPT !.pc = "archive", !.complete = FALSE]

\* archive_anime with the total read before.
WatchArchive ==
  /\ viewer.pc = "archive"
  /\ Archive(viewer.total)
  /\ viewer' = IdleViewer

\* An error of one of the steps, or the end of the web process.
WatchAbort ==
  /\ viewer.pc # "idle"
  /\ viewer' = IdleViewer
  /\ UNCHANGED vars

WatchStep ==
  \/ \E e \in Episodes : WatchMark(e)
  \/ WatchRead \/ WatchReady \/ WatchComplete \/ WatchArchive \/ WatchAbort

\* What the rest of the program does meanwhile.  The handler's anime id does
\* not outlive the anime: after a deletion its next step ends in NotFound.
OtherStep ==
  /\ Next
  /\ viewer' = IF lifecycle' = "none" THEN IdleViewer ELSE viewer

WatchNext == WatchStep \/ OtherStep

WatchSpec == WatchInit /\ [][WatchNext]_watchVars

-----------------------------------------------------------------------------
(* Properties.                                                             *)

\* The handler's archive takes no completed episode of the season that its query did
\* not see watched, however late it comes and whatever was confirmed, imported or
\* synchronized meanwhile: the total it decided on and the check of archive_anime
\* against the completed history must keep out what was released since.  Left out are
\* history before the origin, which the query does not count, and a season
\* renumbered since.
HandlerArchives ==
  /\ viewer.pc = "archive" /\ viewer' = IdleViewer
  /\ lifecycle = "released_complete" /\ lifecycle' = "archived"

ArchivesWhatItSaw ==
  [][ HandlerArchives /\ origin = viewer.origin
      => \A e \in Episodes :
           Completed(ep[e]) /\ e >= FirstEpisode(origin) => e \in viewer.seen ]_watchVars

\* The same of the watch marks at the time it archives (README.md:117: only when every
\* episode of the season has a watch record; web-deployment.md:190: nothing else is
\* still to be watched).  The query is no part of the transaction: an episode repaired
\* and released again since, or a renumbered season, is archived unwatched.
ArchivesOnlyWatched ==
  [][ HandlerArchives
      => \A e \in Episodes :
           Completed(ep[e]) /\ e >= FirstEpisode(origin) => e \in watched ]_watchVars

=============================================================================
