-------------------------- MODULE EpisodeLifecycle --------------------------
(***************************************************************************)
(* One tracked anime of AniPulse: its row in the anime table, its episode  *)
(* and notification rows, and the processes that change them.  Every       *)
(* action is one SQLite transaction (or one read) of the code; a process   *)
(* that awaits the network between two transactions keeps what it read in  *)
(* its own record and may be overtaken by every other process there.       *)
(*                                                                         *)
(* The four unfinished states of an episode (waiting, watching,            *)
(* candidate_found, needs_manual_review) are one state here, "open":       *)
(* every guard of the operations below only asks whether an episode is     *)
(* confirmed or notified.  Times, titles and video sources are left out.   *)
(***************************************************************************)
EXTENDS Integers, FiniteSets

CONSTANTS MaxEpisode,   \* the largest episode number (10 000 in the code)
          Dispatchers,  \* the processes that run dispatch_pending
          Origins,      \* the local origins a mapping may name, or Unknown
          Answers       \* the sets of release ranges a timetable may answer

Episodes  == 1 .. MaxEpisode
Unknown   == 0                      \* SQL NULL in a numeric column
Ranges    == { r \in Episodes \X Episodes : r[1] <= r[2] }

ASSUME MaxEpisodeAssumption == MaxEpisode \in Nat \ {0}
ASSUME InputsAssumption ==
  /\ Origins \subseteq 0 .. MaxEpisode
  /\ Answers \subseteq SUBSET Ranges

Lifecycle     == {"none", "tracking", "released_complete", "archived"}
EpisodeState  == {"absent", "open", "confirmed", "notified"}
NoteState     == {"none", "pending", "sent"}

VARIABLES
  lifecycle,  \* anime.lifecycle, "none" while the anime has no row
  enabled,    \* anime.enabled
  auto,       \* anime.auto_schedule
  total,      \* anime.total_episodes or Unknown
  origin,     \* anime.local_episode_origin or Unknown
  start,      \* anime.tracking_start_episode
  batches,    \* rows of release_batch: ranges <<first, last>>
  ep,         \* state of each episode row
  watched,    \* episodes with watched_at set
  note,       \* state of each episode's notification row
  disp,       \* what each dispatcher is doing
  sync,       \* what the schedule synchronizer is doing
  mapper,     \* the origin a checked mapping change is about to write
  announced,  \* messages delivered for the current notification row (0, 1, 2+)
  unmarked    \* rows delivered by a dispatch that did not mark them sent

animeVars == <<lifecycle, enabled, auto, total, origin, start>>
rowVars   == <<batches, ep, watched, note>>
dispVars  == <<disp, announced, unmarked>>
procVars  == <<sync, mapper>>
vars      == <<animeVars, rowVars, dispVars, procVars>>

-----------------------------------------------------------------------------
(* Helpers: numbering, completion and scope.                               *)

Completed(s) == s \in {"confirmed", "notified"}

\* Anime::final_episode_no: the last episode, or Unknown.
FinalEpisode(t, o) ==
  IF t = Unknown THEN Unknown ELSE IF o = Unknown THEN t ELSE o + t - 1

FirstEpisode(o) == IF o = Unknown THEN 1 ELSE o

\* The mapped final episode is a legal episode number.
LegalTotal(t, o) == FinalEpisode(t, o) <= MaxEpisode

\* The season is out: every episode from the first to the final is completed.
SeasonReleased(s, t, o) ==
  /\ t # Unknown
  /\ \A e \in FirstEpisode(o) .. FinalEpisode(t, o) : Completed(s[e])

\* No completed episode lies beyond the final one.
CoversHistory(s, t, o) ==
  \A e \in Episodes : Completed(s[e]) => e <= FinalEpisode(t, o)

InScope(e) == e >= start /\ ep[e] = "open"

\* Repository::active_episode: the first open episode in scope.
IsActive(e) == InScope(e) /\ \A f \in Episodes : InScope(f) => e <= f

HasActive == \E e \in Episodes : InScope(e)

Multi(r) == r[2] > r[1]
Covers(r, e) == r[1] <= e /\ e <= r[2]

\* The view monitorable_episode.
Monitorable(e) ==
  /\ lifecycle = "tracking"
  /\ InScope(e)
  /\ IsActive(e) \/ \E r \in batches : Multi(r) /\ Covers(r, e)

\* transition_released_complete_if_final_released, on the episode states s
\* and the total t the calling transaction has already written.
Settles(s, t) == lifecycle = "tracking" /\ SeasonReleased(s, t, origin)

\* Mutant: episodes beyond the final one stay.
TrimmedNothing(s, t) == s

\* Mutant: released episodes beyond the final one go, too.
TrimmedReleased(s, t) ==
  [e \in Episodes |-> IF lifecycle = "tracking" /\ t # Unknown /\ e > FinalEpisode(t, origin)
                      THEN "absent" ELSE s[e]]

Trimmed(s, t) ==
  [e \in Episodes |->
     IF /\ lifecycle = "tracking" /\ t # Unknown
        /\ e > FinalEpisode(t, origin) /\ ~Completed(s[e])
     THEN "absent" ELSE s[e]]

Transition(s, t) ==
  /\ lifecycle' = IF Settles(s, t) THEN "released_complete" ELSE lifecycle
  /\ enabled'   = (enabled /\ ~Settles(s, t))

-----------------------------------------------------------------------------
(* The processes' own records, and what deleting rows does to them.        *)

IdleDispatcher ==
  [pc |-> "idle", queue |-> {}, group |-> {}, ok |-> FALSE, stale |-> {}]

DispatcherRecord ==
  [pc : {"idle", "send", "mark"}, queue : SUBSET SUBSET Episodes,
   group : SUBSET Episodes, ok : BOOLEAN, stale : SUBSET Episodes]

SyncStep  == {"idle", "fetch", "batches"}
NoMapping == -1

\* The episodes whose notification ids a dispatcher still has to use.
Held(d) == (UNION disp[d].queue) \cup disp[d].group

\* The notification rows of the episodes gone are deleted.  Ids are never
\* reused, so a dispatcher that holds one of them holds a stale id.
Forget(gone) ==
  /\ disp' = [d \in Dispatchers |->
                [disp[d] EXCEPT !.stale = @ \cup (gone \cap Held(d))]]
  /\ announced' = [e \in Episodes |-> IF e \in gone THEN 0 ELSE announced[e]]
  /\ unmarked'  = unmarked \ gone

Absent(s) == { e \in Episodes : s[e] = "absent" }

\* Mutant: the rows of a deleted episode are left behind.
RowsBecomeOnly(s) ==
  ep' = s /\ UNCHANGED <<watched, note>> /\ Forget({})

\* The episode rows become s.  ON DELETE CASCADE: a deleted episode takes
\* its watch mark and its notification row with it.
RowsBecome(s) ==
  /\ ep' = s
  /\ watched' = watched \ Absent(s)
  /\ note' = [e \in Episodes |-> IF s[e] = "absent" THEN "none" ELSE note[e]]
  /\ Forget(Absent(s))

\* The same when the operation also queues the notification row of episode n
\* (INSERT OR IGNORE: an existing row stays as it is).
RowsBecomeWithNote(s, n) ==
  /\ ep' = s
  /\ watched' = watched \ Absent(s)
  /\ note' = [e \in Episodes |->
                IF s[e] = "absent" THEN "none"
                ELSE IF e = n /\ note[e] = "none" THEN "pending" ELSE note[e]]
  /\ Forget(Absent(s))

TypeOK ==
  /\ lifecycle \in Lifecycle
  /\ enabled \in BOOLEAN
  /\ auto \in BOOLEAN
  /\ total \in 0 .. MaxEpisode
  /\ origin \in 0 .. MaxEpisode
  /\ start \in Episodes
  /\ batches \in SUBSET Ranges
  /\ ep \in [Episodes -> EpisodeState]
  /\ watched \in SUBSET Episodes
  /\ note \in [Episodes -> NoteState]
  /\ disp \in [Dispatchers -> DispatcherRecord]
  /\ sync \in SyncStep
  /\ mapper \in {NoMapping} \cup 0 .. MaxEpisode
  /\ announced \in [Episodes -> 0 .. 2]
  /\ unmarked \in SUBSET Episodes

Init ==
  /\ lifecycle = "none" /\ enabled = FALSE /\ auto = FALSE
  /\ total = Unknown /\ origin = Unknown /\ start = 1
  /\ batches = {}
  /\ ep = [e \in Episodes |-> "absent"]
  /\ watched = {}
  /\ note = [e \in Episodes |-> "none"]
  /\ disp = [d \in Dispatchers |-> IdleDispatcher]
  /\ sync = "idle"
  /\ mapper = NoMapping
  /\ announced = [e \in Episodes |-> 0]
  /\ unmarked = {}


-----------------------------------------------------------------------------
(* The anime row.                                                          *)

\* add_anime: the anime and its first open episode n.
AddAnime(n, a, o, t) ==
  /\ lifecycle = "none"
  /\ ~a => o = Unknown /\ t = Unknown
  /\ FirstEpisode(o) <= n
  /\ LegalTotal(t, o)
  /\ lifecycle' = "tracking" /\ enabled' = TRUE /\ auto' = a
  /\ total' = t /\ origin' = o /\ start' = n
  /\ ep' = [ep EXCEPT ![n] = "open"]
  /\ UNCHANGED <<batches, watched, note, dispVars, procVars>>

\* delete_anime and delete_anime_checked.  Whatever a process still does
\* with the deleted anime id ends in NotFound.
DeleteAnime ==
  /\ lifecycle # "none"
  /\ lifecycle' = "none" /\ enabled' = FALSE /\ auto' = FALSE
  /\ total' = Unknown /\ origin' = Unknown /\ start' = 1
  /\ batches' = {}
  /\ RowsBecome([e \in Episodes |-> "absent"])
  /\ sync' = "idle" /\ mapper' = NoMapping

\* set_anime_enabled
SetEnabled(b) ==
  /\ lifecycle = "tracking"
  /\ enabled' = b
  /\ UNCHANGED <<lifecycle, auto, total, origin, start, rowVars, dispVars, procVars>>

\* set_episode_number_mapping: the checks are reads outside the UPDATE.
CheckMapping(o) ==
  /\ mapper = NoMapping
  /\ auto /\ lifecycle = "tracking"
  /\ \E e \in Episodes : IsActive(e) /\ FirstEpisode(o) <= e
  /\ mapper' = o
  /\ UNCHANGED <<animeVars, rowVars, dispVars, sync>>

\* Mutant: the total of the old numbering is kept.
WriteMappingOnly ==
  /\ mapper # NoMapping
  /\ mapper' = NoMapping
  /\ origin' = IF auto /\ lifecycle = "tracking" THEN mapper ELSE origin
  /\ UNCHANGED <<lifecycle, enabled, auto, total, start, rowVars, dispVars, sync>>

WriteMapping ==
  /\ mapper # NoMapping
  /\ mapper' = NoMapping
  /\ IF auto /\ lifecycle = "tracking"
       THEN origin' = mapper /\ total' = Unknown
       ELSE UNCHANGED <<origin, total>>
  /\ UNCHANGED <<lifecycle, enabled, auto, start, rowVars, dispVars, sync>>

\* The total an operation writes when it is given t: t itself, the stored
\* total, or the last completed episode.
InferredTotal(t, T) ==
  IF t # Unknown \/ total # Unknown
  THEN T = IF t # Unknown THEN t ELSE total
  ELSE Completed(ep[T]) /\ \A e \in Episodes : Completed(ep[e]) => e <= T

\* mark_anime_released_complete(t): everything not completed is deleted.
MarkReleased(t) ==
  /\ lifecycle \in {"tracking", "released_complete"}
  /\ \E T \in Episodes :
       /\ InferredTotal(t, T)
       /\ LegalTotal(T, origin) /\ CoversHistory(ep, T, origin)
       /\ total' = T
  /\ lifecycle' = "released_complete" /\ enabled' = FALSE
  /\ RowsBecome([e \in Episodes |->
                   IF Completed(ep[e]) THEN ep[e] ELSE "absent"])
  /\ UNCHANGED <<auto, origin, start, batches, procVars>>

\* archive_anime_with_memory(t): every episode row is deleted.
Archive(t) ==
  /\ lifecycle = "released_complete"
  /\ \E T \in Episodes :
       /\ InferredTotal(t, T)
       /\ LegalTotal(T, origin) /\ CoversHistory(ep, T, origin)
       /\ total' = T
  /\ lifecycle' = "archived" /\ enabled' = FALSE
  /\ RowsBecome([e \in Episodes |-> "absent"])
  /\ UNCHANGED <<auto, origin, start, batches, procVars>>

\* resume_anime_tracking: note that the tracking start stays where it was.
Resume(n) ==
  /\ lifecycle = "released_complete"
  /\ ep[n] = "absent"
  /\ ep' = [ep EXCEPT ![n] = "open"]
  /\ lifecycle' = "tracking" /\ enabled' = TRUE /\ total' = Unknown
  /\ UNCHANGED <<auto, origin, start, batches, watched, note, dispVars, procVars>>

\* Mutant: one episode too early.
RepairedStartEarly(target) == IF target < start THEN target - 1 ELSE start

\* The tracking start after a repair.
RepairedStart(target) == IF target < start THEN target ELSE start

\* repair_current_episode, called by the CLI with active_episode's id.  The
\* repository takes the first open episode whatever the tracking start is.
Repair(target) ==
  /\ lifecycle # "none" /\ ~enabled
  /\ \E current \in Episodes :
       /\ ep[current] = "open" /\ IsActive(current)
       /\ \A f \in Episodes : ep[f] = "open" => current <= f
       /\ target <= current
  /\ ep[target] # "absent"
  /\ ep' = [e \in Episodes |-> IF e < target THEN ep[e]
                               ELSE IF e = target THEN "open" ELSE "absent"]
  /\ note' = [e \in Episodes |-> IF e >= target THEN "none" ELSE note[e]]
  /\ watched' = { e \in watched : e < target }
  /\ Forget(target .. MaxEpisode)
  /\ start' = RepairedStart(target)
  /\ UNCHANGED <<lifecycle, enabled, auto, total, origin, batches, procVars>>

-----------------------------------------------------------------------------
(* Confirming, importing and filling in episodes.                          *)

\* confirm_candidate_with_intent (automatic, reviewed or explicit URL).
Confirm(e) ==
  /\ Monitorable(e)
  /\ LET s == [ep EXCEPT ![e] = "confirmed"] IN
       RowsBecomeWithNote(Trimmed(s, total), e) /\ Transition(s, total)
  /\ UNCHANGED <<auto, total, origin, start, batches, procVars>>

\* import_collection: every part chosen is confirmed, one of the newly
\* confirmed ones (the first in the order of the form) is announced, none
\* (first = 0) when nothing is new.
ImportCollection(S, first) ==
  LET fresh == { e \in S : ~Completed(ep[e]) }
      s     == [e \in Episodes |-> IF e \in fresh THEN "confirmed" ELSE ep[e]]
  IN
  /\ lifecycle \in {"tracking", "released_complete"}
  /\ \A e \in S : /\ FirstEpisode(origin) <= e
                  /\ total # Unknown => e <= FinalEpisode(total, origin)
  /\ IF fresh = {} THEN first = 0 ELSE first \in fresh
  /\ RowsBecomeWithNote(Trimmed(s, total), first)
  /\ Transition(s, total)
  /\ UNCHANGED <<auto, total, origin, start, batches, procVars>>

\* The episodes ensure_video_episode may file as history.
HistoryAllowed(n) ==
  IF lifecycle = "released_complete"
  THEN total # Unknown /\ n <= FinalEpisode(total, origin)
  ELSE \E l \in Episodes : /\ n < l /\ l >= start /\ ep[l] # "absent"
                           /\ HasActive => IsActive(l)

\* ensure_video_episode, when it inserts an already watched episode.
EnsureHistory(n) ==
  /\ lifecycle \in {"tracking", "released_complete"}
  /\ HistoryAllowed(n)
  /\ ep[n] = "absent"
  /\ ep' = [ep EXCEPT ![n] = "notified"]
  /\ watched' = watched \cup {n}
  /\ UNCHANGED <<animeVars, batches, note, dispVars, procVars>>

\* The first transaction of mark_episode_watched.  What it does next, the
\* reads and the automatic archive, is module WatchFlow.
MarkWatched(e) ==
  /\ Completed(ep[e])
  /\ watched' = watched \cup {e}
  /\ UNCHANGED <<animeVars, batches, ep, note, dispVars, procVars>>

-----------------------------------------------------------------------------
(* The schedule synchronizer: sync_with_catalog asks the timetable about   *)
(* the episode that is active now and applies the answer when it is back.  *)

SyncStart ==
  /\ sync = "idle"
  /\ auto /\ lifecycle \in {"tracking", "released_complete"} /\ HasActive
  /\ sync' = "fetch"
  /\ UNCHANGED <<animeVars, rowVars, dispVars, mapper>>

\* Any error, a lookup that fails or a check of the two writes below.
SyncFail ==
  /\ sync # "idle"
  /\ sync' = "idle"
  /\ UNCHANGED <<animeVars, rowVars, dispVars, mapper>>

\* apply_schedule_update with the answered total t, Unknown when the answer
\* has none (COALESCE keeps the stored one).
SyncApply(t) ==
  LET T == IF t = Unknown THEN total ELSE t IN
  /\ sync = "fetch"
  /\ auto /\ lifecycle = "tracking"
  /\ LegalTotal(T, origin)
  /\ total' = T
  /\ RowsBecome(Trimmed(ep, T))
  /\ Transition(ep, T)
  /\ sync' = "batches"
  /\ UNCHANGED <<auto, origin, start, batches, mapper>>

\* The episodes a release answer B may create while c is the current one.
Expanded(B, c) ==
  {c} \cup { e \in Episodes : e >= c /\ \E r \in B : Multi(r) /\ Covers(r, e) }

\* apply_release_batches
ApplyBatches(B) ==
  /\ sync = "batches"
  /\ sync' = "idle"
  /\ IF auto /\ lifecycle # "archived" /\ B # {}
       THEN /\ total # Unknown => \A r \in B : r[2] <= FinalEpisode(total, origin)
            /\ batches' = batches \cup B
            /\ ep' = [e \in Episodes |->
                       IF /\ ep[e] = "absent"
                          /\ \E c \in Episodes : IsActive(c) /\ e \in Expanded(B, c)
                       THEN "open" ELSE ep[e]]
       ELSE UNCHANGED <<batches, ep>>
  /\ UNCHANGED <<animeVars, watched, note, dispVars, mapper>>

-----------------------------------------------------------------------------
(* The dispatcher: Notifier service dispatch_pending.                      *)

\* notification_batch_key: k may be the key of episode e.
BatchKey(e, k) ==
  LET covering == { r \in batches : Multi(r) /\ Covers(r, e) } IN
  IF covering = {} THEN k = <<e>>
  ELSE k \in covering /\ \A r \in covering : k[2] - k[1] <= r[2] - r[1]

\* The due rows P, grouped by batch: rows without a batch stay alone.
Grouping(P, Q) ==
  \E key \in [P -> batches \cup { <<e>> : e \in P }] :
    /\ \A e \in P : BatchKey(e, key[e])
    /\ Q = { { f \in P : key[f] = key[e] } : e \in P }

\* Mutant: only rows of episodes that are notified already.
DueNotified(P) ==
  P # {} /\ \A e \in P : note[e] = "pending" /\ ep[e] = "notified"

\* pending_notifications: a row whose retry is not yet due is left out.
Due(P) == P # {} /\ \A e \in P : note[e] = "pending"

\* The start of dispatch_pending: take the due rows and group them.
DispatchStart(d, P) ==
  /\ disp[d].pc = "idle"
  /\ Due(P)
  /\ \E Q \in SUBSET SUBSET P :
       /\ Grouping(P, Q)
       /\ disp' = [disp EXCEPT ![d] = [IdleDispatcher EXCEPT !.pc = "send", !.queue = Q]]
  /\ UNCHANGED <<animeVars, rowVars, announced, unmarked, procVars>>

\* A group of several rows first reads the episode of its first event.
CanSend(d, g) == Cardinality(g) = 1 \/ ~(g \subseteq disp[d].stale)

\* The message is delivered; its rows are counted as long as they exist.
Deliver(d, g) ==
  announced' = [e \in Episodes |->
                 IF e \in g \ disp[d].stale /\ announced[e] < 2
                 THEN announced[e] + 1 ELSE announced[e]]

\* Mutant: the group stays in the queue.
TakenAgain(d, g, answer) ==
  disp' = [disp EXCEPT ![d] = [disp[d] EXCEPT !.pc = "mark", !.group = g, !.ok = answer]]

Taken(d, g, answer) ==
  disp' = [disp EXCEPT ![d] =
             [disp[d] EXCEPT !.pc = "mark", !.queue = @ \ {g}, !.group = g, !.ok = answer]]

\* notify_release answers Ok.
SendOk(d, g) ==
  /\ disp[d].pc = "send" /\ g \in disp[d].queue /\ CanSend(d, g)
  /\ Deliver(d, g)
  /\ Taken(d, g, TRUE)
  /\ UNCHANGED <<animeVars, rowVars, unmarked, procVars>>

\* notify_release answers an error: nothing was delivered.
SendFail(d, g) ==
  /\ disp[d].pc = "send" /\ g \in disp[d].queue /\ CanSend(d, g)
  /\ Taken(d, g, FALSE)
  /\ UNCHANGED <<animeVars, rowVars, announced, unmarked, procVars>>

\* notify_release answers an error, the deadline, but the message arrived.
SendTimeout(d, g) ==
  /\ disp[d].pc = "send" /\ g \in disp[d].queue /\ CanSend(d, g)
  /\ Deliver(d, g)
  /\ unmarked' = unmarked \cup (g \ disp[d].stale)
  /\ Taken(d, g, FALSE)
  /\ UNCHANGED <<animeVars, rowVars, procVars>>

\* The dispatcher's record once the row of episode e is marked.
AfterMark(r, e) ==
  IF r.group # {e} THEN [r EXCEPT !.group = @ \ {e}]
  ELSE IF r.queue # {} THEN [r EXCEPT !.pc = "send", !.group = {}, !.ok = FALSE]
  ELSE IdleDispatcher

\* Mutant: rows are marked by episode, not by the row id that was read.
MarkingEpisode(d, e) == disp[d].pc = "mark" /\ e \in disp[d].group

Marking(d, e) == disp[d].pc = "mark" /\ e \in disp[d].group /\ e \notin disp[d].stale

\* mark_notification_failed: the row stays pending.
MarkFailed(d, e) ==
  /\ Marking(d, e) /\ ~disp[d].ok
  /\ disp' = [disp EXCEPT ![d] = AfterMark(@, e)]
  /\ UNCHANGED <<animeVars, rowVars, announced, unmarked, procVars>>

\* Whether marking episode e makes its successor the next one to wait for.
Advances(e, t) ==
  lifecycle = "tracking" /\ (t = Unknown \/ e < FinalEpisode(t, origin))

\* mark_notification_sent: the episode is notified, a finished season is
\* completed, and otherwise the next episode starts waiting.
MarkSent(d, e) ==
  LET s == Trimmed([ep EXCEPT ![e] = "notified"], total)
      next == [f \in Episodes |->
                IF /\ f = e + 1 /\ s[f] = "absent"
                   /\ ~Settles(s, total) /\ Advances(e, total)
                THEN "open" ELSE s[f]]
      gone == Absent(next)
  IN
  /\ Marking(d, e) /\ disp[d].ok
  /\ ep' = next
  /\ watched' = watched \ gone
  /\ note' = [f \in Episodes |->
                IF f \in gone THEN "none" ELSE IF f = e THEN "sent" ELSE note[f]]
  /\ Transition(s, total)
  /\ disp' = [c \in Dispatchers |->
                IF c = d THEN AfterMark(disp[d], e)
                ELSE [disp[c] EXCEPT !.stale = @ \cup (gone \cap Held(c))]]
  /\ announced' = [f \in Episodes |-> IF f \in gone THEN 0 ELSE announced[f]]
  /\ unmarked' = unmarked \ gone
  /\ UNCHANGED <<auto, total, origin, start, batches, procVars>>

\* The dispatch ends early: the process stops, or a row it must read or mark
\* is gone and the error reaches the scheduler's main loop.  What was
\* delivered and not yet marked is still pending.
DispatchExit(d) ==
  /\ disp[d].pc # "idle"
  /\ disp' = [disp EXCEPT ![d] = IdleDispatcher]
  /\ unmarked' = IF disp[d].ok THEN unmarked \cup (disp[d].group \ disp[d].stale)
                 ELSE unmarked
  /\ UNCHANGED <<animeVars, rowVars, announced, procVars>>

-----------------------------------------------------------------------------
(* The specification.                                                      *)

AnimeStep ==
  \/ \E n \in Episodes, a \in BOOLEAN, o \in Origins, t \in 0 .. MaxEpisode :
       AddAnime(n, a, o, t)
  \/ DeleteAnime
  \/ \E b \in BOOLEAN : SetEnabled(b)
  \/ \E o \in Origins : CheckMapping(o)
  \/ WriteMapping
  \/ \E t \in 0 .. MaxEpisode : MarkReleased(t) \/ Archive(t)
  \/ \E n \in Episodes : Resume(n) \/ Repair(n)

EpisodeStep ==
  \/ \E e \in Episodes : Confirm(e) \/ EnsureHistory(e) \/ MarkWatched(e)
  \/ \E S \in SUBSET Episodes, first \in 0 .. MaxEpisode :
       S # {} /\ ImportCollection(S, first)

SyncSteps ==
  \/ SyncStart \/ SyncFail
  \/ \E t \in 0 .. MaxEpisode : SyncApply(t)
  \/ \E B \in Answers : ApplyBatches(B)

DispatchStep(d) ==
  \/ \E P \in SUBSET Episodes : DispatchStart(d, P)
  \/ \E g \in SUBSET Episodes : SendOk(d, g) \/ SendFail(d, g) \/ SendTimeout(d, g)
  \/ \E e \in Episodes : MarkSent(d, e) \/ MarkFailed(d, e)
  \/ DispatchExit(d)

Next ==
  \/ AnimeStep \/ EpisodeStep \/ SyncSteps
  \/ \E d \in Dispatchers : DispatchStep(d)

Spec == Init /\ [][Next]_vars

-----------------------------------------------------------------------------
(* Safety.                                                                 *)

\* The rows of one episode agree whatever was confirmed, imported, repaired,
\* trimmed or archived around them: a pending notification belongs to a
\* confirmed episode, a sent one to a notified episode, and only a completed
\* episode carries a watch mark.
RowsAgree ==
  \A e \in Episodes :
    /\ note[e] = "pending" => ep[e] = "confirmed"
    /\ note[e] = "sent" => ep[e] = "notified"
    /\ e \in watched => Completed(ep[e])

\* An anime that is played out is disabled and, unless its numbers are mapped,
\* has no unfinished episode left; an archived or deleted one has no episode
\* rows at all, however late another process comes back to it.  (A mapped
\* anime can keep an unfinished episode: from before its origin, as the counts of
\* the transition start at the origin and the deletion at the final episode, and,
\* when one before the origin is repaired during a synchronization, one after it.)
FinishedIsQuiet ==
  /\ lifecycle # "tracking" => ~enabled
  /\ lifecycle = "released_complete" /\ origin = Unknown =>
       \A e \in Episodes : ep[e] # "open"
  /\ lifecycle \in {"none", "archived"} => \A e \in Episodes : ep[e] = "absent"

\* The stored total never disagrees with the mapping: final_episode_no, which
\* every handler calls, does not fail on any row the program has written.
TotalFitsMapping == LegalTotal(total, origin)

\* A row is marked sent only after its own message was delivered: a handle to
\* a deleted row never marks the row that replaced it.
SentWasDelivered == \A e \in Episodes : note[e] = "sent" => announced[e] >= 1

\* With one dispatcher nothing but a lost reply, or a dispatch that ended between
\* delivery and mark_notification_sent, has a message repeated: no batch, retry or
\* row deleted and confirmed again does.  That a lost reply does is NotifiedOnce.
DuplicateNeedsLostReply ==
  (\A c, d \in Dispatchers : c = d) =>
    \A e \in Episodes : announced[e] = 2 => e \in unmarked

\* A completed episode and its watch mark survive every other step: they go
\* only with the anime's rows (archive, delete), or from the chosen episode
\* on by the repair of an anime the user has disabled.
KeptBefore(t) ==
  \A e \in { f \in Episodes : f < t } :
    /\ Completed(ep[e]) => Completed(ep'[e])
    /\ e \in watched => e \in watched'

HistoryIsKept ==
  [][ \/ KeptBefore(MaxEpisode + 1)
      \/ lifecycle' \in {"none", "archived"}
      \/ ~enabled /\ \E t \in Episodes : ep'[t] = "open" /\ KeptBefore(t) ]_vars

-----------------------------------------------------------------------------
(* What the documents say of this part, and the code does not keep.        *)

\* Notifying an episode of an unfinished season leaves a next episode to
\* track (thoughts.md, section 42).
NextEpisodeFollows ==
  [][ \A e \in Episodes :
        /\ note[e] = "pending" /\ note'[e] = "sent"
        /\ lifecycle' = "tracking" /\ Advances(e, total) /\ e + 1 \in Episodes
        => HasActive' ]_vars

\* A schedule synchronization does not take away the episode it asked about
\* from an anime that stays in tracking.
SyncKeepsActive ==
  [][ sync = "fetch" /\ sync' = "batches" /\ HasActive /\ lifecycle' = "tracking"
        => HasActive' ]_vars

\* No episode is notified twice on a channel, and a timeout repeats nothing
\* (thoughts.md:1960, deployment.md:393).  The transports send no idempotency key,
\* so a message that arrived without its reply is sent again.
NotifiedOnce == \A e \in Episodes : announced[e] <= 1

\* Resuming a season at a chosen episode has that episode monitored again.
ResumedIsMonitored ==
  [][ lifecycle = "released_complete" /\ lifecycle' = "tracking" => HasActive' ]_vars

-----------------------------------------------------------------------------
(* Liveness.                                                               *)

Dispatching(e) ==
  \E d \in Dispatchers, P \in SUBSET Episodes : e \in P /\ DispatchStart(d, P)

Sending(e) ==
  \E d \in Dispatchers, g \in SUBSET Episodes : e \in g /\ SendOk(d, g)

MarkingSent(e) == \E d \in Dispatchers : MarkSent(d, e)

\* A dispatch that has begun goes on.
Working(d) == disp[d].pc # "idle" /\ DispatchStep(d)

\* The scheduler polls for ever and is restarted when it ends; a row due for
\* a retry is taken, sent and marked if that is possible again and again.
DispatchFairness ==
  /\ \A d \in Dispatchers : WF_vars(Working(d))
  /\ \A e \in Episodes :
       SF_vars(Dispatching(e)) /\ SF_vars(Sending(e)) /\ SF_vars(MarkingSent(e))

FairSpec == Spec /\ DispatchFairness

\* A pending notification is eventually delivered and marked, unless its row
\* is deleted: no failure, exit or deletion leaves it pending for ever.
PendingIsSettled ==
  \A e \in Episodes : note[e] = "pending" ~> note[e] # "pending"

=============================================================================
