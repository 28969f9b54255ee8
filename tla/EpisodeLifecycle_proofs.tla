----------------------- MODULE EpisodeLifecycle_proofs -----------------------
(* Proofs about EpisodeLifecycle, for any number of episodes, any set of   *)
(* dispatchers and any origins and release plans; at the end, about the    *)
(* handler of WatchFlow that runs beside it.                               *)
EXTENDS WatchFlow, TLAPS

-----------------------------------------------------------------------------
(* Lemmas about the operators the actions are built from.                  *)

\* Trimming episode states gives episode states.
LEMMA TrimmedType ==
  ASSUME NEW s \in [Episodes -> EpisodeState], NEW t
  PROVE  Trimmed(s, t) \in [Episodes -> EpisodeState]
BY DEF Trimmed, EpisodeState

\* Trimming never touches a completed episode.
LEMMA TrimmedKeepsCompleted ==
  ASSUME NEW s, NEW t, NEW e \in Episodes, Completed(s[e])
  PROVE  Trimmed(s, t)[e] = s[e]
BY DEF Trimmed

\* The variables that Forget changes keep their types.
LEMMA ForgetType ==
  ASSUME TypeOK, NEW gone \in SUBSET Episodes, Forget(gone)
  PROVE  /\ disp' \in [Dispatchers -> DispatcherRecord]
         /\ announced' \in [Episodes -> 0 .. 2]
         /\ unmarked' \in SUBSET Episodes
<1>1. ASSUME NEW d \in Dispatchers
      PROVE  [disp[d] EXCEPT !.stale = @ \cup (gone \cap Held(d))] \in DispatcherRecord
  <2>1. disp[d] \in DispatcherRecord
    BY DEF TypeOK
  <2>2. disp[d].stale \cup (gone \cap Held(d)) \in SUBSET Episodes
    BY <2>1 DEF DispatcherRecord
  <2> QED BY <2>1, <2>2 DEF DispatcherRecord
<1>2. disp' \in [Dispatchers -> DispatcherRecord]
  BY <1>1 DEF Forget
<1>3. announced' \in [Episodes -> 0 .. 2]
  BY DEF Forget, TypeOK
<1> QED BY <1>2, <1>3 DEF Forget, TypeOK

\* The rows written by RowsBecome have their types.
LEMMA RowsBecomeType ==
  ASSUME TypeOK, NEW s \in [Episodes -> EpisodeState], RowsBecome(s)
  PROVE  /\ ep' \in [Episodes -> EpisodeState]
         /\ watched' \in SUBSET Episodes
         /\ note' \in [Episodes -> NoteState]
         /\ disp' \in [Dispatchers -> DispatcherRecord]
         /\ announced' \in [Episodes -> 0 .. 2]
         /\ unmarked' \in SUBSET Episodes
<1>1. Absent(s) \in SUBSET Episodes
  BY DEF Absent
<1>2. Forget(Absent(s))
  BY DEF RowsBecome
<1>3. note' \in [Episodes -> NoteState]
  BY DEF RowsBecome, TypeOK, NoteState
<1> QED BY <1>1, <1>2, <1>3, ForgetType DEF RowsBecome, TypeOK

\* The same for RowsBecomeWithNote.
LEMMA RowsBecomeWithNoteType ==
  ASSUME TypeOK, NEW s \in [Episodes -> EpisodeState], NEW n, RowsBecomeWithNote(s, n)
  PROVE  /\ ep' \in [Episodes -> EpisodeState]
         /\ watched' \in SUBSET Episodes
         /\ note' \in [Episodes -> NoteState]
         /\ disp' \in [Dispatchers -> DispatcherRecord]
         /\ announced' \in [Episodes -> 0 .. 2]
         /\ unmarked' \in SUBSET Episodes
<1>1. Absent(s) \in SUBSET Episodes
  BY DEF Absent
<1>2. Forget(Absent(s))
  BY DEF RowsBecomeWithNote
<1>3. note' \in [Episodes -> NoteState]
  BY DEF RowsBecomeWithNote, TypeOK, NoteState
<1> QED BY <1>1, <1>2, <1>3, ForgetType DEF RowsBecomeWithNote, TypeOK

\* The transition leaves a lifecycle and an enabled flag.
LEMMA TransitionType ==
  ASSUME TypeOK, NEW s, NEW t, Transition(s, t)
  PROVE  lifecycle' \in Lifecycle /\ enabled' \in BOOLEAN
BY DEF Transition, TypeOK, Lifecycle

-----------------------------------------------------------------------------
(* Type correctness.                                                       *)

\* The initial state is well typed.
LEMMA InitType == Init => TypeOK
<1> SUFFICES ASSUME Init PROVE TypeOK
  OBVIOUS
<1>1. IdleDispatcher \in DispatcherRecord
  BY DEF IdleDispatcher, DispatcherRecord
<1>2. 1 \in Episodes /\ Unknown \in 0 .. MaxEpisode /\ 0 \in 0 .. 2
  BY MaxEpisodeAssumption DEF Episodes, Unknown
<1> QED BY <1>1, <1>2 DEF Init, TypeOK, Lifecycle, EpisodeState, NoteState, SyncStep

\* Every step of the anime row keeps the types.
LEMMA AnimeStepType == TypeOK /\ AnimeStep => TypeOK'
<1> SUFFICES ASSUME TypeOK, AnimeStep PROVE TypeOK'
  OBVIOUS
<1>0. 1 \in Episodes /\ Episodes \subseteq 0 .. MaxEpisode /\ Unknown \in 0 .. MaxEpisode
  BY MaxEpisodeAssumption DEF Episodes, Unknown
<1>A. [e \in Episodes |-> "absent"] \in [Episodes -> EpisodeState]
  BY DEF EpisodeState
<1>1. ASSUME NEW n \in Episodes, NEW a \in BOOLEAN, NEW o \in Origins,
             NEW t \in 0 .. MaxEpisode, AddAnime(n, a, o, t)
      PROVE  TypeOK'
  <2>1. o \in 0 .. MaxEpisode
    BY InputsAssumption
  <2>2. ep' \in [Episodes -> EpisodeState]
    BY <1>1 DEF AddAnime, TypeOK, EpisodeState
  <2> QED BY <1>1, <2>1, <2>2
          DEF AddAnime, TypeOK, Lifecycle, dispVars, procVars
<1>2. CASE DeleteAnime
  <2>1. RowsBecome([e \in Episodes |-> "absent"])
    BY <1>2 DEF DeleteAnime
  <2> HIDE DEF RowsBecome
  <2> QED BY <1>0, <1>2, <1>A, <2>1, RowsBecomeType
          DEF DeleteAnime, TypeOK, Lifecycle, SyncStep
<1>3. ASSUME NEW b \in BOOLEAN, SetEnabled(b)
      PROVE  TypeOK'
  BY <1>3 DEF SetEnabled, TypeOK, rowVars, dispVars, procVars
<1>4. ASSUME NEW o \in Origins, CheckMapping(o)
      PROVE  TypeOK'
  BY <1>4, InputsAssumption DEF CheckMapping, TypeOK, animeVars, rowVars, dispVars
<1>5. CASE WriteMapping
  <2>1. total' \in 0 .. MaxEpisode /\ origin' \in 0 .. MaxEpisode
    BY <1>0, <1>5 DEF WriteMapping, TypeOK
  <2> QED BY <1>5, <2>1 DEF WriteMapping, TypeOK, rowVars, dispVars
<1>6. ASSUME NEW t \in 0 .. MaxEpisode, MarkReleased(t)
      PROVE  TypeOK'
  <2> DEFINE s == [e \in Episodes |-> IF Completed(ep[e]) THEN ep[e] ELSE "absent"]
  <2>1. s \in [Episodes -> EpisodeState]
    BY DEF TypeOK, EpisodeState
  <2>2. RowsBecome(s)
    BY <1>6 DEF MarkReleased
  <2>3. total' \in 0 .. MaxEpisode
    BY <1>0, <1>6 DEF MarkReleased
  <2> HIDE DEF s
  <2> QED BY <1>6, <2>1, <2>2, <2>3, RowsBecomeType
          DEF MarkReleased, TypeOK, Lifecycle, procVars
<1>7. ASSUME NEW t \in 0 .. MaxEpisode, Archive(t)
      PROVE  TypeOK'
  <2>1. RowsBecome([e \in Episodes |-> "absent"])
    BY <1>7 DEF Archive
  <2>2. total' \in 0 .. MaxEpisode
    BY <1>0, <1>7 DEF Archive
  <2> QED BY <1>7, <1>A, <2>1, <2>2, RowsBecomeType
          DEF Archive, TypeOK, Lifecycle, procVars
<1>8. ASSUME NEW n \in Episodes, Resume(n)
      PROVE  TypeOK'
  <2>1. ep' \in [Episodes -> EpisodeState]
    BY <1>8 DEF Resume, TypeOK, EpisodeState
  <2> QED BY <1>0, <1>8, <2>1 DEF Resume, TypeOK, Lifecycle, dispVars, procVars
<1>9. ASSUME NEW n \in Episodes, Repair(n)
      PROVE  TypeOK'
  <2>1. ep' \in [Episodes -> EpisodeState]
    BY <1>9 DEF Repair, TypeOK, EpisodeState
  <2>2. note' \in [Episodes -> NoteState]
    BY <1>9 DEF Repair, TypeOK, NoteState
  <2>3. start' \in Episodes /\ watched' \in SUBSET Episodes
    BY <1>9 DEF Repair, RepairedStart, TypeOK
  <2>4. n .. MaxEpisode \in SUBSET Episodes /\ Forget(n .. MaxEpisode)
    BY <1>9, MaxEpisodeAssumption DEF Repair, Episodes
  <2> QED BY <1>9, <2>1, <2>2, <2>3, <2>4, ForgetType DEF Repair, TypeOK, procVars
<1> QED BY <1>1, <1>2, <1>3, <1>4, <1>5, <1>6, <1>7, <1>8, <1>9 DEF AnimeStep

\* Every step on episodes keeps the types.
LEMMA EpisodeStepType == TypeOK /\ EpisodeStep => TypeOK'
<1> SUFFICES ASSUME TypeOK, EpisodeStep PROVE TypeOK'
  OBVIOUS
<1>1. ASSUME NEW e \in Episodes, Confirm(e)
      PROVE  TypeOK'
  <2> DEFINE s == [ep EXCEPT ![e] = "confirmed"]
  <2>1. s \in [Episodes -> EpisodeState]
    BY DEF TypeOK, EpisodeState
  <2>2. RowsBecomeWithNote(Trimmed(s, total), e) /\ Transition(s, total)
    BY <1>1 DEF Confirm
  <2> HIDE DEF s
  <2>3. Trimmed(s, total) \in [Episodes -> EpisodeState]
    BY <2>1, TrimmedType
  <2>4. lifecycle' \in Lifecycle /\ enabled' \in BOOLEAN
    BY <2>2, TransitionType
  <2> QED BY <1>1, <2>2, <2>3, <2>4, RowsBecomeWithNoteType
          DEF Confirm, TypeOK, procVars
<1>2. ASSUME NEW e \in Episodes, EnsureHistory(e)
      PROVE  TypeOK'
  <2>1. ep' \in [Episodes -> EpisodeState]
    BY <1>2 DEF EnsureHistory, TypeOK, EpisodeState
  <2> QED BY <1>2, <2>1 DEF EnsureHistory, TypeOK, animeVars, dispVars, procVars
<1>3. ASSUME NEW e \in Episodes, MarkWatched(e)
      PROVE  TypeOK'
  BY <1>3 DEF MarkWatched, TypeOK, animeVars, dispVars, procVars
<1>4. ASSUME NEW S \in SUBSET Episodes, NEW first \in 0 .. MaxEpisode,
             ImportCollection(S, first)
      PROVE  TypeOK'
  <2> DEFINE s == [e \in Episodes |->
                    IF e \in { f \in S : ~Completed(ep[f]) } THEN "confirmed" ELSE ep[e]]
  <2>1. s \in [Episodes -> EpisodeState]
    BY DEF TypeOK, EpisodeState
  <2>2. RowsBecomeWithNote(Trimmed(s, total), first) /\ Transition(s, total)
    BY <1>4 DEF ImportCollection
  <2> HIDE DEF s
  <2>3. Trimmed(s, total) \in [Episodes -> EpisodeState]
    BY <2>1, TrimmedType
  <2>4. lifecycle' \in Lifecycle /\ enabled' \in BOOLEAN
    BY <2>2, TransitionType
  <2> QED BY <1>4, <2>2, <2>3, <2>4, RowsBecomeWithNoteType
          DEF ImportCollection, TypeOK, procVars
<1> QED BY <1>1, <1>2, <1>3, <1>4 DEF EpisodeStep

\* Every step of the schedule synchronizer keeps the types.
LEMMA SyncStepsType == TypeOK /\ SyncSteps => TypeOK'
<1> SUFFICES ASSUME TypeOK, SyncSteps PROVE TypeOK'
  OBVIOUS
<1>1. CASE SyncStart
  BY <1>1 DEF SyncStart, TypeOK, SyncStep, animeVars, rowVars, dispVars
<1>2. CASE SyncFail
  BY <1>2 DEF SyncFail, TypeOK, SyncStep, animeVars, rowVars, dispVars
<1>3. ASSUME NEW t \in 0 .. MaxEpisode, SyncApply(t)
      PROVE  TypeOK'
  <2> DEFINE T == IF t = Unknown THEN total ELSE t
  <2>1. total' = T /\ RowsBecome(Trimmed(ep, T)) /\ Transition(ep, T)
    BY <1>3 DEF SyncApply
  <2>2. T \in 0 .. MaxEpisode
    BY DEF TypeOK
  <2> HIDE DEF T
  <2>3. Trimmed(ep, T) \in [Episodes -> EpisodeState]
    BY TrimmedType DEF TypeOK
  <2>4. lifecycle' \in Lifecycle /\ enabled' \in BOOLEAN
    BY <2>1, TransitionType
  <2> QED BY <1>3, <2>1, <2>2, <2>3, <2>4, RowsBecomeType
          DEF SyncApply, TypeOK, SyncStep
<1>4. ASSUME NEW B \in Answers, ApplyBatches(B)
      PROVE  TypeOK'
  <2>1. ep' \in [Episodes -> EpisodeState]
    BY <1>4 DEF ApplyBatches, TypeOK, EpisodeState
  <2>2. batches' \in SUBSET Ranges
    BY <1>4, InputsAssumption DEF ApplyBatches, TypeOK
  <2> QED BY <1>4, <2>1, <2>2
          DEF ApplyBatches, TypeOK, SyncStep, animeVars, dispVars
<1> QED BY <1>1, <1>2, <1>3, <1>4 DEF SyncSteps

\* A dispatcher's record after a row is marked is still a record.
LEMMA AfterMarkType ==
  ASSUME NEW r \in DispatcherRecord, NEW e \in Episodes
  PROVE  AfterMark(r, e) \in DispatcherRecord
<1>1. IdleDispatcher \in DispatcherRecord
  BY DEF IdleDispatcher, DispatcherRecord
<1>2. [r EXCEPT !.group = @ \ {e}] \in DispatcherRecord
  BY DEF DispatcherRecord
<1>3. [r EXCEPT !.pc = "send", !.group = {}, !.ok = FALSE] \in DispatcherRecord
  BY DEF DispatcherRecord
<1> QED BY <1>1, <1>2, <1>3 DEF AfterMark

\* Giving one dispatcher a new record keeps the type of disp.
LEMMA NewRecordType ==
  ASSUME TypeOK, NEW d \in Dispatchers, NEW r \in DispatcherRecord
  PROVE  [disp EXCEPT ![d] = r] \in [Dispatchers -> DispatcherRecord]
BY DEF TypeOK

\* The record of a dispatcher that has sent a group, and its counters.
LEMMA SendType ==
  ASSUME TypeOK, NEW d \in Dispatchers, NEW g \in SUBSET Episodes, NEW b \in BOOLEAN
  PROVE  /\ Taken(d, g, b) => disp' \in [Dispatchers -> DispatcherRecord]
         /\ Deliver(d, g) => announced' \in [Episodes -> 0 .. 2]
<1>1. disp[d] \in DispatcherRecord
  BY DEF TypeOK
<1>2. [disp[d] EXCEPT !.pc = "mark", !.queue = @ \ {g}, !.group = g, !.ok = b]
        \in DispatcherRecord
  BY <1>1 DEF DispatcherRecord
<1>3. Taken(d, g, b) => disp' \in [Dispatchers -> DispatcherRecord]
  BY <1>2, NewRecordType DEF Taken
<1>4. Deliver(d, g) => announced' \in [Episodes -> 0 .. 2]
  BY DEF Deliver, TypeOK
<1> QED BY <1>3, <1>4

\* Every step of a dispatcher keeps the types.
LEMMA DispatchStepType ==
  ASSUME TypeOK, NEW d \in Dispatchers, DispatchStep(d)
  PROVE  TypeOK'
<1>0. disp[d] \in DispatcherRecord /\ IdleDispatcher \in DispatcherRecord
  BY DEF TypeOK, IdleDispatcher, DispatcherRecord
<1>1. ASSUME NEW P \in SUBSET Episodes, DispatchStart(d, P)
      PROVE  TypeOK'
  <2>1. PICK Q \in SUBSET SUBSET P :
          disp' = [disp EXCEPT ![d] = [IdleDispatcher EXCEPT !.pc = "send", !.queue = Q]]
    BY <1>1 DEF DispatchStart
  <2>2. [IdleDispatcher EXCEPT !.pc = "send", !.queue = Q] \in DispatcherRecord
    BY <1>0 DEF DispatcherRecord
  <2>3. disp' \in [Dispatchers -> DispatcherRecord]
    BY <2>1, <2>2, NewRecordType
  <2> QED BY <1>1, <2>3 DEF DispatchStart, TypeOK, animeVars, rowVars, procVars
<1>2. ASSUME NEW g \in SUBSET Episodes, SendOk(d, g)
      PROVE  TypeOK'
  BY <1>2, SendType DEF SendOk, TypeOK, animeVars, rowVars, procVars
<1>3. ASSUME NEW g \in SUBSET Episodes, SendFail(d, g)
      PROVE  TypeOK'
  BY <1>3, SendType DEF SendFail, TypeOK, animeVars, rowVars, procVars
<1>4. ASSUME NEW g \in SUBSET Episodes, SendTimeout(d, g)
      PROVE  TypeOK'
  BY <1>4, SendType DEF SendTimeout, TypeOK, animeVars, rowVars, procVars
<1>5. ASSUME NEW e \in Episodes, MarkFailed(d, e)
      PROVE  TypeOK'
  <2>1. disp' \in [Dispatchers -> DispatcherRecord]
    BY <1>0, <1>5, AfterMarkType, NewRecordType DEF MarkFailed
  <2> QED BY <1>5, <2>1 DEF MarkFailed, TypeOK, animeVars, rowVars, procVars
<1>6. ASSUME NEW e \in Episodes, MarkSent(d, e)
      PROVE  TypeOK'
  <2> DEFINE s == Trimmed([ep EXCEPT ![e] = "notified"], total)
             next == [f \in Episodes |->
                       IF /\ f = e + 1 /\ s[f] = "absent"
                          /\ ~Settles(s, total) /\ Advances(e, total)
                       THEN "open" ELSE s[f]]
             gone == Absent(next)
  <2>1. s \in [Episodes -> EpisodeState]
    BY TrimmedType DEF TypeOK, EpisodeState
  <2>2. next \in [Episodes -> EpisodeState]
    BY <2>1 DEF EpisodeState
  <2>3. /\ ep' = next
        /\ watched' = watched \ gone
        /\ note' = [f \in Episodes |->
                     IF f \in gone THEN "none" ELSE IF f = e THEN "sent" ELSE note[f]]
        /\ Transition(s, total)
        /\ disp' = [c \in Dispatchers |->
                     IF c = d THEN AfterMark(disp[d], e)
                     ELSE [disp[c] EXCEPT !.stale = @ \cup (gone \cap Held(c))]]
        /\ announced' = [f \in Episodes |-> IF f \in gone THEN 0 ELSE announced[f]]
        /\ unmarked' = unmarked \ gone
        /\ UNCHANGED <<auto, total, origin, start, batches, procVars>>
    BY <1>6 DEF MarkSent
  <2>4. gone \in SUBSET Episodes
    BY DEF Absent
  <2> HIDE DEF s, next, gone
  <2>5. lifecycle' \in Lifecycle /\ enabled' \in BOOLEAN
    BY <2>3, TransitionType
  <2>6. ASSUME NEW c \in Dispatchers
        PROVE  [disp[c] EXCEPT !.stale = @ \cup (gone \cap Held(c))] \in DispatcherRecord
    <3>1. disp[c] \in DispatcherRecord
      BY DEF TypeOK
    <3>2. disp[c].stale \cup (gone \cap Held(c)) \in SUBSET Episodes
      BY <2>4, <3>1 DEF DispatcherRecord
    <3> QED BY <3>1, <3>2 DEF DispatcherRecord
  <2>7. disp' \in [Dispatchers -> DispatcherRecord]
    BY <1>0, <2>3, <2>6, AfterMarkType
  <2>8. note' \in [Episodes -> NoteState] /\ announced' \in [Episodes -> 0 .. 2]
    BY <2>3 DEF TypeOK, NoteState
  <2> QED BY <2>2, <2>3, <2>5, <2>7, <2>8 DEF TypeOK, procVars
<1>7. CASE DispatchExit(d)
  <2>1. disp' \in [Dispatchers -> DispatcherRecord]
    BY <1>0, <1>7, NewRecordType DEF DispatchExit
  <2>2. unmarked' \in SUBSET Episodes
    BY <1>0, <1>7 DEF DispatchExit, DispatcherRecord, TypeOK
  <2> QED BY <1>7, <2>1, <2>2 DEF DispatchExit, TypeOK, animeVars, rowVars, procVars
<1> QED BY <1>1, <1>2, <1>3, <1>4, <1>5, <1>6, <1>7 DEF DispatchStep

\* Every variable keeps its type in every step of the program.
LEMMA NextType == TypeOK /\ [Next]_vars => TypeOK'
<1> SUFFICES ASSUME TypeOK, [Next]_vars PROVE TypeOK'
  OBVIOUS
<1>1. CASE UNCHANGED vars
  BY <1>1 DEF vars, animeVars, rowVars, dispVars, procVars, TypeOK
<1>2. CASE Next
  BY <1>2, AnimeStepType, EpisodeStepType, SyncStepsType, DispatchStepType DEF Next
<1> QED BY <1>1, <1>2

\* Type correctness of the whole specification.
THEOREM TypeCorrect == Spec => []TypeOK
BY InitType, NextType, PTL DEF Spec

-----------------------------------------------------------------------------
(* The inductive invariant behind the safety properties.                   *)

\* A dispatcher's ids that are not stale are ids of existing rows.
HeldRowsExist ==
  \A d \in Dispatchers : \A e \in Held(d) \ disp[d].stale : note[e] # "none"

\* What a dispatcher is about to mark as sent has been delivered.
DeliveredBeforeMark ==
  \A d \in Dispatchers : disp[d].pc = "mark" /\ disp[d].ok =>
    \A e \in disp[d].group \ disp[d].stale : announced[e] >= 1

DispatchInv == HeldRowsExist /\ SentWasDelivered /\ DeliveredBeforeMark

IInv == TypeOK /\ RowsAgree /\ FinishedIsQuiet /\ TotalFitsMapping /\ DispatchInv

\* The initial state satisfies the invariant.
LEMMA InitIInv == Init => IInv
<1> SUFFICES ASSUME Init PROVE IInv
  OBVIOUS
<1>1. TypeOK
  BY InitType
<1>2. RowsAgree /\ FinishedIsQuiet
  BY DEF Init, RowsAgree, FinishedIsQuiet
<1>3. TotalFitsMapping
  BY MaxEpisodeAssumption DEF Init, TotalFitsMapping, LegalTotal, FinalEpisode, Unknown
<1>4. DispatchInv
  BY DEF Init, DispatchInv, HeldRowsExist, SentWasDelivered, DeliveredBeforeMark,
         Held, IdleDispatcher
<1> QED BY <1>1, <1>2, <1>3, <1>4 DEF IInv

-----------------------------------------------------------------------------
(* RowsAgree: what a rewriting of the rows has to respect.                 *)

\* In s an episode is gone, unchanged, or newly completed.
Respects(s) ==
  \A e \in Episodes : \/ s[e] = "absent"
                      \/ s[e] = ep[e]
                      \/ ~Completed(ep[e]) /\ Completed(s[e])

\* Trimming respects what it is given.
LEMMA TrimmedRespects ==
  ASSUME NEW s \in [Episodes -> EpisodeState], NEW t, Respects(s)
  PROVE  Respects(Trimmed(s, t))
BY DEF Respects, Trimmed

\* RowsBecome keeps RowsAgree.
LEMMA RowsBecomeAgree ==
  ASSUME TypeOK, RowsAgree, NEW s \in [Episodes -> EpisodeState], Respects(s),
         RowsBecome(s)
  PROVE  RowsAgree'
<1> SUFFICES ASSUME NEW e \in Episodes
             PROVE  /\ note'[e] = "pending" => ep'[e] = "confirmed"
                    /\ note'[e] = "sent" => ep'[e] = "notified"
                    /\ e \in watched' => Completed(ep'[e])
  BY DEF RowsAgree
<1>1. /\ ep'[e] = s[e]
      /\ note'[e] = IF s[e] = "absent" THEN "none" ELSE note[e]
      /\ e \in watched' => e \in watched /\ s[e] # "absent"
  BY DEF RowsBecome, Absent
<1>2. CASE s[e] = "absent"
  BY <1>1, <1>2
<1>3. CASE s[e] = ep[e]
  BY <1>1, <1>3 DEF RowsAgree
<1>4. CASE ~Completed(ep[e]) /\ Completed(s[e])
  BY <1>1, <1>4 DEF RowsAgree, Completed
<1> QED BY <1>2, <1>3, <1>4 DEF Respects

\* RowsBecomeWithNote keeps RowsAgree when it announces a confirmed episode.
LEMMA RowsBecomeWithNoteAgree ==
  ASSUME TypeOK, RowsAgree, NEW s \in [Episodes -> EpisodeState], Respects(s),
         NEW n, n \in Episodes => s[n] \in {"absent", "confirmed"},
         RowsBecomeWithNote(s, n)
  PROVE  RowsAgree'
<1> SUFFICES ASSUME NEW e \in Episodes
             PROVE  /\ note'[e] = "pending" => ep'[e] = "confirmed"
                    /\ note'[e] = "sent" => ep'[e] = "notified"
                    /\ e \in watched' => Completed(ep'[e])
  BY DEF RowsAgree
<1>1. /\ ep'[e] = s[e]
      /\ note'[e] = IF s[e] = "absent" THEN "none"
                    ELSE IF e = n /\ note[e] = "none" THEN "pending" ELSE note[e]
      /\ e \in watched' => e \in watched /\ s[e] # "absent"
  BY DEF RowsBecomeWithNote, Absent
<1>2. CASE s[e] = "absent"
  BY <1>1, <1>2
<1>3. CASE s[e] # "absent" /\ s[e] = ep[e]
  BY <1>1, <1>3 DEF RowsAgree
<1>4. CASE ~Completed(ep[e]) /\ Completed(s[e])
  BY <1>1, <1>4 DEF RowsAgree, Completed
<1> QED BY <1>2, <1>3, <1>4 DEF Respects

-----------------------------------------------------------------------------
(* DispatchInv: what the rest of the program may do to the rows while a    *)
(* dispatcher holds their ids.                                             *)

\* Held ids after Forget: the same, with the deleted ones stale.
LEMMA ForgetHeld ==
  ASSUME TypeOK, NEW gone \in SUBSET Episodes, Forget(gone), NEW d \in Dispatchers
  PROVE  /\ Held(d)' = Held(d)
         /\ disp'[d].pc = disp[d].pc /\ disp'[d].ok = disp[d].ok
         /\ disp'[d].group = disp[d].group
         /\ disp'[d].stale = disp[d].stale \cup (gone \cap Held(d))
<1>1. disp[d] \in DispatcherRecord
  BY DEF TypeOK
<1>2. disp'[d] = [disp[d] EXCEPT !.stale = disp[d].stale \cup (gone \cap Held(d))]
  BY DEF Forget
<1> QED BY <1>1, <1>2 DEF Held, DispatcherRecord

\* An operation that deletes the notification rows of gone, and otherwise at
\* most adds pending rows where there were none, keeps DispatchInv.
LEMMA ForgetDispatchInv ==
  ASSUME TypeOK, DispatchInv, NEW gone \in SUBSET Episodes, Forget(gone),
         \A e \in Episodes :
           IF e \in gone THEN note'[e] = "none"
           ELSE note'[e] \in {note[e], "pending"} /\ (note[e] # "none" => note'[e] = note[e])
  PROVE  DispatchInv'
<1>1. ASSUME NEW d \in Dispatchers, NEW e \in Held(d)', e \notin disp'[d].stale
      PROVE  note'[e] # "none"
  <2>1. e \in Held(d) /\ e \notin disp[d].stale /\ e \notin gone
    BY <1>1, ForgetHeld
  <2>2. e \in Episodes
    <3>1. disp[d] \in DispatcherRecord
      BY DEF TypeOK
    <3> QED BY <2>1, <3>1 DEF Held, DispatcherRecord
  <2> QED BY <2>1, <2>2 DEF DispatchInv, HeldRowsExist
<1>2. ASSUME NEW e \in Episodes, note'[e] = "sent"
      PROVE  announced'[e] >= 1
  <2>1. e \notin gone /\ note[e] = "sent"
    BY <1>2
  <2> QED BY <2>1 DEF Forget, DispatchInv, SentWasDelivered
<1>3. ASSUME NEW d \in Dispatchers, disp'[d].pc = "mark", disp'[d].ok,
             NEW e \in disp'[d].group, e \notin disp'[d].stale
      PROVE  announced'[e] >= 1
  <2>1. /\ disp[d].pc = "mark" /\ disp[d].ok /\ e \in disp[d].group
        /\ e \notin disp[d].stale /\ e \notin gone
    <3>1. /\ disp'[d].pc = disp[d].pc /\ disp'[d].ok = disp[d].ok
          /\ disp'[d].group = disp[d].group
          /\ disp'[d].stale = disp[d].stale \cup (gone \cap Held(d))
      BY ForgetHeld
    <3>2. e \in Held(d)
      BY <1>3, <3>1 DEF Held
    <3> QED BY <1>3, <3>1, <3>2
  <2>2. e \in Episodes
    BY <2>1 DEF TypeOK, DispatcherRecord
  <2> QED BY <2>1, <2>2 DEF Forget, DispatchInv, DeliveredBeforeMark
<1>4. HeldRowsExist'
  BY <1>1 DEF HeldRowsExist
<1>5. DeliveredBeforeMark'
  BY <1>3 DEF DeliveredBeforeMark
<1> QED BY <1>2, <1>4, <1>5 DEF DispatchInv, SentWasDelivered

\* RowsBecome and RowsBecomeWithNote keep DispatchInv.
LEMMA RowsBecomeDispatchInv ==
  ASSUME TypeOK, DispatchInv, NEW s, NEW n,
         RowsBecome(s) \/ RowsBecomeWithNote(s, n)
  PROVE  DispatchInv'
<1>1. Absent(s) \in SUBSET Episodes /\ Forget(Absent(s))
  BY DEF Absent, RowsBecome, RowsBecomeWithNote
<1>2. \A e \in Episodes :
        IF e \in Absent(s) THEN note'[e] = "none"
        ELSE note'[e] \in {note[e], "pending"} /\ (note[e] # "none" => note'[e] = note[e])
  BY DEF Absent, RowsBecome, RowsBecomeWithNote
<1> QED BY <1>1, <1>2, ForgetDispatchInv

\* A step that touches neither dispatchers nor notification rows keeps it.
LEMMA UnchangedDispatchInv ==
  ASSUME DispatchInv, UNCHANGED <<note, dispVars>>
  PROVE  DispatchInv'
BY DEF DispatchInv, HeldRowsExist, SentWasDelivered, DeliveredBeforeMark, Held, dispVars

-----------------------------------------------------------------------------
(* Every step keeps the invariant.                                         *)

Parts == RowsAgree /\ FinishedIsQuiet /\ TotalFitsMapping /\ DispatchInv

\* Steps on the anime row.
LEMMA AnimeStepParts == IInv /\ AnimeStep => Parts'
<1> SUFFICES ASSUME IInv, AnimeStep PROVE Parts'
  OBVIOUS
<1> USE DEF IInv
<1>A. /\ [e \in Episodes |-> "absent"] \in [Episodes -> EpisodeState]
      /\ Respects([e \in Episodes |-> "absent"])
  BY DEF EpisodeState, Respects
<1>1. ASSUME NEW n \in Episodes, NEW a \in BOOLEAN, NEW o \in Origins,
             NEW t \in 0 .. MaxEpisode, AddAnime(n, a, o, t)
      PROVE  Parts'
  <2>1. RowsAgree'
    BY <1>1 DEF AddAnime, RowsAgree, FinishedIsQuiet, TypeOK, Completed
  <2>2. FinishedIsQuiet'
    BY <1>1 DEF AddAnime, FinishedIsQuiet
  <2>3. TotalFitsMapping'
    BY <1>1 DEF AddAnime, TotalFitsMapping
  <2>4. DispatchInv'
    BY <1>1, UnchangedDispatchInv DEF AddAnime
  <2> QED BY <2>1, <2>2, <2>3, <2>4 DEF Parts
<1>2. CASE DeleteAnime
  <2>1. RowsBecome([e \in Episodes |-> "absent"])
    BY <1>2 DEF DeleteAnime
  <2>2. RowsAgree' /\ DispatchInv'
    BY <1>A, <2>1, RowsBecomeAgree, RowsBecomeDispatchInv
  <2>3. FinishedIsQuiet'
    BY <1>2 DEF DeleteAnime, FinishedIsQuiet, RowsBecome
  <2>4. TotalFitsMapping'
    BY <1>2, MaxEpisodeAssumption
       DEF DeleteAnime, TotalFitsMapping, LegalTotal, FinalEpisode, Unknown
  <2> QED BY <2>2, <2>3, <2>4 DEF Parts
<1>3. ASSUME NEW b \in BOOLEAN, SetEnabled(b)
      PROVE  Parts'
  <2>1. RowsAgree' /\ FinishedIsQuiet' /\ TotalFitsMapping'
    BY <1>3 DEF SetEnabled, RowsAgree, FinishedIsQuiet, TotalFitsMapping, rowVars
  <2>2. DispatchInv'
    BY <1>3, UnchangedDispatchInv DEF SetEnabled, rowVars
  <2> QED BY <2>1, <2>2 DEF Parts
<1>4. ASSUME NEW o \in Origins, CheckMapping(o)
      PROVE  Parts'
  <2>1. RowsAgree' /\ FinishedIsQuiet' /\ TotalFitsMapping'
    BY <1>4 DEF CheckMapping, RowsAgree, FinishedIsQuiet, TotalFitsMapping, rowVars, animeVars
  <2>2. DispatchInv'
    BY <1>4, UnchangedDispatchInv DEF CheckMapping, rowVars
  <2> QED BY <2>1, <2>2 DEF Parts
<1>5. CASE WriteMapping
  <2>1. RowsAgree'
    BY <1>5 DEF WriteMapping, RowsAgree, rowVars
  <2>2. FinishedIsQuiet'
    BY <1>5 DEF WriteMapping, FinishedIsQuiet, rowVars
  <2>3. TotalFitsMapping'
    BY <1>5, MaxEpisodeAssumption
       DEF WriteMapping, TotalFitsMapping, LegalTotal, FinalEpisode, Unknown
  <2>4. DispatchInv'
    BY <1>5, UnchangedDispatchInv DEF WriteMapping, rowVars
  <2> QED BY <2>1, <2>2, <2>3, <2>4 DEF Parts
<1>6. ASSUME NEW t \in 0 .. MaxEpisode, MarkReleased(t)
      PROVE  Parts'
  <2> DEFINE s == [e \in Episodes |-> IF Completed(ep[e]) THEN ep[e] ELSE "absent"]
  <2>1. s \in [Episodes -> EpisodeState] /\ Respects(s)
    BY DEF TypeOK, EpisodeState, Respects
  <2>2. RowsBecome(s)
    BY <1>6 DEF MarkReleased
  <2>3. \A e \in Episodes : ep'[e] # "open"
    BY <2>2 DEF RowsBecome, Completed
  <2> HIDE DEF s
  <2>4. RowsAgree' /\ DispatchInv'
    BY <2>1, <2>2, RowsBecomeAgree, RowsBecomeDispatchInv
  <2>5. FinishedIsQuiet'
    BY <1>6, <2>3 DEF MarkReleased, FinishedIsQuiet
  <2>6. TotalFitsMapping'
    BY <1>6 DEF MarkReleased, TotalFitsMapping
  <2> QED BY <2>4, <2>5, <2>6 DEF Parts
<1>7. ASSUME NEW t \in 0 .. MaxEpisode, Archive(t)
      PROVE  Parts'
  <2>1. RowsBecome([e \in Episodes |-> "absent"])
    BY <1>7 DEF Archive
  <2>2. RowsAgree' /\ DispatchInv'
    BY <1>A, <2>1, RowsBecomeAgree, RowsBecomeDispatchInv
  <2>3. FinishedIsQuiet' /\ TotalFitsMapping'
    BY <1>7 DEF Archive, FinishedIsQuiet, RowsBecome, TotalFitsMapping
  <2> QED BY <2>2, <2>3 DEF Parts
<1>8. ASSUME NEW n \in Episodes, Resume(n)
      PROVE  Parts'
  <2>1. RowsAgree'
    BY <1>8 DEF Resume, RowsAgree, TypeOK, Completed
  <2>2. FinishedIsQuiet'
    BY <1>8 DEF Resume, FinishedIsQuiet
  <2>3. TotalFitsMapping'
    BY <1>8, MaxEpisodeAssumption
       DEF Resume, TotalFitsMapping, LegalTotal, FinalEpisode, Unknown
  <2>4. DispatchInv'
    BY <1>8, UnchangedDispatchInv DEF Resume
  <2> QED BY <2>1, <2>2, <2>3, <2>4 DEF Parts
<1>9. ASSUME NEW n \in Episodes, Repair(n)
      PROVE  Parts'
  <2>1. RowsAgree'
    BY <1>9 DEF Repair, RowsAgree, TypeOK, Episodes
  <2>2. FinishedIsQuiet'
    BY <1>9 DEF Repair, FinishedIsQuiet
  <2>3. TotalFitsMapping'
    BY <1>9 DEF Repair, TotalFitsMapping
  <2>4. n .. MaxEpisode \in SUBSET Episodes /\ Forget(n .. MaxEpisode)
    BY <1>9, MaxEpisodeAssumption DEF Repair, Episodes
  <2>5. \A e \in Episodes : note'[e] = IF e \in n .. MaxEpisode THEN "none" ELSE note[e]
    BY <1>9, MaxEpisodeAssumption DEF Repair, Episodes
  <2>6. DispatchInv'
    BY <2>4, <2>5, ForgetDispatchInv
  <2> QED BY <2>1, <2>2, <2>3, <2>6 DEF Parts
<1> QED BY <1>1, <1>2, <1>3, <1>4, <1>5, <1>6, <1>7, <1>8, <1>9 DEF AnimeStep

\* A season the transition settles has no open episode left.
LEMMA SettledHasNoOpen ==
  ASSUME NEW s \in [Episodes -> EpisodeState], NEW t \in 0 .. MaxEpisode,
         Settles(s, t), origin = Unknown, NEW e \in Episodes
  PROVE  Trimmed(s, t)[e] # "open"
<1>1. FirstEpisode(origin) = 1 /\ FinalEpisode(t, origin) = t /\ t # Unknown
  BY DEF Settles, SeasonReleased, FirstEpisode, FinalEpisode, Unknown
<1>2. CASE e <= t
  <2>1. Completed(s[e])
    BY <1>1, <1>2 DEF Settles, SeasonReleased, Episodes
  <2> QED BY <2>1 DEF Trimmed, Completed
<1>3. CASE e > t
  BY <1>1, <1>3 DEF Trimmed, Settles, Completed
<1> QED BY <1>2, <1>3 DEF Episodes

\* An operation that ends with the transition leaves a finished anime quiet.
LEMMA TransitionQuiet ==
  ASSUME TypeOK, FinishedIsQuiet, lifecycle \in {"tracking", "released_complete"},
         NEW s \in [Episodes -> EpisodeState], NEW t \in 0 .. MaxEpisode,
         Transition(s, t), origin' = origin,
         Settles(s, t) => ep' = Trimmed(s, t),
         lifecycle # "tracking" =>
           \A e \in Episodes : ep'[e] = "open" => ep[e] = "open"
  PROVE  FinishedIsQuiet'
<1>1. CASE Settles(s, t)
  <2>1. lifecycle' = "released_complete" /\ ~enabled'
    BY <1>1 DEF Transition
  <2>2. origin' = Unknown => \A e \in Episodes : ep'[e] # "open"
    BY <1>1, SettledHasNoOpen
  <2> QED BY <2>1, <2>2 DEF FinishedIsQuiet
<1>2. CASE ~Settles(s, t)
  <2>1. lifecycle' = lifecycle /\ enabled' = enabled
    BY <1>2 DEF Transition, TypeOK
  <2> QED BY <2>1 DEF FinishedIsQuiet
<1> QED BY <1>1, <1>2

\* Steps on episodes.
LEMMA EpisodeStepParts == IInv /\ EpisodeStep => Parts'
<1> SUFFICES ASSUME IInv, EpisodeStep PROVE Parts'
  OBVIOUS
<1> USE DEF IInv
<1>1. ASSUME NEW e \in Episodes, Confirm(e)
      PROVE  Parts'
  <2> DEFINE s == [ep EXCEPT ![e] = "confirmed"]
  <2>1. /\ RowsBecomeWithNote(Trimmed(s, total), e) /\ Transition(s, total)
        /\ lifecycle = "tracking" /\ ep[e] = "open"
    BY <1>1 DEF Confirm, Monitorable, InScope
  <2>2. s \in [Episodes -> EpisodeState] /\ Respects(s) /\ s[e] = "confirmed"
    BY <2>1 DEF TypeOK, EpisodeState, Respects, Completed
  <2> HIDE DEF s
  <2>3. /\ Trimmed(s, total) \in [Episodes -> EpisodeState]
        /\ Respects(Trimmed(s, total)) /\ Trimmed(s, total)[e] = "confirmed"
    BY <2>2, TrimmedType, TrimmedRespects, TrimmedKeepsCompleted DEF Completed
  <2>4. RowsAgree' /\ DispatchInv'
    BY <2>1, <2>3, RowsBecomeWithNoteAgree, RowsBecomeDispatchInv
  <2>5. ep' = Trimmed(s, total) /\ total \in 0 .. MaxEpisode
    BY <2>1 DEF RowsBecomeWithNote, TypeOK
  <2>6. FinishedIsQuiet' /\ TotalFitsMapping'
    BY <1>1, <2>1, <2>2, <2>5, TransitionQuiet DEF Confirm, TotalFitsMapping
  <2> QED BY <2>4, <2>6 DEF Parts
<1>2. ASSUME NEW e \in Episodes, EnsureHistory(e)
      PROVE  Parts'
  <2>1. RowsAgree'
    BY <1>2 DEF EnsureHistory, RowsAgree, TypeOK, Completed
  <2>2. FinishedIsQuiet' /\ TotalFitsMapping'
    BY <1>2 DEF EnsureHistory, FinishedIsQuiet, TotalFitsMapping, TypeOK, animeVars
  <2>3. DispatchInv'
    BY <1>2, UnchangedDispatchInv DEF EnsureHistory
  <2> QED BY <2>1, <2>2, <2>3 DEF Parts
<1>3. ASSUME NEW e \in Episodes, MarkWatched(e)
      PROVE  Parts'
  <2>1. RowsAgree' /\ FinishedIsQuiet' /\ TotalFitsMapping'
    BY <1>3 DEF MarkWatched, RowsAgree, FinishedIsQuiet, TotalFitsMapping, animeVars
  <2>2. DispatchInv'
    BY <1>3, UnchangedDispatchInv DEF MarkWatched
  <2> QED BY <2>1, <2>2 DEF Parts
<1>4. ASSUME NEW S \in SUBSET Episodes, NEW first \in 0 .. MaxEpisode,
             ImportCollection(S, first)
      PROVE  Parts'
  <2> DEFINE fresh == { e \in S : ~Completed(ep[e]) }
             s == [e \in Episodes |-> IF e \in fresh THEN "confirmed" ELSE ep[e]]
  <2>1. /\ RowsBecomeWithNote(Trimmed(s, total), first) /\ Transition(s, total)
        /\ lifecycle \in {"tracking", "released_complete"}
        /\ first \in Episodes => first \in fresh
    BY <1>4 DEF ImportCollection, Episodes
  <2>2. s \in [Episodes -> EpisodeState] /\ Respects(s)
    BY DEF TypeOK, EpisodeState, Respects, Completed
  <2>3. \A e \in Episodes : s[e] = "open" => ep[e] = "open"
    OBVIOUS
  <2>4. first \in Episodes => s[first] = "confirmed"
    BY <2>1
  <2> HIDE DEF s
  <2>5. /\ Trimmed(s, total) \in [Episodes -> EpisodeState]
        /\ Respects(Trimmed(s, total))
        /\ first \in Episodes => Trimmed(s, total)[first] = "confirmed"
    BY <2>2, <2>4, TrimmedType, TrimmedRespects, TrimmedKeepsCompleted DEF Completed
  <2>6. RowsAgree' /\ DispatchInv'
    BY <2>1, <2>5, RowsBecomeWithNoteAgree, RowsBecomeDispatchInv
  <2>7. ep' = Trimmed(s, total) /\ total \in 0 .. MaxEpisode
    BY <2>1 DEF RowsBecomeWithNote, TypeOK
  <2>8. \A e \in Episodes : ep'[e] = "open" => ep[e] = "open"
    BY <2>3, <2>7 DEF Trimmed
  <2>9. FinishedIsQuiet' /\ TotalFitsMapping'
    BY <1>4, <2>1, <2>2, <2>7, <2>8, TransitionQuiet DEF ImportCollection, TotalFitsMapping
  <2> QED BY <2>6, <2>9 DEF Parts
<1> QED BY <1>1, <1>2, <1>3, <1>4 DEF EpisodeStep

\* Steps of the schedule synchronizer.
LEMMA SyncStepsParts == IInv /\ SyncSteps => Parts'
<1> SUFFICES ASSUME IInv, SyncSteps PROVE Parts'
  OBVIOUS
<1> USE DEF IInv
<1>1. CASE SyncStart \/ SyncFail
  <2>1. RowsAgree' /\ FinishedIsQuiet' /\ TotalFitsMapping'
    BY <1>1 DEF SyncStart, SyncFail, RowsAgree, FinishedIsQuiet, TotalFitsMapping,
                animeVars, rowVars
  <2>2. DispatchInv'
    BY <1>1, UnchangedDispatchInv DEF SyncStart, SyncFail, rowVars
  <2> QED BY <2>1, <2>2 DEF Parts
<1>2. ASSUME NEW t \in 0 .. MaxEpisode, SyncApply(t)
      PROVE  Parts'
  <2> DEFINE T == IF t = Unknown THEN total ELSE t
  <2>1. /\ total' = T /\ RowsBecome(Trimmed(ep, T)) /\ Transition(ep, T)
        /\ lifecycle = "tracking" /\ LegalTotal(T, origin) /\ origin' = origin
    BY <1>2 DEF SyncApply
  <2>2. T \in 0 .. MaxEpisode
    BY DEF TypeOK
  <2> HIDE DEF T
  <2>3. Respects(ep) /\ ep \in [Episodes -> EpisodeState]
    BY DEF Respects, TypeOK
  <2>4. Respects(Trimmed(ep, T)) /\ Trimmed(ep, T) \in [Episodes -> EpisodeState]
    BY <2>3, TrimmedType, TrimmedRespects
  <2>5. RowsAgree' /\ DispatchInv'
    BY <2>1, <2>4, RowsBecomeAgree, RowsBecomeDispatchInv
  <2>6. ep' = Trimmed(ep, T)
    BY <2>1 DEF RowsBecome
  <2>7. FinishedIsQuiet' /\ TotalFitsMapping'
    BY <2>1, <2>2, <2>3, <2>6, TransitionQuiet DEF TotalFitsMapping
  <2> QED BY <2>5, <2>7 DEF Parts
<1>3. ASSUME NEW B \in Answers, ApplyBatches(B)
      PROVE  Parts'
  <2>1. \A e \in Episodes :
          ep'[e] = ep[e] \/ (ep[e] = "absent" /\ ep'[e] = "open" /\ HasActive
                             /\ lifecycle # "archived")
    BY <1>3 DEF ApplyBatches, TypeOK, IsActive, HasActive
  <2>2. RowsAgree'
    BY <1>3, <2>1 DEF ApplyBatches, RowsAgree, Completed
  <2>3. FinishedIsQuiet'
    BY <1>3, <2>1 DEF ApplyBatches, FinishedIsQuiet, HasActive, InScope, animeVars
  <2>4. TotalFitsMapping'
    BY <1>3 DEF ApplyBatches, TotalFitsMapping, animeVars
  <2>5. DispatchInv'
    BY <1>3, UnchangedDispatchInv DEF ApplyBatches
  <2> QED BY <2>2, <2>3, <2>4, <2>5 DEF Parts
<1> QED BY <1>1, <1>2, <1>3 DEF SyncSteps

\* What marking a row leaves the dispatcher holding.
LEMMA AfterMarkHeld ==
  ASSUME NEW r \in DispatcherRecord, NEW e \in Episodes
  PROVE  LET q == AfterMark(r, e) IN
         /\ (UNION q.queue) \cup q.group \subseteq (UNION r.queue) \cup r.group
         /\ q.group \subseteq r.group
         /\ q.stale = r.stale \/ q = IdleDispatcher
         /\ q.pc = "mark" => r.pc = "mark" /\ q.ok = r.ok /\ q.stale = r.stale
BY DEF AfterMark, IdleDispatcher, DispatcherRecord

\* A dispatcher's step that leaves the notification rows and the counters of
\* deliveries alone, and holds no more ids than before, keeps DispatchInv.
LEMMA SmallerRecord ==
  ASSUME TypeOK, DispatchInv, NEW d \in Dispatchers, NEW r \in DispatcherRecord,
         disp' = [disp EXCEPT ![d] = r], note' = note,
         announced' \in [Episodes -> 0 .. 2],
         \A e \in Episodes : announced'[e] >= announced[e],
         (UNION r.queue) \cup r.group \subseteq Held(d),
         r.stale = disp[d].stale \/ r = IdleDispatcher,
         r.pc = "mark" /\ r.ok => \A e \in r.group \ r.stale : announced'[e] >= 1
  PROVE  DispatchInv'
<1>1. \A c \in Dispatchers : disp'[c] = IF c = d THEN r ELSE disp[c]
  BY DEF TypeOK
<1>2. \A c \in Dispatchers : Held(c) \subseteq Episodes
  <2> SUFFICES ASSUME NEW c \in Dispatchers PROVE Held(c) \subseteq Episodes
    OBVIOUS
  <2>1. disp[c] \in DispatcherRecord
    BY DEF TypeOK
  <2> QED BY <2>1 DEF Held, DispatcherRecord
<1>3. HeldRowsExist'
  <2> SUFFICES ASSUME NEW c \in Dispatchers, NEW e \in Held(c)', e \notin disp'[c].stale
               PROVE  note'[e] # "none"
    BY DEF HeldRowsExist
  <2>1. e \in Held(c) /\ e \notin disp[c].stale
    BY <1>1 DEF Held, IdleDispatcher
  <2> QED BY <2>1 DEF DispatchInv, HeldRowsExist
<1>4. SentWasDelivered'
  BY DEF DispatchInv, SentWasDelivered, TypeOK
<1>5. DeliveredBeforeMark'
  <2> SUFFICES ASSUME NEW c \in Dispatchers, disp'[c].pc = "mark", disp'[c].ok,
                      NEW e \in disp'[c].group, e \notin disp'[c].stale
               PROVE  announced'[e] >= 1
    BY DEF DeliveredBeforeMark
  <2>1. CASE c = d
    BY <1>1, <2>1
  <2>2. CASE c # d
    <3>1. disp[c].pc = "mark" /\ disp[c].ok /\ e \in disp[c].group /\ e \notin disp[c].stale
      BY <1>1, <2>2
    <3>2. announced[e] >= 1 /\ e \in Episodes
      BY <1>2, <3>1 DEF DispatchInv, DeliveredBeforeMark, Held
    <3> QED BY <3>2 DEF TypeOK
  <2> QED BY <2>1, <2>2
<1> QED BY <1>3, <1>4, <1>5 DEF DispatchInv

\* Delivering a message only counts up, and counts every row that exists.
LEMMA DeliverCounts ==
  ASSUME TypeOK, NEW d \in Dispatchers, NEW g \in SUBSET Episodes, Deliver(d, g)
  PROVE  /\ \A e \in Episodes : announced'[e] >= announced[e]
         /\ \A e \in g \ disp[d].stale : announced'[e] >= 1
BY DEF Deliver, TypeOK

\* Steps of a dispatcher other than marking a row as sent.
LEMMA DispatchStepParts ==
  ASSUME IInv, NEW d \in Dispatchers, DispatchStep(d),
         ~ \E e \in Episodes : MarkSent(d, e), TypeOK'
  PROVE  Parts'
<1> USE DEF IInv
<1>0. disp[d] \in DispatcherRecord /\ IdleDispatcher \in DispatcherRecord
  BY DEF TypeOK, IdleDispatcher, DispatcherRecord
<1>A. ASSUME UNCHANGED <<animeVars, rowVars>>, DispatchInv'
      PROVE  Parts'
  BY <1>A DEF Parts, RowsAgree, FinishedIsQuiet, TotalFitsMapping, animeVars, rowVars
<1>B. announced' \in [Episodes -> 0 .. 2] /\ announced \in [Episodes -> 0 .. 2]
  BY DEF TypeOK
<1>1. ASSUME NEW P \in SUBSET Episodes, DispatchStart(d, P)
      PROVE  Parts'
  <2>1. PICK Q \in SUBSET SUBSET P :
          disp' = [disp EXCEPT ![d] = [IdleDispatcher EXCEPT !.pc = "send", !.queue = Q]]
    BY <1>1 DEF DispatchStart
  <2> DEFINE r == [IdleDispatcher EXCEPT !.pc = "send", !.queue = Q]
  <2>2. /\ r.queue = Q /\ r.group = {} /\ r.pc = "send"
        /\ \A e \in P : note[e] = "pending"
        /\ note' = note /\ announced' = announced
    BY <1>1 DEF IdleDispatcher, DispatchStart, Due, rowVars
  <2>3. \A c \in Dispatchers : disp'[c] = IF c = d THEN r ELSE disp[c]
    BY <2>1 DEF TypeOK
  <2> HIDE DEF r
  <2>4. HeldRowsExist'
    <3> SUFFICES ASSUME NEW c \in Dispatchers, NEW e \in Held(c)', e \notin disp'[c].stale
                 PROVE  note'[e] # "none"
      BY DEF HeldRowsExist
    <3>1. CASE c = d
      <4>1. e \in P
        BY <2>2, <2>3, <3>1 DEF Held
      <4> QED BY <2>2, <4>1
    <3>2. CASE c # d
      <4>1. e \in Held(c) /\ e \notin disp[c].stale
        BY <2>3, <3>2 DEF Held
      <4> QED BY <2>2, <4>1 DEF DispatchInv, HeldRowsExist
    <3> QED BY <3>1, <3>2
  <2>5. SentWasDelivered'
    BY <2>2 DEF DispatchInv, SentWasDelivered
  <2>6. DeliveredBeforeMark'
    <3> SUFFICES ASSUME NEW c \in Dispatchers, disp'[c].pc = "mark", disp'[c].ok
                 PROVE  \A e \in disp'[c].group \ disp'[c].stale : announced'[e] >= 1
      BY DEF DeliveredBeforeMark
    <3>1. c # d /\ disp'[c] = disp[c]
      BY <2>2, <2>3
    <3> QED BY <2>2, <3>1 DEF DispatchInv, DeliveredBeforeMark
  <2> QED BY <1>1, <1>A, <2>4, <2>5, <2>6 DEF DispatchStart, DispatchInv
<1>2. ASSUME NEW g \in SUBSET Episodes, NEW b \in BOOLEAN,
             g \in disp[d].queue, Taken(d, g, b),
             Deliver(d, g) \/ (announced' = announced /\ ~b),
             UNCHANGED <<animeVars, rowVars>>
      PROVE  Parts'
  <2> DEFINE r == [disp[d] EXCEPT !.pc = "mark", !.queue = @ \ {g}, !.group = g, !.ok = b]
  <2>1. disp' = [disp EXCEPT ![d] = r]
    BY <1>2 DEF Taken
  <2>A. r = [disp[d] EXCEPT !.pc = "mark", !.queue = @ \ {g}, !.group = g, !.ok = b]
    OBVIOUS
  <2> HIDE DEF r
  <2>2. /\ r \in DispatcherRecord
        /\ (UNION r.queue) \cup r.group \subseteq Held(d)
        /\ r.stale = disp[d].stale /\ r.group = g /\ r.ok = b
    <3>1. disp[d].queue \ {g} \in SUBSET SUBSET Episodes /\ disp[d].stale \in SUBSET Episodes
      BY <1>0 DEF DispatcherRecord
    <3>2. r = [pc |-> "mark", queue |-> disp[d].queue \ {g}, group |-> g, ok |-> b,
               stale |-> disp[d].stale]
      BY <1>0, <2>A DEF DispatcherRecord
    <3> QED BY <1>2, <3>1, <3>2 DEF DispatcherRecord, Held
  <2>3. \A e \in Episodes : announced'[e] >= announced[e]
    BY <1>2, <1>B, DeliverCounts
  <2>4. r.pc = "mark" /\ r.ok => \A e \in r.group \ r.stale : announced'[e] >= 1
    BY <1>2, <2>2, DeliverCounts
  <2>5. DispatchInv'
    BY <1>2, <1>B, <2>1, <2>2, <2>3, <2>4, SmallerRecord DEF rowVars
  <2> QED BY <1>2, <1>A, <2>5
<1>3. ASSUME NEW g \in SUBSET Episodes, SendOk(d, g)
      PROVE  Parts'
  BY <1>2, <1>3 DEF SendOk
<1>4. ASSUME NEW g \in SUBSET Episodes, SendFail(d, g)
      PROVE  Parts'
  BY <1>2, <1>4 DEF SendFail
<1>5. ASSUME NEW g \in SUBSET Episodes, SendTimeout(d, g)
      PROVE  Parts'
  BY <1>2, <1>5 DEF SendTimeout
<1>6. ASSUME NEW e \in Episodes, MarkFailed(d, e)
      PROVE  Parts'
  <2> DEFINE r == AfterMark(disp[d], e)
  <2>1. disp' = [disp EXCEPT ![d] = r] /\ ~disp[d].ok /\ announced' = announced
    BY <1>6 DEF MarkFailed
  <2>2. /\ r \in DispatcherRecord
        /\ (UNION r.queue) \cup r.group \subseteq Held(d)
        /\ r.stale = disp[d].stale \/ r = IdleDispatcher
        /\ r.pc = "mark" => r.ok = disp[d].ok
    BY <1>0, AfterMarkHeld, AfterMarkType DEF Held
  <2> HIDE DEF r
  <2>3. \A e2 \in Episodes : announced'[e2] >= announced[e2]
    BY <1>B, <2>1
  <2>4. DispatchInv'
    BY <1>6, <1>B, <2>1, <2>2, <2>3, SmallerRecord DEF MarkFailed, rowVars
  <2> QED BY <1>6, <1>A, <2>4 DEF MarkFailed
<1>7. CASE DispatchExit(d)
  <2>1. disp' = [disp EXCEPT ![d] = IdleDispatcher] /\ announced' = announced
    BY <1>7 DEF DispatchExit
  <2>2. /\ (UNION IdleDispatcher.queue) \cup IdleDispatcher.group \subseteq Held(d)
        /\ IdleDispatcher.pc # "mark"
    BY DEF IdleDispatcher
  <2>3. \A e \in Episodes : announced'[e] >= announced[e]
    BY <1>B, <2>1
  <2>4. DispatchInv'
    BY <1>0, <1>7, <1>B, <2>1, <2>2, <2>3, SmallerRecord DEF DispatchExit, rowVars
  <2> QED BY <1>7, <1>A, <2>4 DEF DispatchExit
<1> QED BY <1>1, <1>3, <1>4, <1>5, <1>6, <1>7 DEF DispatchStep

\* Marking a row as sent.  Its id is not stale, so the row and the episode
\* exist, and its message has been delivered.
LEMMA MarkSentParts ==
  ASSUME IInv, NEW d \in Dispatchers, NEW e \in Episodes, MarkSent(d, e), TypeOK'
  PROVE  Parts'
<1> USE DEF IInv
<1> DEFINE s0 == [ep EXCEPT ![e] = "notified"]
           s == Trimmed(s0, total)
           next == [f \in Episodes |->
                     IF /\ f = e + 1 /\ s[f] = "absent"
                        /\ ~Settles(s, total) /\ Advances(e, total)
                     THEN "open" ELSE s[f]]
           gone == Absent(next)
           r == AfterMark(disp[d], e)
<1>0. disp[d] \in DispatcherRecord /\ gone \in SUBSET Episodes
  BY DEF TypeOK, Absent
<1>1. /\ ep' = next
      /\ watched' = watched \ gone
      /\ note' = [f \in Episodes |->
                   IF f \in gone THEN "none" ELSE IF f = e THEN "sent" ELSE note[f]]
      /\ Transition(s, total)
      /\ disp' = [c \in Dispatchers |->
                   IF c = d THEN r
                   ELSE [disp[c] EXCEPT !.stale = @ \cup (gone \cap Held(c))]]
      /\ announced' = [f \in Episodes |-> IF f \in gone THEN 0 ELSE announced[f]]
      /\ UNCHANGED <<auto, total, origin, start, batches, procVars>>
  BY DEF MarkSent
<1>2. /\ disp[d].pc = "mark" /\ disp[d].ok
      /\ e \in disp[d].group /\ e \notin disp[d].stale
  BY DEF MarkSent, Marking
<1>3. announced[e] >= 1 /\ note[e] # "none"
  BY <1>2 DEF DispatchInv, DeliveredBeforeMark, HeldRowsExist, Held
<1>4. Completed(ep[e]) /\ lifecycle \in {"tracking", "released_complete"}
  <2>1. note[e] \in {"pending", "sent"}
    BY <1>3 DEF TypeOK, NoteState
  <2>2. Completed(ep[e])
    BY <2>1 DEF RowsAgree, Completed
  <2> QED BY <2>2 DEF FinishedIsQuiet, Completed, TypeOK, Lifecycle
<1>5. /\ s0 \in [Episodes -> EpisodeState] /\ s \in [Episodes -> EpisodeState]
      /\ s0[e] = "notified" /\ s[e] = "notified"
  <2>1. s0 \in [Episodes -> EpisodeState] /\ s0[e] = "notified"
    BY DEF TypeOK, EpisodeState
  <2>2. s = [f \in Episodes |->
               IF /\ lifecycle = "tracking" /\ total # Unknown
                  /\ f > FinalEpisode(total, origin) /\ ~Completed(s0[f])
               THEN "absent" ELSE s0[f]]
    BY DEF Trimmed
  <2> HIDE DEF s, s0
  <2>3. s \in [Episodes -> EpisodeState]
    BY <2>1, <2>2 DEF EpisodeState
  <2>4. s[e] = "notified"
    BY <2>1, <2>2 DEF Completed
  <2> QED BY <2>1, <2>3, <2>4
<1>6. \A f \in Episodes : f # e =>
        \/ s[f] = ep[f]
        \/ ~Completed(ep[f]) /\ s[f] = "absent"
  BY DEF Trimmed, TypeOK
<1>7. next[e] = "notified"
  BY <1>5
<1>8. \A f \in Episodes : f # e =>
        \/ next[f] = s[f]
        \/ s[f] = "absent" /\ next[f] = "open" /\ ~Settles(s, total) /\ lifecycle = "tracking"
  BY DEF Advances
<1>9. \A f \in Episodes : f \in gone <=> next[f] = "absent"
  BY DEF Absent
<1> HIDE DEF s0, s, next, gone, r
<1>10. RowsAgree'
  <2> SUFFICES ASSUME NEW f \in Episodes
               PROVE  /\ note'[f] = "pending" => ep'[f] = "confirmed"
                      /\ note'[f] = "sent" => ep'[f] = "notified"
                      /\ f \in watched' => Completed(ep'[f])
    BY DEF RowsAgree
  <2>1. CASE f = e
    BY <1>1, <1>7, <2>1 DEF Completed
  <2>2. CASE f # e /\ next[f] = "absent"
    BY <1>1, <1>9, <2>2
  <2>3. CASE f # e /\ next[f] # "absent" /\ next[f] = ep[f]
    BY <1>1, <1>9, <2>3 DEF RowsAgree
  <2>4. CASE f # e /\ next[f] = "open" /\ ~Completed(ep[f])
    BY <1>1, <1>9, <2>4 DEF RowsAgree, Completed
  <2>5. CASE f # e /\ next[f] = "open" /\ s[f] = "absent" /\ s[f] = ep[f]
    BY <1>1, <1>9, <2>5 DEF RowsAgree, Completed
  <2> QED BY <1>6, <1>8, <2>1, <2>2, <2>3, <2>4, <2>5
<1>11. FinishedIsQuiet'
  <2>1. Settles(s, total) => ep' = s
    <3>1. ASSUME Settles(s, total), NEW f \in Episodes PROVE next[f] = s[f]
      BY <1>5, <1>7, <1>8, <3>1
    <3>2. next = [f \in Episodes |-> next[f]] /\ s = [f \in Episodes |-> s[f]]
      BY <1>5 DEF next
    <3> QED BY <1>1, <3>1, <3>2
  <2>2. s = Trimmed(s, total)
    BY DEF s, Trimmed
  <2>3. lifecycle # "tracking" => \A f \in Episodes : ep'[f] = "open" => ep[f] = "open"
    BY <1>1, <1>6, <1>7, <1>8
  <2>4. total \in 0 .. MaxEpisode /\ origin' = origin
    BY <1>1 DEF TypeOK
  <2> QED BY <1>1, <1>4, <1>5, <2>1, <2>2, <2>3, <2>4, TransitionQuiet
<1>12. TotalFitsMapping'
  BY <1>1 DEF TotalFitsMapping
<1>13. /\ r \in DispatcherRecord
       /\ (UNION r.queue) \cup r.group \subseteq Held(d)
       /\ r.group \subseteq disp[d].group
       /\ r.stale = disp[d].stale \/ r = IdleDispatcher
       /\ r.pc = "mark" => r.ok = disp[d].ok /\ r.stale = disp[d].stale
  BY <1>0, AfterMarkHeld, AfterMarkType DEF Held, r
<1>14. \A c \in Dispatchers : c # d =>
         /\ disp'[c].pc = disp[c].pc /\ disp'[c].ok = disp[c].ok
         /\ disp'[c].group = disp[c].group /\ disp'[c].queue = disp[c].queue
         /\ disp'[c].stale = disp[c].stale \cup (gone \cap Held(c))
  <2> SUFFICES ASSUME NEW c \in Dispatchers, c # d
               PROVE  /\ disp'[c].pc = disp[c].pc /\ disp'[c].ok = disp[c].ok
                      /\ disp'[c].group = disp[c].group /\ disp'[c].queue = disp[c].queue
                      /\ disp'[c].stale = disp[c].stale \cup (gone \cap Held(c))
    OBVIOUS
  <2>1. disp[c] \in DispatcherRecord
    BY DEF TypeOK
  <2>2. disp'[c] = [disp[c] EXCEPT !.stale = disp[c].stale \cup (gone \cap Held(c))]
    BY <1>1
  <2> QED BY <2>1, <2>2 DEF DispatcherRecord
<1>15. disp'[d] = r
  BY <1>1
<1>16. \A c \in Dispatchers : Held(c) \subseteq Episodes
  <2> SUFFICES ASSUME NEW c \in Dispatchers PROVE Held(c) \subseteq Episodes
    OBVIOUS
  <2>1. disp[c] \in DispatcherRecord
    BY DEF TypeOK
  <2> QED BY <2>1 DEF Held, DispatcherRecord
\* A row whose id is held and not stale survives: its episode is completed.
<1>17. ASSUME NEW c \in Dispatchers, NEW f \in Held(c), f \notin disp[c].stale
       PROVE  f \in Episodes /\ note[f] # "none" /\ f \notin gone
  <2>1. f \in Episodes /\ note[f] # "none"
    BY <1>16, <1>17 DEF DispatchInv, HeldRowsExist
  <2>2. Completed(ep[f])
    <3>1. note[f] \in {"pending", "sent"}
      BY <2>1 DEF TypeOK, NoteState
    <3> QED BY <2>1, <3>1 DEF RowsAgree, Completed
  <2>3. f \notin gone
    BY <1>6, <1>7, <1>8, <1>9, <2>1, <2>2 DEF Completed
  <2> QED BY <2>1, <2>3
\* Its row is not deleted: what is held and not stale after the step was so before.
<1>18. ASSUME NEW c \in Dispatchers, NEW f \in Held(c)', f \notin disp'[c].stale
       PROVE  f \in Held(c) /\ f \notin disp[c].stale
  <2>1. CASE c = d
    BY <1>13, <1>15, <1>18, <2>1 DEF Held, IdleDispatcher
  <2>2. CASE c # d
    BY <1>14, <1>18, <2>2 DEF Held
  <2> QED BY <2>1, <2>2
<1>19. HeldRowsExist'
  <2> SUFFICES ASSUME NEW c \in Dispatchers, NEW f \in Held(c)', f \notin disp'[c].stale
               PROVE  note'[f] # "none"
    BY DEF HeldRowsExist
  <2>1. f \in Episodes /\ note[f] # "none" /\ f \notin gone
    BY <1>17, <1>18
  <2> QED BY <1>1, <2>1
<1>20. SentWasDelivered'
  <2> SUFFICES ASSUME NEW f \in Episodes, note'[f] = "sent" PROVE announced'[f] >= 1
    BY DEF SentWasDelivered
  <2>1. f \notin gone /\ (f = e \/ note[f] = "sent")
    BY <1>1
  <2>2. announced'[f] = announced[f]
    BY <1>1, <2>1
  <2> QED BY <1>3, <2>1, <2>2 DEF DispatchInv, SentWasDelivered
<1>21. DeliveredBeforeMark'
  <2> SUFFICES ASSUME NEW c \in Dispatchers, disp'[c].pc = "mark", disp'[c].ok,
                      NEW f \in disp'[c].group, f \notin disp'[c].stale
               PROVE  announced'[f] >= 1
    BY DEF DeliveredBeforeMark
  <2>1. /\ disp[c].pc = "mark" /\ disp[c].ok
        /\ f \in disp[c].group /\ f \notin disp[c].stale
    <3>1. CASE c = d
      BY <1>2, <1>13, <1>15, <3>1
    <3>2. CASE c # d
      BY <1>14, <3>2
    <3> QED BY <3>1, <3>2
  <2>2. f \in Episodes /\ f \notin gone
    BY <1>17, <2>1 DEF Held
  <2>3. announced[f] >= 1
    BY <2>1 DEF DispatchInv, DeliveredBeforeMark
  <2> QED BY <1>1, <2>2, <2>3
<1>22. DispatchInv'
  BY <1>19, <1>20, <1>21 DEF DispatchInv
<1> QED BY <1>10, <1>11, <1>12, <1>22 DEF Parts

\* The invariant is inductive.
LEMMA NextIInv == IInv /\ [Next]_vars => IInv'
<1> SUFFICES ASSUME IInv, [Next]_vars PROVE IInv'
  OBVIOUS
<1>1. TypeOK'
  BY NextType DEF IInv
<1>2. Parts'
  <2>1. CASE UNCHANGED vars
    <3>1. DispatchInv'
      BY <2>1, UnchangedDispatchInv DEF IInv, vars, rowVars
    <3>2. RowsAgree' /\ FinishedIsQuiet' /\ TotalFitsMapping'
      BY <2>1 DEF IInv, RowsAgree, FinishedIsQuiet, TotalFitsMapping, vars, animeVars, rowVars
    <3> QED BY <3>1, <3>2 DEF Parts
  <2>2. CASE AnimeStep \/ EpisodeStep \/ SyncSteps
    BY <2>2, AnimeStepParts, EpisodeStepParts, SyncStepsParts
  <2>3. ASSUME NEW d \in Dispatchers, DispatchStep(d) PROVE Parts'
    <3>1. CASE \E e \in Episodes : MarkSent(d, e)
      BY <1>1, <3>1, MarkSentParts
    <3>2. CASE ~ \E e \in Episodes : MarkSent(d, e)
      BY <1>1, <2>3, <3>2, DispatchStepParts
    <3> QED BY <3>1, <3>2
  <2> QED BY <2>1, <2>2, <2>3 DEF Next
<1> QED BY <1>1, <1>2 DEF Parts, IInv

\* The invariant holds in every reachable state.
THEOREM Invariance == Spec => []IInv
BY InitIInv, NextIInv, PTL DEF Spec

\* Anime, episode, watch and notification rows always agree.
THEOREM RowsAlwaysAgree == Spec => []RowsAgree
<1>1. IInv => RowsAgree
  BY DEF IInv
<1> QED BY <1>1, Invariance, PTL

\* A finished, archived or deleted anime stays quiet.
THEOREM FinishedStaysQuiet == Spec => []FinishedIsQuiet
<1>1. IInv => FinishedIsQuiet
  BY DEF IInv
<1> QED BY <1>1, Invariance, PTL

\* The stored total and the stored origin always name a legal final episode.
THEOREM MappingAlwaysFits == Spec => []TotalFitsMapping
<1>1. IInv => TotalFitsMapping
  BY DEF IInv
<1> QED BY <1>1, Invariance, PTL

\* A notification marked sent has been delivered.
THEOREM SentIsDelivered == Spec => []SentWasDelivered
<1>1. IInv => SentWasDelivered
  BY DEF IInv, DispatchInv
<1> QED BY <1>1, Invariance, PTL

-----------------------------------------------------------------------------
(* HistoryIsKept, an action property, from the same invariant.             *)

AllKept == KeptBefore(MaxEpisode + 1)

Kept ==
  \/ AllKept
  \/ lifecycle' \in {"none", "archived"}
  \/ ~enabled /\ \E t \in Episodes : ep'[t] = "open" /\ KeptBefore(t)

\* Rewriting the rows to s keeps the history when s keeps what is completed:
\* by RowsAgree only completed episodes carry a watch mark.
LEMMA RewritingKeeps ==
  ASSUME RowsAgree, NEW s, ep' = s,
         \A e \in Episodes : Completed(ep[e]) => Completed(s[e]),
         \/ watched' = watched \ Absent(s)
         \/ watched \subseteq watched'
  PROVE  AllKept
<1> SUFFICES ASSUME NEW e \in Episodes
             PROVE  /\ Completed(ep[e]) => Completed(ep'[e])
                    /\ e \in watched => e \in watched'
  BY DEF AllKept, KeptBefore
<1>1. e \in watched => s[e] # "absent"
  BY DEF RowsAgree, Completed
<1> QED BY <1>1 DEF Absent

\* Steps that leave the episode rows and the watch marks alone.
LEMMA UnchangedKeeps == UNCHANGED <<ep, watched>> => AllKept
BY DEF AllKept, KeptBefore

\* Every step of the program keeps the history, or is one of the exceptions.
LEMMA NextKeeps == IInv /\ Next => Kept
<1> SUFFICES ASSUME IInv, Next PROVE Kept
  OBVIOUS
<1>0. TypeOK /\ RowsAgree /\ FinishedIsQuiet
  BY DEF IInv
<1>1. CASE AnimeStep
  <2>1. ASSUME NEW n \in Episodes, NEW a \in BOOLEAN, NEW o \in Origins,
               NEW t \in 0 .. MaxEpisode, AddAnime(n, a, o, t)
        PROVE  AllKept
    <3>1. \A e \in Episodes : ~Completed(ep[e])
      BY <1>0, <2>1 DEF AddAnime, FinishedIsQuiet, Completed
    <3>2. watched' = watched
      BY <2>1 DEF AddAnime
    <3> QED BY <3>1, <3>2 DEF AllKept, KeptBefore
  <2>2. CASE DeleteAnime
    BY <2>2 DEF DeleteAnime, Kept
  <2>3. ASSUME NEW b \in BOOLEAN, SetEnabled(b) PROVE AllKept
    BY <2>3, UnchangedKeeps DEF SetEnabled, rowVars
  <2>4. ASSUME NEW o \in Origins, CheckMapping(o) PROVE AllKept
    BY <2>4, UnchangedKeeps DEF CheckMapping, rowVars
  <2>5. CASE WriteMapping
    BY <2>5, UnchangedKeeps DEF WriteMapping, rowVars, Kept
  <2>6. ASSUME NEW t \in 0 .. MaxEpisode, MarkReleased(t) PROVE AllKept
    <3> DEFINE s == [e \in Episodes |-> IF Completed(ep[e]) THEN ep[e] ELSE "absent"]
    <3>1. ep' = s /\ watched' = watched \ Absent(s)
      BY <2>6 DEF MarkReleased, RowsBecome
    <3>2. \A e \in Episodes : Completed(ep[e]) => Completed(s[e])
      OBVIOUS
    <3> HIDE DEF s
    <3> QED BY <1>0, <3>1, <3>2, RewritingKeeps
  <2>7. ASSUME NEW t \in 0 .. MaxEpisode, Archive(t) PROVE Kept
    BY <2>7 DEF Archive, Kept
  <2>8. ASSUME NEW n \in Episodes, Resume(n) PROVE AllKept
    <3>1. \A e \in Episodes : Completed(ep[e]) => Completed(ep'[e])
      BY <1>0, <2>8 DEF Resume, TypeOK, Completed
    <3>2. watched' = watched
      BY <2>8 DEF Resume
    <3> QED BY <3>1, <3>2 DEF AllKept, KeptBefore
  <2>9. ASSUME NEW n \in Episodes, Repair(n) PROVE Kept
    <3>1. ~enabled /\ ep'[n] = "open"
      BY <2>9 DEF Repair, Episodes
    <3>2. KeptBefore(n)
      BY <2>9 DEF Repair, KeptBefore
    <3> QED BY <3>1, <3>2 DEF Kept
  <2> QED BY <1>1, <2>1, <2>2, <2>3, <2>4, <2>5, <2>6, <2>7, <2>8, <2>9 DEF AnimeStep, Kept
<1>2. CASE EpisodeStep
  <2>1. ASSUME NEW e \in Episodes, Confirm(e) PROVE AllKept
    <3> DEFINE s == Trimmed([ep EXCEPT ![e] = "confirmed"], total)
    <3>1. ep' = s /\ watched' = watched \ Absent(s)
      BY <2>1 DEF Confirm, RowsBecomeWithNote
    <3>2. \A f \in Episodes : Completed(ep[f]) => Completed(s[f])
      BY <1>0 DEF Trimmed, TypeOK, Completed
    <3> HIDE DEF s
    <3> QED BY <1>0, <3>1, <3>2, RewritingKeeps
  <2>2. ASSUME NEW e \in Episodes, EnsureHistory(e) PROVE AllKept
    <3>1. \A f \in Episodes : Completed(ep[f]) => Completed(ep'[f])
      BY <1>0, <2>2 DEF EnsureHistory, TypeOK, Completed
    <3>2. watched \subseteq watched'
      BY <2>2 DEF EnsureHistory
    <3> QED BY <1>0, <3>1, <3>2, RewritingKeeps
  <2>3. ASSUME NEW e \in Episodes, MarkWatched(e) PROVE AllKept
    BY <2>3 DEF MarkWatched, AllKept, KeptBefore
  <2>4. ASSUME NEW S \in SUBSET Episodes, NEW first \in 0 .. MaxEpisode,
               ImportCollection(S, first)
        PROVE  AllKept
    <3> DEFINE fresh == { e \in S : ~Completed(ep[e]) }
               s0 == [e \in Episodes |-> IF e \in fresh THEN "confirmed" ELSE ep[e]]
               s == Trimmed(s0, total)
    <3>1. ep' = s /\ watched' = watched \ Absent(s)
      BY <2>4 DEF ImportCollection, RowsBecomeWithNote
    <3>2. \A f \in Episodes : Completed(ep[f]) => Completed(s[f])
      BY DEF Trimmed, Completed
    <3> HIDE DEF s
    <3> QED BY <1>0, <3>1, <3>2, RewritingKeeps
  <2> QED BY <1>2, <2>1, <2>2, <2>3, <2>4 DEF EpisodeStep, Kept
<1>3. CASE SyncSteps
  <2>1. CASE SyncStart \/ SyncFail
    BY <2>1, UnchangedKeeps DEF SyncStart, SyncFail, rowVars, Kept
  <2>2. ASSUME NEW t \in 0 .. MaxEpisode, SyncApply(t) PROVE AllKept
    <3> DEFINE T == IF t = Unknown THEN total ELSE t
               s == Trimmed(ep, T)
    <3>1. ep' = s /\ watched' = watched \ Absent(s)
      BY <2>2 DEF SyncApply, RowsBecome
    <3> HIDE DEF T
    <3>2. \A f \in Episodes : Completed(ep[f]) => Completed(s[f])
      BY DEF Trimmed, Completed
    <3> HIDE DEF s
    <3> QED BY <1>0, <3>1, <3>2, RewritingKeeps
  <2>3. ASSUME NEW B \in Answers, ApplyBatches(B) PROVE AllKept
    <3>1. \A f \in Episodes : Completed(ep[f]) => Completed(ep'[f])
      BY <1>0, <2>3 DEF ApplyBatches, TypeOK, Completed
    <3>2. watched' = watched
      BY <2>3 DEF ApplyBatches
    <3> QED BY <3>1, <3>2 DEF AllKept, KeptBefore
  <2> QED BY <1>3, <2>1, <2>2, <2>3 DEF SyncSteps, Kept
<1>4. ASSUME NEW d \in Dispatchers, DispatchStep(d) PROVE AllKept
  <2>1. ASSUME NEW e \in Episodes, MarkSent(d, e) PROVE AllKept
    <3> DEFINE s == Trimmed([ep EXCEPT ![e] = "notified"], total)
               next == [f \in Episodes |->
                         IF /\ f = e + 1 /\ s[f] = "absent"
                            /\ ~Settles(s, total) /\ Advances(e, total)
                         THEN "open" ELSE s[f]]
    <3>1. ep' = next /\ watched' = watched \ Absent(next)
      BY <2>1 DEF MarkSent
    <3>2. \A f \in Episodes : Completed(ep[f]) => Completed(s[f])
      BY <1>0 DEF Trimmed, TypeOK, Completed
    <3> HIDE DEF s
    <3>3. \A f \in Episodes : Completed(ep[f]) => Completed(next[f])
      BY <3>2 DEF Completed
    <3> HIDE DEF next
    <3> QED BY <1>0, <3>1, <3>3, RewritingKeeps
  <2>2. CASE ~ \E e \in Episodes : MarkSent(d, e)
    <3>1. UNCHANGED <<ep, watched>>
      BY <1>4, <2>2 DEF DispatchStep, DispatchStart, SendOk, SendFail, SendTimeout,
                        MarkFailed, DispatchExit, rowVars
    <3> QED BY <3>1, UnchangedKeeps
  <2> QED BY <2>1, <2>2
<1> QED BY <1>1, <1>2, <1>3, <1>4 DEF Next, Kept

\* A completed episode and its watch mark survive every step that is not an
\* archive, a deletion or the repair of a disabled anime.
THEOREM HistoryAlwaysKept == Spec => HistoryIsKept
<1>1. IInv /\ [Next]_vars => [Kept]_vars
  BY NextKeeps
<1>2. [Kept]_vars => [ \/ KeptBefore(MaxEpisode + 1)
                       \/ lifecycle' \in {"none", "archived"}
                       \/ ~enabled /\ \E t \in Episodes : ep'[t] = "open" /\ KeptBefore(t) ]_vars
  BY DEF Kept, AllKept
<1> QED BY <1>1, <1>2, Invariance, PTL DEF Spec, HistoryIsKept

-----------------------------------------------------------------------------
(* DuplicateNeedsLostReply.  It rests on more than IInv: with one dispatcher, *)
(* what is queued is pending and in one group only, so a row that has been    *)
(* delivered cannot be taken again before it is marked.                       *)

OneDispatcher == \A c, d \in Dispatchers : c = d

\* Nobody but the dispatcher settles the rows that it has still to send.
QueueIsPending ==
  \A d \in Dispatchers : \A g \in disp[d].queue :
    \A e \in g \ disp[d].stale : note[e] = "pending"

\* A row is in one group of the queue, or in the one being marked.
QueueIsDisjoint ==
  \A d \in Dispatchers :
    /\ disp[d].pc # "mark" => disp[d].group = {}
    /\ \A g \in disp[d].queue :
         /\ g \cap disp[d].group = {}
         /\ \A h \in disp[d].queue : g = h \/ g \cap h = {}

\* A row that is not counted as unmarked was delivered once, and is marked as
\* sent or about to be.
AnnouncedOnce ==
  \A e \in Episodes \ unmarked : announced[e] >= 1 =>
    /\ announced[e] = 1
    /\ \/ note[e] = "sent"
       \/ \E d \in Dispatchers : /\ disp[d].pc = "mark" /\ disp[d].ok
                                 /\ e \in disp[d].group \ disp[d].stale

OnceInv == QueueIsPending /\ QueueIsDisjoint /\ AnnouncedOnce

\* What the steps outside the dispatcher do to the notification rows: they delete
\* some, and otherwise at most add pending ones.
RowsMove(gone) ==
  /\ Forget(gone)
  /\ \A e \in Episodes :
       IF e \in gone THEN note'[e] = "none"
       ELSE note'[e] \in {note[e], "pending"} /\ (note[e] # "none" => note'[e] = note[e])

\* Rewriting the episode rows moves the notification rows so.
LEMMA RewritingMoves ==
  ASSUME NEW s, NEW n, RowsBecome(s) \/ RowsBecomeWithNote(s, n)
  PROVE  \E gone \in SUBSET Episodes : RowsMove(gone)
<1>1. Absent(s) \in SUBSET Episodes
  BY DEF Absent
<1>2. RowsMove(Absent(s))
  BY DEF RowsMove, Absent, RowsBecome, RowsBecomeWithNote
<1> QED BY <1>1, <1>2

\* Every step outside the dispatcher does that, or nothing to them.
RowsMoved ==
  \/ UNCHANGED <<note, dispVars>>
  \/ \E gone \in SUBSET Episodes : RowsMove(gone)

LEMMA OthersMoveRows ==
  ASSUME AnimeStep \/ EpisodeStep \/ SyncSteps
  PROVE  RowsMoved
<1>0. ASSUME NEW s, NEW n, RowsBecome(s) \/ RowsBecomeWithNote(s, n) PROVE RowsMoved
  BY <1>0, RewritingMoves DEF RowsMoved
<1>1. ASSUME NEW n \in Episodes, Repair(n) PROVE RowsMoved
  <2>1. n .. MaxEpisode \in SUBSET Episodes
    BY MaxEpisodeAssumption DEF Episodes
  <2>2. RowsMove(n .. MaxEpisode)
    BY <1>1, MaxEpisodeAssumption DEF RowsMove, Repair, Episodes
  <2> QED BY <2>1, <2>2 DEF RowsMoved
<1>2. ASSUME NEW e \in Episodes, Confirm(e) PROVE RowsMoved
  <2>1. PICK s : RowsBecomeWithNote(s, e)
    BY <1>2 DEF Confirm
  <2> QED BY <1>0, <2>1
<1>3. ASSUME NEW S, NEW first, ImportCollection(S, first) PROVE RowsMoved
  <2>1. PICK s : RowsBecomeWithNote(s, first)
    BY <1>3 DEF ImportCollection
  <2> QED BY <1>0, <2>1
<1>4. ASSUME NEW t, SyncApply(t) PROVE RowsMoved
  <2>1. PICK s : RowsBecome(s)
    BY <1>4 DEF SyncApply
  <2> QED BY <1>0, <2>1
<1>5. ASSUME NEW t, MarkReleased(t) \/ Archive(t) PROVE RowsMoved
  <2>1. PICK s : RowsBecome(s)
    BY <1>5 DEF MarkReleased, Archive
  <2> QED BY <1>0, <2>1
<1>6. CASE DeleteAnime
  <2>1. PICK s : RowsBecome(s)
    BY <1>6 DEF DeleteAnime
  <2> QED BY <1>0, <2>1
<1>7. CASE WriteMapping \/ SyncStart \/ SyncFail
  BY <1>7 DEF WriteMapping, SyncStart, SyncFail, rowVars, RowsMoved
<1>8. ASSUME NEW n, NEW a, NEW o, NEW t,
             AddAnime(n, a, o, t) \/ SetEnabled(a) \/ CheckMapping(o) \/ Resume(n)
      PROVE  RowsMoved
  BY <1>8 DEF AddAnime, SetEnabled, CheckMapping, Resume, rowVars, RowsMoved
<1>9. ASSUME NEW e, EnsureHistory(e) \/ MarkWatched(e) PROVE RowsMoved
  BY <1>9 DEF EnsureHistory, MarkWatched, RowsMoved
<1>10. ASSUME NEW B, ApplyBatches(B) PROVE RowsMoved
  BY <1>10 DEF ApplyBatches, RowsMoved
<1>11. CASE AnimeStep
  BY <1>1, <1>5, <1>6, <1>7, <1>8, <1>11 DEF AnimeStep
<1>12. CASE EpisodeStep
  BY <1>2, <1>3, <1>9, <1>12 DEF EpisodeStep
<1>13. CASE SyncSteps
  BY <1>4, <1>7, <1>10, <1>13 DEF SyncSteps
<1> QED BY <1>11, <1>12, <1>13

\* Moving the rows keeps OnceInv: what is deleted becomes stale where it is held.
LEMMA MovingKeepsOnce ==
  ASSUME TypeOK, OnceInv, NEW gone \in SUBSET Episodes, RowsMove(gone)
  PROVE  OnceInv'
<1>0. Forget(gone)
  BY DEF RowsMove
<1>1. ASSUME NEW d \in Dispatchers
      PROVE  /\ disp'[d].pc = disp[d].pc /\ disp'[d].ok = disp[d].ok
             /\ disp'[d].group = disp[d].group /\ disp'[d].queue = disp[d].queue
             /\ disp'[d].stale = disp[d].stale \cup (gone \cap Held(d))
             /\ Held(d) \subseteq Episodes
  <2>1. disp[d] \in DispatcherRecord
    BY DEF TypeOK
  <2>2. disp'[d] = [disp[d] EXCEPT !.stale = disp[d].stale \cup (gone \cap Held(d))]
    BY <1>0 DEF Forget
  <2> QED BY <2>1, <2>2 DEF DispatcherRecord, Held
<1>2. QueueIsPending'
  <2> SUFFICES ASSUME NEW d \in Dispatchers, NEW g \in disp'[d].queue, NEW e \in g,
                      e \notin disp'[d].stale
               PROVE  note'[e] = "pending"
    BY DEF QueueIsPending
  <2>1. g \in disp[d].queue /\ e \in Held(d) /\ e \in Episodes
    BY <1>1 DEF Held
  <2>2. e \notin disp[d].stale /\ e \notin gone
    BY <1>1, <2>1
  <2> QED BY <2>1, <2>2 DEF OnceInv, QueueIsPending, RowsMove
<1>3. QueueIsDisjoint'
  BY <1>1 DEF OnceInv, QueueIsDisjoint
<1>4. AnnouncedOnce'
  <2> SUFFICES ASSUME NEW e \in Episodes, e \notin unmarked', announced'[e] >= 1
               PROVE  /\ announced'[e] = 1
                      /\ \/ note'[e] = "sent"
                         \/ \E d \in Dispatchers :
                              /\ disp'[d].pc = "mark" /\ disp'[d].ok
                              /\ e \in disp'[d].group \ disp'[d].stale
    BY DEF AnnouncedOnce
  <2>1. e \notin gone /\ announced'[e] = announced[e] /\ e \notin unmarked
    BY <1>0 DEF Forget
  <2>2. /\ announced[e] = 1
        /\ \/ note[e] = "sent"
           \/ \E d \in Dispatchers : /\ disp[d].pc = "mark" /\ disp[d].ok
                                     /\ e \in disp[d].group \ disp[d].stale
    BY <2>1 DEF OnceInv, AnnouncedOnce
  <2>3. note[e] = "sent" => note'[e] = "sent"
    BY <2>1 DEF RowsMove
  <2> QED BY <1>1, <2>1, <2>2, <2>3
<1> QED BY <1>2, <1>3, <1>4 DEF OnceInv

\* A step that touches neither of them keeps it, too.
LEMMA UnchangedKeepsOnce ==
  ASSUME OnceInv, UNCHANGED <<note, dispVars>>
  PROVE  OnceInv'
BY DEF OnceInv, QueueIsPending, QueueIsDisjoint, AnnouncedOnce, dispVars

\* OnceInv after a step of the only dispatcher, from what is true of its record.
LEMMA OnlyRecord ==
  ASSUME OneDispatcher, NEW d \in Dispatchers, NEW r, disp'[d] = r,
         \A g \in r.queue : \A e \in g \ r.stale : note'[e] = "pending",
         r.pc # "mark" => r.group = {},
         \A g \in r.queue : /\ g \cap r.group = {}
                            /\ \A h \in r.queue : g = h \/ g \cap h = {},
         \A e \in Episodes \ unmarked' : announced'[e] >= 1 =>
           /\ announced'[e] = 1
           /\ note'[e] = "sent" \/ (r.pc = "mark" /\ r.ok /\ e \in r.group \ r.stale)
  PROVE  OnceInv'
<1>1. \A c \in Dispatchers : c = d
  BY DEF OneDispatcher
<1>2. QueueIsPending'
  BY <1>1 DEF QueueIsPending
<1>3. QueueIsDisjoint'
  BY <1>1 DEF QueueIsDisjoint
<1>4. AnnouncedOnce'
  BY <1>1 DEF AnnouncedOnce
<1> QED BY <1>2, <1>3, <1>4 DEF OnceInv

\* The groups of a dispatch are the classes of an equivalence on the due rows.
LEMMA GroupsPartition ==
  ASSUME NEW P, NEW Q, Grouping(P, Q)
  PROVE  /\ \A g \in Q : g \subseteq P
         /\ \A g, h \in Q : g = h \/ g \cap h = {}
BY DEF Grouping

\* The only dispatcher sends a group: its rows are pending, so none of those that
\* are not counted as unmarked was delivered before.
LEMMA SendingKeepsOnce ==
  ASSUME TypeOK, OnceInv, OneDispatcher, NEW d \in Dispatchers, NEW g \in SUBSET Episodes,
         SendOk(d, g) \/ SendFail(d, g) \/ SendTimeout(d, g)
  PROVE  OnceInv'
<1>1. PICK b \in BOOLEAN : Taken(d, g, b) /\ (b <=> SendOk(d, g))
  BY DEF SendOk, SendFail, SendTimeout, Taken, TypeOK
<1> DEFINE r == [disp[d] EXCEPT !.pc = "mark", !.queue = @ \ {g}, !.group = g, !.ok = b]
<1>2. disp[d] \in DispatcherRecord /\ disp[d].pc = "send" /\ g \in disp[d].queue
  BY DEF TypeOK, SendOk, SendFail, SendTimeout
<1>3. /\ r.pc = "mark" /\ r.group = g /\ r.ok = b /\ r.stale = disp[d].stale
      /\ r.queue = disp[d].queue \ {g}
  BY <1>2 DEF DispatcherRecord
<1>4. disp'[d] = r
  BY <1>1 DEF Taken, TypeOK
<1> HIDE DEF r
<1>5. note' = note
  BY DEF SendOk, SendFail, SendTimeout, rowVars
<1>6. \A h \in r.queue : \A e \in h \ r.stale : note'[e] = "pending"
  BY <1>3, <1>5 DEF OnceInv, QueueIsPending
<1>7. \A h \in r.queue : /\ h \cap r.group = {}
                         /\ \A i \in r.queue : h = i \/ h \cap i = {}
  BY <1>2, <1>3 DEF OnceInv, QueueIsDisjoint
<1>8. ASSUME NEW e \in Episodes, e \notin unmarked', announced'[e] >= 1
      PROVE  /\ announced'[e] = 1
             /\ note'[e] = "sent" \/ (r.pc = "mark" /\ r.ok /\ e \in r.group \ r.stale)
  <2>1. e \notin unmarked
    BY <1>8 DEF SendOk, SendFail, SendTimeout
  <2>2. announced[e] >= 1 => announced[e] = 1 /\ note[e] = "sent"
    BY <1>2, <2>1 DEF OnceInv, AnnouncedOnce, OneDispatcher
  <2>3. announced[e] \in 0 .. 2
    BY DEF TypeOK
  <2>4. CASE e \in g \ disp[d].stale
    <3>1. announced[e] = 0
      BY <1>2, <2>2, <2>3, <2>4 DEF OnceInv, QueueIsPending
    <3>2. CASE SendOk(d, g)
      <4>1. announced'[e] = 1
        BY <2>3, <2>4, <3>1, <3>2 DEF SendOk, Deliver
      <4> QED BY <1>1, <1>3, <2>4, <3>2, <4>1
    <3>3. CASE SendFail(d, g)
      BY <1>8, <3>1, <3>3 DEF SendFail
    <3>4. CASE SendTimeout(d, g)
      BY <1>8, <2>4, <3>4 DEF SendTimeout
    <3> QED BY <3>2, <3>3, <3>4
  <2>5. CASE e \notin g \ disp[d].stale
    <3>1. announced'[e] = announced[e]
      BY <2>5 DEF SendOk, SendFail, SendTimeout, Deliver
    <3> QED BY <1>5, <1>8, <2>2, <3>1
  <2> QED BY <2>4, <2>5
<1> QED BY <1>3, <1>4, <1>6, <1>7, <1>8, OnlyRecord

\* It takes the rows that are due: they are pending, and it was idle.
LEMMA StartingKeepsOnce ==
  ASSUME TypeOK, OnceInv, OneDispatcher, NEW d \in Dispatchers, NEW P, DispatchStart(d, P)
  PROVE  OnceInv'
<1>1. PICK Q : /\ Grouping(P, Q)
               /\ disp' = [disp EXCEPT ![d] = [IdleDispatcher EXCEPT !.pc = "send", !.queue = Q]]
  BY DEF DispatchStart
<1> DEFINE r == [IdleDispatcher EXCEPT !.pc = "send", !.queue = Q]
<1>2. r.pc = "send" /\ r.queue = Q /\ r.group = {} /\ r.stale = {}
  BY DEF IdleDispatcher
<1>3. disp'[d] = r
  BY <1>1 DEF TypeOK
<1> HIDE DEF r
<1>4. /\ note' = note /\ announced' = announced /\ unmarked' = unmarked
      /\ disp[d].pc = "idle"
      /\ \A e \in P : note[e] = "pending"
  BY DEF DispatchStart, Due, rowVars
<1>5. \A g \in r.queue : \A e \in g \ r.stale : note'[e] = "pending"
  BY <1>1, <1>2, <1>4, GroupsPartition
<1>6. \A g \in r.queue : /\ g \cap r.group = {}
                         /\ \A h \in r.queue : g = h \/ g \cap h = {}
  BY <1>1, <1>2, GroupsPartition
<1>7. \A e \in Episodes \ unmarked' : announced'[e] >= 1 =>
        announced'[e] = 1 /\ note'[e] = "sent"
  BY <1>4 DEF OnceInv, AnnouncedOnce, OneDispatcher
<1> QED BY <1>2, <1>3, <1>5, <1>6, <1>7, OnlyRecord

\* What AfterMark leaves of a record that is marking.
LEMMA AfterMarkRest ==
  ASSUME NEW r \in DispatcherRecord, NEW e \in Episodes, r.pc = "mark", e \in r.group
  PROVE  LET q == AfterMark(r, e) IN
         /\ q.queue \subseteq r.queue /\ q.group \subseteq r.group
         /\ q.queue # {} => q.stale = r.stale
         /\ q.pc # "mark" => q.group = {}
         /\ r.group # {e} => /\ q.pc = "mark" /\ q.ok = r.ok /\ q.stale = r.stale
                             /\ q.group = r.group \ {e}
<1>1. CASE r.group # {e}
  BY <1>1 DEF AfterMark, DispatcherRecord
<1>2. CASE r.group = {e} /\ r.queue # {}
  BY <1>2 DEF AfterMark, DispatcherRecord
<1>3. CASE r.group = {e} /\ r.queue = {}
  BY <1>3 DEF AfterMark, DispatcherRecord, IdleDispatcher
<1> QED BY <1>1, <1>2, <1>3

\* It marks a row as failed: nothing of the group counts as delivered.
LEMMA FailingKeepsOnce ==
  ASSUME TypeOK, OnceInv, OneDispatcher, NEW d \in Dispatchers, NEW e \in Episodes,
         MarkFailed(d, e)
  PROVE  OnceInv'
<1> DEFINE r == AfterMark(disp[d], e)
<1>1. disp[d] \in DispatcherRecord /\ disp[d].pc = "mark" /\ e \in disp[d].group
  BY DEF TypeOK, MarkFailed, Marking
<1>2. /\ r.queue \subseteq disp[d].queue /\ r.group \subseteq disp[d].group
      /\ r.queue # {} => r.stale = disp[d].stale
      /\ r.pc # "mark" => r.group = {}
  BY <1>1, AfterMarkRest
<1>3. disp'[d] = r
  BY DEF MarkFailed, TypeOK
<1> HIDE DEF r
<1>4. note' = note /\ announced' = announced /\ unmarked' = unmarked /\ ~disp[d].ok
  BY DEF MarkFailed, rowVars
<1>5. \A g \in r.queue : \A f \in g \ r.stale : note'[f] = "pending"
  BY <1>2, <1>4 DEF OnceInv, QueueIsPending
<1>6. \A g \in r.queue : /\ g \cap r.group = {}
                         /\ \A h \in r.queue : g = h \/ g \cap h = {}
  BY <1>2 DEF OnceInv, QueueIsDisjoint
<1>7. \A f \in Episodes \ unmarked' : announced'[f] >= 1 =>
        announced'[f] = 1 /\ note'[f] = "sent"
  BY <1>4 DEF OnceInv, AnnouncedOnce, OneDispatcher
<1> QED BY <1>2, <1>3, <1>5, <1>6, <1>7, OnlyRecord

\* It ends early: what it had delivered and not marked counts as unmarked.
LEMMA ExitingKeepsOnce ==
  ASSUME TypeOK, OnceInv, OneDispatcher, NEW d \in Dispatchers, DispatchExit(d)
  PROVE  OnceInv'
<1>1. disp'[d] = IdleDispatcher
  BY DEF DispatchExit, TypeOK
<1>2. /\ IdleDispatcher.queue = {} /\ IdleDispatcher.group = {}
      /\ IdleDispatcher.pc # "mark"
  BY DEF IdleDispatcher
<1>3. \A e \in Episodes \ unmarked' : announced'[e] >= 1 =>
        announced'[e] = 1 /\ note'[e] = "sent"
  BY DEF DispatchExit, rowVars, OnceInv, AnnouncedOnce, OneDispatcher
<1> QED BY <1>1, <1>2, <1>3, OnlyRecord

\* It marks a row as sent.  A pending row belongs to a confirmed episode, so none of
\* those it still has to send is trimmed.
LEMMA MarkingKeepsOnce ==
  ASSUME TypeOK, RowsAgree, OnceInv, OneDispatcher, NEW d \in Dispatchers,
         NEW e \in Episodes, MarkSent(d, e)
  PROVE  OnceInv'
<1> DEFINE r == AfterMark(disp[d], e)
           s == Trimmed([ep EXCEPT ![e] = "notified"], total)
           next == [f \in Episodes |->
                     IF /\ f = e + 1 /\ s[f] = "absent"
                        /\ ~Settles(s, total) /\ Advances(e, total)
                     THEN "open" ELSE s[f]]
           gone == Absent(next)
<1>1. /\ disp[d] \in DispatcherRecord /\ disp[d].pc = "mark" /\ disp[d].ok
      /\ e \in disp[d].group /\ e \notin disp[d].stale
  BY DEF TypeOK, MarkSent, Marking
<1>2. /\ r.queue \subseteq disp[d].queue /\ r.group \subseteq disp[d].group
      /\ r.queue # {} => r.stale = disp[d].stale
      /\ r.pc # "mark" => r.group = {}
      /\ disp[d].group # {e} =>
           /\ r.pc = "mark" /\ r.ok = disp[d].ok /\ r.stale = disp[d].stale
           /\ r.group = disp[d].group \ {e}
  BY <1>1, AfterMarkRest
<1>3. /\ disp'[d] = r
      /\ note' = [f \in Episodes |->
                   IF f \in gone THEN "none" ELSE IF f = e THEN "sent" ELSE note[f]]
      /\ announced' = [f \in Episodes |-> IF f \in gone THEN 0 ELSE announced[f]]
      /\ unmarked' = unmarked \ gone
  BY DEF MarkSent
<1> HIDE DEF r
<1>4. \A f \in Episodes : note[f] = "pending" => f \notin gone
  BY DEF RowsAgree, Absent, Trimmed, Completed, TypeOK
<1> HIDE DEF next, gone
<1>5. ASSUME NEW g \in r.queue, NEW f \in g, f \notin r.stale
      PROVE  note'[f] = "pending"
  <2>1. g \in disp[d].queue /\ f \notin disp[d].stale
    BY <1>2, <1>5
  <2>2. f \in Episodes
    BY <1>1, <2>1 DEF DispatcherRecord
  <2>3. note[f] = "pending" /\ f # e
    BY <1>1, <2>1 DEF OnceInv, QueueIsPending, QueueIsDisjoint
  <2> QED BY <1>3, <1>4, <2>2, <2>3
<1>6. \A g \in r.queue : /\ g \cap r.group = {}
                         /\ \A h \in r.queue : g = h \/ g \cap h = {}
  BY <1>2 DEF OnceInv, QueueIsDisjoint
<1>7. ASSUME NEW f \in Episodes, f \notin unmarked', announced'[f] >= 1
      PROVE  /\ announced'[f] = 1
             /\ note'[f] = "sent" \/ (r.pc = "mark" /\ r.ok /\ f \in r.group \ r.stale)
  <2>1. f \notin gone /\ announced'[f] = announced[f] /\ f \notin unmarked
    BY <1>3, <1>7
  <2>2. /\ announced[f] = 1
        /\ note[f] = "sent" \/ f \in disp[d].group \ disp[d].stale
    BY <1>7, <2>1 DEF OnceInv, AnnouncedOnce, OneDispatcher
  <2>3. f = e \/ note[f] = "sent" => note'[f] = "sent"
    BY <1>3, <2>1
  <2>4. ASSUME f # e, f \in disp[d].group \ disp[d].stale
        PROVE  r.pc = "mark" /\ r.ok /\ f \in r.group \ r.stale
    <3>1. disp[d].group # {e}
      BY <2>4
    <3>2. r.pc = "mark" /\ r.ok
      BY <1>1, <1>2, <3>1, Zenon
    <3>3. f \in r.group \ r.stale
      BY <1>2, <2>4, <3>1
    <3> QED BY <3>2, <3>3
  <2> QED BY <2>1, <2>2, <2>3, <2>4
<1> QED BY <1>2, <1>3, <1>5, <1>6, <1>7, OnlyRecord

\* With one dispatcher every step keeps OnceInv.
LEMMA NextOnce ==
  ASSUME IInv, OnceInv, OneDispatcher, [Next]_vars
  PROVE  OnceInv'
<1>0. TypeOK /\ RowsAgree
  BY DEF IInv
<1>1. CASE UNCHANGED vars
  BY <1>1, UnchangedKeepsOnce DEF vars, rowVars
<1>2. CASE AnimeStep \/ EpisodeStep \/ SyncSteps
  BY <1>0, <1>2, OthersMoveRows, MovingKeepsOnce, UnchangedKeepsOnce DEF RowsMoved
<1>3. ASSUME NEW d \in Dispatchers, DispatchStep(d) PROVE OnceInv'
  BY <1>0, <1>3, StartingKeepsOnce, SendingKeepsOnce, FailingKeepsOnce, MarkingKeepsOnce,
     ExitingKeepsOnce DEF DispatchStep
<1> QED BY <1>1, <1>2, <1>3 DEF Next

\* With one dispatcher a message is repeated only after a lost reply, or when a
\* dispatch ended between the delivery and the mark.
THEOREM DuplicatesNeedLostReply == Spec => []DuplicateNeedsLostReply
<1>1. Init => (OneDispatcher => OnceInv)
  BY DEF Init, OnceInv, QueueIsPending, QueueIsDisjoint, AnnouncedOnce, IdleDispatcher
<1>2. IInv /\ (OneDispatcher => OnceInv) /\ [Next]_vars => (OneDispatcher => OnceInv)'
  BY NextOnce DEF OneDispatcher
<1>3. IInv /\ (OneDispatcher => OnceInv) => DuplicateNeedsLostReply
  BY DEF OneDispatcher, OnceInv, AnnouncedOnce, DuplicateNeedsLostReply, IInv, TypeOK
<1> QED BY <1>1, <1>2, <1>3, Invariance, PTL DEF Spec

-----------------------------------------------------------------------------
(* The handler of mark_episode_watched (WatchFlow), for every value of the  *)
(* constants.  What is proved above about the rows holds with the handler   *)
(* running, too; and its archive takes only what its query saw watched.     *)


\* Every step of the handler, on a well-typed memory of what it has read, is
\* a step of the lifecycle or changes none of its variables.
LEMMA WatchStepImplements ==
  ASSUME viewer \in ViewerRecord, WatchNext
  PROVE  [Next]_vars
<1>0. viewer.total \in 0 .. MaxEpisode
  BY DEF ViewerRecord
<1>1. ASSUME NEW e \in Episodes, WatchMark(e) PROVE [Next]_vars
  BY <1>1 DEF WatchMark, EpisodeStep, Next
<1>2. CASE WatchRead \/ WatchReady \/ WatchAbort
  BY <1>2 DEF WatchRead, WatchReady, WatchAbort
<1>3. CASE WatchComplete
  BY <1>0, <1>3 DEF WatchComplete, AnimeStep, Next
<1>4. CASE WatchArchive
  BY <1>0, <1>4 DEF WatchArchive, AnimeStep, Next
<1>5. CASE OtherStep
  BY <1>5 DEF OtherStep
<1> QED BY <1>1, <1>2, <1>3, <1>4, <1>5 DEF WatchNext, WatchStep

\* The handler's memory keeps its type.
LEMMA ViewerType ==
  ASSUME WatchTypeOK, WatchNext
  PROVE  viewer' \in ViewerRecord
<1>0. viewer \in ViewerRecord /\ total \in 0 .. MaxEpisode /\ origin \in 0 .. MaxEpisode
  BY DEF WatchTypeOK, TypeOK
<1>1. IdleViewer \in ViewerRecord
  BY MaxEpisodeAssumption DEF IdleViewer, ViewerRecord, Unknown
<1>2. ASSUME NEW e \in Episodes, WatchMark(e) PROVE viewer' \in ViewerRecord
  BY <1>0, <1>2 DEF WatchMark, ViewerRecord
<1>3. CASE WatchRead
  BY <1>0, <1>1, <1>3 DEF WatchRead, IdleViewer, ViewerRecord
<1>4. CASE WatchReady
  <2> DEFINE pc == IF viewer.complete THEN "complete" ELSE "archive"
  <2>1. CASE SeasonWatched(viewer.total, viewer.origin)
    <3>1. viewer' = [viewer EXCEPT !.pc = pc, !.seen = watched]
      BY <1>4, <2>1 DEF WatchReady
    <3>2. pc \in {"complete", "archive"} /\ watched \in SUBSET Episodes
      BY DEF WatchTypeOK, TypeOK
    <3> HIDE DEF pc
    <3> QED BY <1>0, <3>1, <3>2 DEF ViewerRecord
  <2>2. CASE ~SeasonWatched(viewer.total, viewer.origin)
    BY <1>1, <1>4, <2>2 DEF WatchReady
  <2> QED BY <2>1, <2>2
<1>5. CASE WatchComplete
  BY <1>0, <1>5 DEF WatchComplete, ViewerRecord
<1>6. CASE WatchArchive \/ WatchAbort \/ OtherStep
  BY <1>0, <1>1, <1>6 DEF WatchArchive, WatchAbort, OtherStep
<1> QED BY <1>2, <1>3, <1>4, <1>5, <1>6 DEF WatchNext, WatchStep

\* Type correctness with the handler.
LEMMA WatchInduction ==
  WatchTypeOK /\ [WatchNext]_watchVars => WatchTypeOK' /\ [Next]_vars
<1> SUFFICES ASSUME WatchTypeOK, [WatchNext]_watchVars
             PROVE  WatchTypeOK' /\ [Next]_vars
  OBVIOUS
<1>1. CASE WatchNext
  <2>1. [Next]_vars
    BY <1>1, WatchStepImplements DEF WatchTypeOK
  <2>2. TypeOK'
    BY <2>1, NextType DEF WatchTypeOK
  <2> QED BY <1>1, <2>1, <2>2, ViewerType DEF WatchTypeOK
<1>2. CASE UNCHANGED watchVars
  <2>1. UNCHANGED vars /\ viewer' = viewer
    BY <1>2 DEF watchVars
  <2>2. TypeOK'
    BY <2>1, NextType DEF WatchTypeOK
  <2> QED BY <2>1, <2>2 DEF WatchTypeOK
<1> QED BY <1>1, <1>2

\* The initial states are well typed.
LEMMA WatchInitType == WatchInit => WatchTypeOK
<1>1. IdleViewer \in ViewerRecord
  BY MaxEpisodeAssumption DEF IdleViewer, ViewerRecord, Unknown
<1> QED BY <1>1, InitType DEF WatchInit, WatchTypeOK

\* Type correctness of the lifecycle with the handler running.
THEOREM WatchTypeCorrect == WatchSpec => []WatchTypeOK
BY WatchInitType, WatchInduction, PTL DEF WatchSpec

\* Every behaviour with the handler is one of the lifecycle: its steps change the rows
\* through the lifecycle's operations only.
LEMMA WatchIsLifecycle == WatchSpec => Spec
<1>1. WatchInit => Init
  BY DEF WatchInit
<1> QED BY <1>1, WatchInduction, WatchTypeCorrect, PTL DEF WatchSpec, Spec

\* So whatever is proved of the rows and the deliveries holds with the handler under way.
THEOREM WatchKeepsRows ==
  WatchSpec => /\ [](RowsAgree /\ FinishedIsQuiet /\ TotalFitsMapping)
               /\ [](SentWasDelivered /\ DuplicateNeedsLostReply)
               /\ HistoryIsKept
BY WatchIsLifecycle, RowsAlwaysAgree, FinishedStaysQuiet, MappingAlwaysFits, SentIsDelivered,
   DuplicatesNeedLostReply, HistoryAlwaysKept, PTL

\* A handler that has passed its query knows a total, and saw every episode of the
\* season with that total watched.
SeenInv ==
  /\ viewer.pc \in {"ready", "complete", "archive"} => viewer.total # Unknown
  /\ viewer.pc \in {"complete", "archive"}
     => FirstEpisode(viewer.origin) .. FinalEpisode(viewer.total, viewer.origin)
          \subseteq viewer.seen

\* What the handler has seen stays true of its memory: it keeps the total and the origin
\* it read until it ends.
LEMMA SeenStep ==
  ASSUME WatchTypeOK, SeenInv, [WatchNext]_watchVars
  PROVE  SeenInv'
<1>0. viewer \in ViewerRecord
  BY DEF WatchTypeOK
<1>1. viewer' = IdleViewer => SeenInv'
  BY DEF IdleViewer, SeenInv
<1>2. viewer' = viewer => SeenInv'
  BY DEF SeenInv
<1>3. ASSUME NEW e \in Episodes, WatchMark(e) PROVE SeenInv'
  BY <1>0, <1>3 DEF WatchMark, SeenInv, ViewerRecord
<1>4. CASE WatchRead
  <2>1. CASE FinalEpisode(total, origin) = Unknown
    BY <1>1, <1>4, <2>1 DEF WatchRead
  <2>2. CASE FinalEpisode(total, origin) # Unknown
    <3>1. viewer'.pc = "ready" /\ viewer'.total = total
      BY <1>4, <2>2 DEF WatchRead, IdleViewer
    <3> QED BY <2>2, <3>1 DEF SeenInv, FinalEpisode
  <2> QED BY <2>1, <2>2
<1>5. CASE WatchReady
  <2>1. CASE SeasonWatched(viewer.total, viewer.origin)
    <3>1. /\ viewer'.total = viewer.total
          /\ viewer'.origin = viewer.origin
          /\ viewer'.seen = watched
      BY <1>0, <1>5, <2>1 DEF WatchReady, ViewerRecord
    <3>2. viewer.total # Unknown
      BY <1>5 DEF WatchReady, SeenInv
    <3> QED BY <2>1, <3>1, <3>2 DEF SeenInv, SeasonWatched
  <2>2. CASE ~SeasonWatched(viewer.total, viewer.origin)
    BY <1>1, <1>5, <2>2 DEF WatchReady
  <2> QED BY <2>1, <2>2
<1>6. CASE WatchComplete
  <2>1. /\ viewer.pc = "complete" /\ viewer'.total = viewer.total
        /\ viewer'.origin = viewer.origin /\ viewer'.seen = viewer.seen
    BY <1>0, <1>6 DEF WatchComplete, ViewerRecord
  <2> QED BY <2>1 DEF SeenInv
<1>7. CASE WatchArchive \/ WatchAbort \/ OtherStep
  BY <1>1, <1>2, <1>7 DEF WatchArchive, WatchAbort, OtherStep
<1>8. CASE UNCHANGED watchVars
  BY <1>2, <1>8 DEF watchVars
<1> QED BY <1>3, <1>4, <1>5, <1>6, <1>7, <1>8 DEF WatchNext, WatchStep

\* Only the handler's own archive is an archive of the handler.
LEMMA HandlerArchivesItself ==
  ASSUME HandlerArchives, [WatchNext]_watchVars
  PROVE  WatchArchive
<1>1. viewer.pc = "archive" /\ viewer' = IdleViewer /\ IdleViewer.pc = "idle"
  BY DEF HandlerArchives, IdleViewer
<1>2. viewer' # viewer
  BY <1>1
<1>3. lifecycle' # lifecycle /\ lifecycle' # "none"
  BY DEF HandlerArchives
<1>4. ~ UNCHANGED watchVars /\ ~ OtherStep
  BY <1>2, <1>3 DEF watchVars, OtherStep
<1>5. ~ (WatchRead \/ WatchReady \/ WatchAbort)
  BY <1>3 DEF WatchRead, WatchReady, WatchAbort, vars, animeVars
<1>6. ~ WatchComplete /\ ~ \E e \in Episodes : WatchMark(e)
  BY <1>1 DEF WatchComplete, WatchMark
<1> QED BY <1>4, <1>5, <1>6 DEF WatchNext, WatchStep

\* An archive on the handler's total meets the history its query saw.
LEMMA ArchiveMeetsSeen ==
  ASSUME WatchTypeOK, SeenInv, WatchArchive, origin = viewer.origin,
         NEW e \in Episodes, Completed(ep[e]), e >= FirstEpisode(origin)
  PROVE  e \in viewer.seen
<1>1. viewer.pc = "archive" /\ Archive(viewer.total)
  BY DEF WatchArchive
<1>2. viewer.total # Unknown
  BY <1>1 DEF SeenInv
<1>3. CoversHistory(ep, viewer.total, origin)
  BY <1>1, <1>2 DEF Archive, InferredTotal
<1>4. e <= FinalEpisode(viewer.total, origin)
  BY <1>3 DEF CoversHistory
<1>5. /\ e \in Int /\ FirstEpisode(origin) \in Int
      /\ FinalEpisode(viewer.total, origin) \in Int
  BY MaxEpisodeAssumption
  DEF WatchTypeOK, TypeOK, ViewerRecord, Episodes, FirstEpisode, FinalEpisode, Unknown
<1>6. e \in FirstEpisode(origin) .. FinalEpisode(viewer.total, origin)
  BY <1>4, <1>5
<1> QED BY <1>1, <1>6 DEF SeenInv

\* However late the handler's archive comes, it takes no released episode of the season
\* that its query did not see watched: for any number of episodes, any origins, release
\* plans and dispatchers.
THEOREM ArchivesAlwaysSeen == WatchSpec => ArchivesWhatItSaw
<1>1. WatchInit => SeenInv
  BY DEF WatchInit, IdleViewer, SeenInv
<1>2. WatchTypeOK /\ SeenInv /\ [WatchNext]_watchVars => SeenInv'
  BY SeenStep
<1>3. WatchTypeOK /\ SeenInv /\ [WatchNext]_watchVars
      => [ HandlerArchives /\ origin = viewer.origin
           => \A e \in Episodes :
                Completed(ep[e]) /\ e >= FirstEpisode(origin) => e \in viewer.seen ]_watchVars
  BY HandlerArchivesItself, ArchiveMeetsSeen
<1> QED BY <1>1, <1>2, <1>3, WatchTypeCorrect, PTL DEF WatchSpec, ArchivesWhatItSaw
=============================================================================
