---------------------------- MODULE TitleIdentity ----------------------------
(***************************************************************************)
(* How schedule/mod.rs decides that an entry of AnimeSchedule is the season *)
(* that a Bangumi subject names.  Titles are values after normalisation;    *)
(* which of them differ only in spelling, and what is left of one without   *)
(* its season and part, is given.                                           *)
(***************************************************************************)
EXTENDS Integers, FiniteSets, BroadcastCatalog

CONSTANTS Alike(_, _),  \* equivalent_title_spelling
          Core(_)       \* title_without_installment

\* Titles that are the same or only spelled differently meet.
Meet(S, T)      == S \cap T # {}
MeetAlike(S, T) == \E s \in S, t \in T : s = t \/ Alike(s, t)

\* ordinal_sets_conflict: a side that names two seasons is of no use either.
Conflict(S, T) ==
  \/ Cardinality(S) > 1 \/ Cardinality(T) > 1
  \/ S # {} /\ T # {} /\ S # T

SameOrdinal(S, T) == Cardinality(S) = 1 /\ S = T

\* The days of the month an entry without a first day is announced for.
MonthDays == 30

\* anime_schedule_release_conflicts
ReleaseConflicts(date, m) ==
  /\ date # None
  /\ IF m.premier # None THEN Gap(date, DateOf(m.premier)) > MaxStreamOffset
     ELSE /\ m.month # None
          /\ \/ m.month - date > MaxStreamOffset
             \/ date - (m.month + MonthDays - 1) > MaxStreamOffset

\* anime_schedule_matches_subject
MatchesSubject(s, m, anilist) ==
  LET sameId   == anilist # None /\ anilist = m.anilist
      all      == m.primary \cup m.others
      sameDay  == s.date # None /\ m.premier # None /\ s.date = DateOf(m.premier)
      oneSided == \/ (s.seasons = {}) # (m.seasons = {})
                  \/ (s.parts = {}) # (m.parts = {})
      cores(S) == { Core(t) : t \in S }
  IN  /\ anilist # None /\ m.anilist # None => anilist = m.anilist
      /\ s.titles # {} /\ all # {}
      /\ ~ReleaseConflicts(s.date, m)
      /\ s.tv /\ m.kinds # {} => m.kinds \cap {"tv", "tv-short"} # {}
      /\ ~Conflict(s.seasons, m.seasons) /\ ~Conflict(s.parts, m.parts)
      /\ \/ Meet(s.titles, m.primary) /\ (oneSided => sameDay \/ sameId)
         \/ MeetAlike(s.titles, all) /\ sameDay
         \/ /\ SameOrdinal(s.seasons, m.seasons) \/ SameOrdinal(s.parts, m.parts)
            /\ MeetAlike(cores(s.titles), cores(all))

\* select_anime_schedule_candidate: the only entry that is the subject's, or none.
Chosen(s, found, anilist) ==
  LET fits == { m \in found : MatchesSubject(s, m, anilist) } IN
  IF Cardinality(fits) = 1 THEN fits ELSE {}
=============================================================================
