-------------------------- MODULE BroadcastCatalog --------------------------
(***************************************************************************)
(* The estimate that schedule/mod.rs makes from the season catalogue: which *)
(* entry is meant, which platform's clock is used, and when an episode      *)
(* comes out by it.  Everything here is computed on answers already read.   *)
(*                                                                          *)
(* A time is a number of hours and a date a number of days, both on the     *)
(* clock of Asia/Tokyo, which has no change of hour; titles are values      *)
(* after normalisation.                                                     *)
(***************************************************************************)
EXTENDS Integers, Sequences, FiniteSets

CONSTANTS None,             \* no value
          Catalog,          \* the entries of the season catalogue
          Priority,         \* preferred_site, then stream_site_priority
          Excluded,         \* excluded_stream_sites
          Family,           \* which platforms count as one
          MaxStreamOffset,  \* max_stream_offset_days
          MaxCatalogOffset, \* max_catalog_offset_days
          MaxEpisodeNo      \* the largest episode number: 10 000

Pattern(anchor, period) == [anchor |-> anchor, period |-> period]

Patterns == [anchor : Int, period : Int]
Optional == Int \cup {None}

ASSUME CatalogAssumption ==
  /\ None \notin Int
  /\ Priority \in Seq(DOMAIN Family)
  /\ MaxStreamOffset \in 0 .. 31 /\ MaxCatalogOffset \in 0 .. 7
  /\ MaxEpisodeNo \in Nat \ {0}

\* A pattern or a first day may be missing; AnimeSchedule is none of the platforms.
ASSUME EntriesAssumption ==
  /\ \A i \in Catalog :
       /\ i.broadcast \in Patterns \cup {None} /\ i.begin \in Optional
       /\ \A s \in DOMAIN i.sites :
            i.sites[s].broadcast \in Patterns \cup {None} /\ i.sites[s].begin \in Optional
  /\ {"bangumi-data", "anime_schedule"} \cap DOMAIN Family = {}

Day  == 24
Week == 7 * Day

DateOf(t)  == t \div Day
ClockOf(t) == t % Day

Gap(a, b) == IF a < b THEN b - a ELSE a - b

OrElse(a, b) == IF a = None THEN b ELSE a

-----------------------------------------------------------------------------
(* Numbers.                                                                *)

\* EpisodeNumberMapping::mapped_numbers refuses what lies before the mapped origin.
Mappable(mapping, n) == mapping # None => n >= mapping.local

\* The episode's position in its season, and the number Bangumi shows.
IndexOf(mapping, n)  == IF mapping = None THEN n ELSE n - mapping.local + 1
NumberOf(mapping, n) == IF mapping = None THEN n ELSE mapping.bangumi + n - mapping.local

\* final_local_episode: the season still ends at a legal number.
TotalFits(mapping, total) ==
  (mapping # None /\ total # None) => mapping.local + total - 1 <= MaxEpisodeNo

\* episode_airdate: a page whose chapter carries another number says nothing.
AirdateOf(page, index, number) ==
  IF page.sort > 0 THEN IF page.sort = number THEN page.date ELSE None
  ELSE IF page.ep = index THEN page.date ELSE None

-----------------------------------------------------------------------------
(* The entry that is meant.                                                *)

\* match_item: by its subject, or by a title that only one entry has.
Matches(subject, title) ==
  IF subject # None THEN { i \in Catalog : i.subject = subject }
  ELSE { i \in Catalog : i.kind \in {"tv", "web"} /\ title \in i.titles }

-----------------------------------------------------------------------------
(* The platform whose clock is used.                                       *)

\* parse_recurrence knows weekly and daily patterns.
Parses(p) == p # None /\ p.period \in {7, 1}

\* The entry's own pattern, or a weekly one from its first day.
ItemPattern(i) ==
  IF i.broadcast # None THEN i.broadcast
  ELSE IF i.begin # None THEN Pattern(i.begin, 7) ELSE None

\* site_pattern: what the platform broadcasts, or its first day with the entry's period.
SitePattern(i, site) ==
  LET s == i.sites[site] IN
  IF s.broadcast # None THEN s.broadcast
  ELSE IF s.begin = None THEN None
  ELSE Pattern(s.begin, IF ItemPattern(i) = None THEN 7 ELSE ItemPattern(i).period)

Clock(source, kind, pattern) == [source |-> source, kind |-> kind, pattern |-> pattern]

\* A platform that still shows the first cour: its clock moved to this cour's first day.
Rebasable(elapsed, period, reference, catalogOrigin) ==
  /\ catalogOrigin = reference
  /\ period = 7
  /\ elapsed \in 28 .. 182 /\ elapsed % 7 = 0

\* Mutant: the pattern is left as it is.
RebasedInName(p, elapsed) == p

\* Its hour and weekday, from this cour's first day on.
Rebased(p, elapsed) == Pattern(p.anchor + elapsed * Day, 7)

\* stream_candidate: the platform's clock if its first day is near the season's.
StreamClocks(i, site, reference, catalogOrigin) ==
  IF site \notin DOMAIN i.sites \/ ~Parses(SitePattern(i, site)) THEN {}
  ELSE LET p       == SitePattern(i, site)
           elapsed == reference - DateOf(p.anchor) IN
       IF reference = None \/ Gap(DateOf(p.anchor), reference) <= MaxStreamOffset
       THEN { Clock(site, "stream", p) }
       ELSE IF Rebasable(elapsed, p.period, reference, catalogOrigin)
       THEN { Clock(site, "rebased", Rebased(p, elapsed)) }
       ELSE {}

Rank(site) == CHOOSE k \in DOMAIN Priority :
                Priority[k] = site /\ \A j \in 1 .. k - 1 : Priority[j] # site

\* Platforms of two families open within two hours of this one.
Corroborated(c, clocks) ==
  Cardinality({ Family[o.source] : o \in
    { o \in clocks : Gap(o.pattern.anchor, c.pattern.anchor) <= 2 } }) >= 2

Earlier(c, d) ==
  \/ c.pattern.anchor < d.pattern.anchor
  \/ c.pattern.anchor = d.pattern.anchor /\ Rank(c.source) <= Rank(d.source)

\* select_broadcast, as a set with the clock chosen, or none.
Selected(i, origin) ==
  LET pattern       == ItemPattern(i)
      catalogOrigin == IF Parses(pattern) THEN DateOf(pattern.anchor) ELSE None
      reference     == OrElse(origin, catalogOrigin)
      clocks        == UNION { StreamClocks(i, s, reference, catalogOrigin) :
                                 s \in { Priority[k] : k \in DOMAIN Priority } \ Excluded }
      agreed        == { c \in clocks : Corroborated(c, clocks) }
      preferred     == { c \in clocks : Rank(c.source) = 1 }
  IN  IF preferred # {} THEN preferred
      ELSE IF agreed # {} THEN { c \in agreed : \A d \in agreed : Earlier(c, d) }
      ELSE IF clocks # {} THEN { c \in clocks : \A d \in clocks : Rank(c.source) <= Rank(d.source) }
      ELSE IF pattern # None THEN { Clock("bangumi-data", "catalog", pattern) }
      ELSE {}

-----------------------------------------------------------------------------
(* The time of an episode by that clock.                                   *)

Tolerance(kind) == IF kind = "catalog" THEN MaxCatalogOffset ELSE MaxStreamOffset

\* expected_at: the chapter's date at the clock's hour, or so many periods after the
\* first day; nothing when the clock's first day and the season's lie too far apart.
ExpectedAt(clock, index, target, origin) ==
  LET p      == clock.pattern
      offset == DateOf(p.anchor) - origin IN
  IF target = None \/ origin = None THEN p.anchor + p.period * Day * (index - 1)
  ELSE IF Gap(DateOf(p.anchor), origin) > Tolerance(clock.kind) THEN None
  ELSE (target + offset) * Day + ClockOf(p.anchor)
=============================================================================
