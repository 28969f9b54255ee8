---------------------- MODULE ScheduleResolution_proofs ----------------------
(***************************************************************************)
(* Proofs about ScheduleResolution, for any catalogue, any request and any  *)
(* answers of the three services: what the timetables said is kept as it    *)
(* was read, a time is hidden for a reason, and the catalogue's estimate    *)
(* outlives every failure of the verification.                              *)
(***************************************************************************)
EXTENDS ScheduleResolution, WellFoundedInduction, TLAPS

-----------------------------------------------------------------------------
(* Lemmas about the catalogue's clock.                                     *)

ClockKinds == {"catalog", "stream", "rebased"}

Clocks == [source : DOMAIN Family \cup {"bangumi-data"}, kind : ClockKinds, pattern : Patterns]

\* A clock whose first day is the season's, or near enough to it for a platform.
NearSeason(c, reference) == Gap(DateOf(c.pattern.anchor), reference) <= MaxStreamOffset

\* A pattern moved by whole days begins that many days later.
LEMMA RebasedDate ==
  ASSUME NEW a \in Int, NEW r \in Int
  PROVE  DateOf(a + (r - DateOf(a)) * Day) = r /\ a + (r - DateOf(a)) * Day \in Int
BY DEF DateOf, Day

\* The patterns that an entry and its platforms give.
LEMMA PatternTypes ==
  ASSUME NEW i \in Catalog
  PROVE  /\ ItemPattern(i) \in Patterns \cup {None}
         /\ \A s \in DOMAIN i.sites : SitePattern(i, s) \in Patterns \cup {None}
<1>1. ItemPattern(i) \in Patterns \cup {None}
  BY EntriesAssumption DEF ItemPattern, Pattern, Patterns, Optional
<1>2. ASSUME NEW s \in DOMAIN i.sites PROVE SitePattern(i, s) \in Patterns \cup {None}
  <2>1. ItemPattern(i) # None => ItemPattern(i).period \in Int
    BY <1>1 DEF Patterns
  <2>2. \A a, p \in Int : Pattern(a, p) \in Patterns
    BY DEF Pattern, Patterns
  <2> QED BY <2>1, <2>2, EntriesAssumption DEF SitePattern, Optional
<1> QED BY <1>1, <1>2

\* A platform's clock is near the season's first day, or was moved there.
LEMMA StreamClockIsNear ==
  ASSUME NEW i \in Catalog, NEW site \in DOMAIN Family, NEW reference \in Optional,
         NEW origin, NEW c \in StreamClocks(i, site, reference, origin)
  PROVE  c \in Clocks /\ c.source = site /\ (reference # None => NearSeason(c, reference))
<1> DEFINE p == SitePattern(i, site)
           elapsed == reference - DateOf(p.anchor)
<1>1. site \in DOMAIN i.sites /\ Parses(p)
  BY DEF StreamClocks
<1>2. p \in Patterns
  BY <1>1, PatternTypes DEF Parses
<1>3. \/ /\ c = Clock(site, "stream", p)
         /\ reference = None \/ Gap(DateOf(p.anchor), reference) <= MaxStreamOffset
      \/ /\ c = Clock(site, "rebased", Rebased(p, elapsed))
         /\ reference # None
  BY <1>1 DEF StreamClocks
<1> HIDE DEF p
<1>4. CASE /\ c = Clock(site, "stream", p)
           /\ reference = None \/ Gap(DateOf(p.anchor), reference) <= MaxStreamOffset
  BY <1>2, <1>4 DEF Clock, Clocks, ClockKinds, NearSeason
<1>5. CASE c = Clock(site, "rebased", Rebased(p, elapsed)) /\ reference # None
  <2>1. p.anchor \in Int /\ reference \in Int
    BY <1>2, <1>5 DEF Patterns, Optional
  <2>2. /\ DateOf(p.anchor + elapsed * Day) = reference
        /\ p.anchor + elapsed * Day \in Int
    BY <2>1, RebasedDate
  <2>3. Rebased(p, elapsed) = [anchor |-> p.anchor + elapsed * Day, period |-> 7]
    BY DEF Rebased, Pattern
  <2>4. c \in Clocks /\ c.source = site /\ DateOf(c.pattern.anchor) = reference
    BY <1>5, <2>2, <2>3 DEF Clock, Clocks, ClockKinds, Patterns
  <2>5. Gap(reference, reference) = 0
    BY <2>1 DEF Gap
  <2> QED BY <2>4, <2>5, CatalogAssumption DEF NearSeason
<1> QED BY <1>3, <1>4, <1>5

\* Every clock that select_broadcast may choose: only the entry's own may lie far from
\* the season's first day.
LEMMA SelectedIsNear ==
  ASSUME NEW i \in Catalog, NEW origin \in Optional, NEW c \in Selected(i, origin)
  PROVE  /\ c \in Clocks
         /\ origin # None /\ c.kind # "catalog" => NearSeason(c, origin)
<1> DEFINE pattern       == ItemPattern(i)
           catalogOrigin == IF Parses(pattern) THEN DateOf(pattern.anchor) ELSE None
           reference     == OrElse(origin, catalogOrigin)
           sites         == { Priority[k] : k \in DOMAIN Priority } \ Excluded
           clocks        == UNION { StreamClocks(i, s, reference, catalogOrigin) : s \in sites }
<1>1. c \in clocks \/ (pattern # None /\ c = Clock("bangumi-data", "catalog", pattern))
  BY DEF Selected
<1>2. sites \subseteq DOMAIN Family
  BY CatalogAssumption
<1>3. reference \in Optional /\ (origin # None => reference = origin)
  <2>1. catalogOrigin \in Optional
    BY PatternTypes DEF Parses, Patterns, DateOf, Day, Optional
  <2> QED BY <2>1 DEF OrElse
<1> HIDE DEF pattern, catalogOrigin, reference, sites
<1>4. CASE c \in clocks
  <2>1. PICK s \in sites : c \in StreamClocks(i, s, reference, catalogOrigin)
    BY <1>4
  <2> QED BY <1>2, <1>3, <2>1, StreamClockIsNear
<1>5. CASE pattern # None /\ c = Clock("bangumi-data", "catalog", pattern)
  <2>1. pattern \in Patterns
    BY <1>5, PatternTypes DEF pattern
  <2> QED BY <1>5, <2>1 DEF Clock, Clocks, ClockKinds
<1> QED BY <1>1, <1>4, <1>5

\* expected_at gives a time, unless the clock lies far from the season's first day.
LEMMA ExpectedTime ==
  ASSUME NEW c \in Clocks, NEW index \in Int, NEW target \in Optional, NEW origin \in Optional
  PROVE  /\ ExpectedAt(c, index, target, origin) \in Optional
         /\ ExpectedAt(c, index, target, origin) = None =>
              origin # None /\ Gap(DateOf(c.pattern.anchor), origin) > Tolerance(c.kind)
<1> DEFINE p == c.pattern
<1>1. p.anchor \in Int /\ p.period \in Int
  BY DEF Clocks, Patterns
<1>2. p.period * Day * (index - 1) \in Int
  BY <1>1 DEF Day
<1>3. p.anchor + p.period * Day * (index - 1) \in Int
  BY <1>1, <1>2
<1>4. target # None /\ origin # None =>
        (target + (DateOf(p.anchor) - origin)) * Day + ClockOf(p.anchor) \in Int
  BY <1>1 DEF Day, DateOf, ClockOf, Optional
<1> HIDE DEF p
<1> QED BY <1>3, <1>4, CatalogAssumption DEF ExpectedAt, Optional, p

\* A chapter's date, and the numbers of a request.
LEMMA AirdateType ==
  ASSUME NEW a \in Chapters, NEW index, NEW number
  PROVE  AirdateOf(a, index, number) \in Optional
BY AnswersAssumption DEF AirdateOf, Optional

-----------------------------------------------------------------------------
(* One clock at most is chosen.                                            *)

\* A platform has one place in the order of priority.
LEMMA RankIsPlace ==
  ASSUME NEW s \in { Priority[k] : k \in DOMAIN Priority }
  PROVE  Rank(s) \in Nat /\ Rank(s) \in DOMAIN Priority /\ Priority[Rank(s)] = s
<1> DEFINE K == { k \in DOMAIN Priority : Priority[k] = s }
<1>1. DOMAIN Priority = 1 .. Len(Priority) /\ Len(Priority) \in Nat
  BY CatalogAssumption
<1>2. K # {} /\ K \subseteq Nat
  BY <1>1
<1>3. PICK k \in K : \A j \in K : ~ (<<j, k>> \in OpToRel(<, Nat))
  <2> HIDE DEF K
  <2> QED BY <1>2, NatLessThanWellFounded, WFMin
<1>4. \A j \in 1 .. k - 1 : Priority[j] # s
  <2> SUFFICES ASSUME NEW j \in 1 .. k - 1, Priority[j] = s PROVE FALSE
    OBVIOUS
  <2>1. k \in 1 .. Len(Priority)
    BY <1>1
  <2>2. j \in K /\ j \in Nat /\ k \in Nat /\ j < k
    BY <1>1, <2>1
  <2>3. <<j, k>> \in OpToRel(<, Nat)
    BY <2>2 DEF OpToRel
  <2> QED BY <1>3, <2>2, <2>3
<1>5. \E r \in DOMAIN Priority : Priority[r] = s /\ \A j \in 1 .. r - 1 : Priority[j] # s
  BY <1>3, <1>4
<1>6. Rank(s) \in DOMAIN Priority /\ Priority[Rank(s)] = s
  BY <1>5 DEF Rank
<1> QED BY <1>1, <1>6

\* select_broadcast depends on no order but that of priority and of time: of the clocks an
\* entry offers, however many platforms show it, at most one is chosen.
THEOREM OneClockIsSelected ==
  ASSUME NEW i \in Catalog, NEW origin \in Optional,
         NEW c \in Selected(i, origin), NEW d \in Selected(i, origin)
  PROVE  c = d
<1> DEFINE pattern       == ItemPattern(i)
           catalogOrigin == IF Parses(pattern) THEN DateOf(pattern.anchor) ELSE None
           reference     == OrElse(origin, catalogOrigin)
           sites         == { Priority[k] : k \in DOMAIN Priority } \ Excluded
           clocks        == UNION { StreamClocks(i, s, reference, catalogOrigin) : s \in sites }
           agreed        == { o \in clocks : Corroborated(o, clocks) }
           preferred     == { o \in clocks : Rank(o.source) = 1 }
<1>1. \/ c \in preferred /\ d \in preferred
      \/ c \in agreed /\ d \in agreed /\ Earlier(c, d) /\ Earlier(d, c)
      \/ /\ c \in clocks /\ d \in clocks
         /\ Rank(c.source) <= Rank(d.source) /\ Rank(d.source) <= Rank(c.source)
      \/ c = Clock("bangumi-data", "catalog", pattern) /\ d = Clock("bangumi-data", "catalog", pattern)
  BY DEF Selected
<1>2. sites \subseteq DOMAIN Family
  BY CatalogAssumption
<1>3. reference \in Optional
  <2>1. catalogOrigin \in Optional
    BY PatternTypes DEF Parses, Patterns, DateOf, Day, Optional
  <2> QED BY <2>1 DEF OrElse
<1>4. ASSUME NEW s \in sites, NEW a \in StreamClocks(i, s, reference, catalogOrigin)
      PROVE  /\ a.source = s /\ a.pattern.anchor \in Int
             /\ \A b \in StreamClocks(i, s, reference, catalogOrigin) : b = a
  <2> HIDE DEF pattern, catalogOrigin, reference, sites
  <2>1. \A b \in StreamClocks(i, s, reference, catalogOrigin) : b = a
    BY <1>4 DEF StreamClocks
  <2>2. a \in Clocks /\ a.source = s
    BY <1>2, <1>3, <1>4, StreamClockIsNear
  <2> QED BY <2>1, <2>2 DEF Clocks, Patterns
<1>5. ASSUME NEW a \in clocks, NEW b \in clocks, Rank(a.source) = Rank(b.source)
      PROVE  a = b
  <2>1. PICK s \in sites : a \in StreamClocks(i, s, reference, catalogOrigin)
    OBVIOUS
  <2>2. PICK t \in sites : b \in StreamClocks(i, t, reference, catalogOrigin)
    OBVIOUS
  <2>3. Priority[Rank(s)] = s /\ Priority[Rank(t)] = t
    BY RankIsPlace
  <2> HIDE DEF pattern, catalogOrigin, reference, sites, clocks
  <2>4. s = t
    BY <1>4, <1>5, <2>1, <2>2, <2>3
  <2> QED BY <1>4, <2>1, <2>2, <2>4
<1>6. \A a \in clocks : Rank(a.source) \in Nat /\ a.pattern.anchor \in Int
  <2> SUFFICES ASSUME NEW a \in clocks PROVE Rank(a.source) \in Nat /\ a.pattern.anchor \in Int
    OBVIOUS
  <2>1. PICK s \in sites : a \in StreamClocks(i, s, reference, catalogOrigin)
    OBVIOUS
  <2>2. Rank(s) \in Nat
    BY RankIsPlace
  <2> HIDE DEF pattern, catalogOrigin, reference, sites, clocks
  <2> QED BY <1>4, <2>1, <2>2
<1>7. preferred \subseteq clocks /\ agreed \subseteq clocks /\ \A a \in preferred : Rank(a.source) = 1
  OBVIOUS
<1> HIDE DEF pattern, catalogOrigin, reference, sites, clocks, agreed, preferred
<1>8. CASE c \in preferred /\ d \in preferred
  BY <1>5, <1>7, <1>8
<1>9. CASE c \in agreed /\ d \in agreed /\ Earlier(c, d) /\ Earlier(d, c)
  <2>1. Rank(c.source) = Rank(d.source)
    BY <1>6, <1>7, <1>9 DEF Earlier
  <2> QED BY <1>5, <1>7, <1>9, <2>1
<1>10. CASE /\ c \in clocks /\ d \in clocks
            /\ Rank(c.source) <= Rank(d.source) /\ Rank(d.source) <= Rank(c.source)
  <2>1. Rank(c.source) = Rank(d.source)
    BY <1>6, <1>10
  <2> QED BY <1>5, <1>10, <2>1
<1>11. CASE c = Clock("bangumi-data", "catalog", pattern) /\ d = Clock("bangumi-data", "catalog", pattern)
  BY <1>11
<1> QED BY <1>1, <1>8, <1>9, <1>10, <1>11

-----------------------------------------------------------------------------
(* What is kept of the timetables, row by row.                             *)

\* The best dated row of those read, the best undated one, and the ranges planned.
IsEarliest(b, D) ==
  IF D = {} THEN b = None
  ELSE b \in D /\ \A e \in D : \/ Span(b) < Span(e)
                               \/ Span(b) = Span(e) /\ ReleaseTime(b) <= ReleaseTime(e)

IsNarrowest(b, U) == IF U = {} THEN b = None ELSE b \in U /\ \A e \in U : Span(b) <= Span(e)

IsPlanning(p, P) ==
  /\ DOMAIN p = { <<e.first, e.last>> : e \in P }
  /\ \A e \in P : LET t == p[<<e.first, e.last>>] IN
                  /\ Known(ReleaseTime(e)) => Known(t) /\ t <= ReleaseTime(e)
                  /\ \E f \in P : <<f.first, f.last>> = <<e.first, e.last>> /\ ReleaseTime(f) = t

Plannings == UNION { [K -> Optional] : K \in SUBSET (Int \X Int) }

\* A row has a span, and a time or none.
LEMMA RowTypes ==
  ASSUME NEW e \in Entries
  PROVE  Span(e) \in Int /\ ReleaseTime(e) \in Optional /\ (Known(ReleaseTime(e)) => ReleaseTime(e) \in Int)
BY AnswersAssumption DEF Span, ReleaseTime, Known, Optional

\* Taking one more dated row, the best stays the best.
LEMMA EarliestKept ==
  ASSUME NEW D \in SUBSET Entries, NEW e \in Entries, NEW b, IsEarliest(b, D),
         \A d \in D \cup {e} : Known(ReleaseTime(d))
  PROVE  IsEarliest(IF Sooner(e, b) THEN e ELSE b, D \cup {e})
<1>1. \A d \in D \cup {e} : Span(d) \in Int /\ ReleaseTime(d) \in Int
  BY RowTypes
<1>2. CASE D = {}
  <2>1. b = None /\ Sooner(e, b) /\ D \cup {e} = {e}
    BY <1>2 DEF IsEarliest, Sooner
  <2> QED BY <1>1, <2>1 DEF IsEarliest
<1>3. CASE D # {}
  <2>1. b \in D /\ b # None
    BY <1>3, AnswersAssumption DEF IsEarliest
  <2>2. CASE Sooner(e, b)
    BY <1>1, <1>3, <2>1, <2>2 DEF IsEarliest, Sooner
  <2>3. CASE ~Sooner(e, b)
    BY <1>1, <1>3, <2>1, <2>3 DEF IsEarliest, Sooner
  <2> QED BY <2>2, <2>3
<1> QED BY <1>2, <1>3

\* And so for a row without a date.
LEMMA NarrowestKept ==
  ASSUME NEW U \in SUBSET Entries, NEW e \in Entries, NEW b, IsNarrowest(b, U)
  PROVE  IsNarrowest(IF Narrower(e, b) THEN e ELSE b, U \cup {e})
<1>1. \A d \in U \cup {e} : Span(d) \in Int
  BY RowTypes
<1>2. CASE U = {}
  <2>1. b = None /\ Narrower(e, b) /\ U \cup {e} = {e}
    BY <1>2 DEF IsNarrowest, Narrower
  <2> QED BY <1>1, <2>1 DEF IsNarrowest
<1>3. CASE U # {}
  <2>1. b \in U /\ b # None
    BY <1>3, AnswersAssumption DEF IsNarrowest
  <2> QED BY <1>1, <1>3, <2>1 DEF IsNarrowest, Narrower
<1> QED BY <1>2, <1>3

\* The row that speaks of the episode, of the narrowest undated and the earliest dated one.
Speaker(u, e) == IF u # None /\ Narrower(u, e) THEN u ELSE e

\* In whatever order the rows of a timetable come, and whichever of two equals is kept, the
\* same time is read from them (Entry is the Speaker of what lookup keeps): sorting them
\* first, as the code does, decides nothing else.
THEOREM RowOrderIsImmaterial ==
  ASSUME NEW D \in SUBSET Entries, \A d \in D : Known(ReleaseTime(d)),
         NEW U \in SUBSET Entries, \A u \in U : ~Known(ReleaseTime(u)),
         NEW a, NEW b, IsEarliest(a, D), IsEarliest(b, D),
         NEW p, NEW q, IsNarrowest(p, U), IsNarrowest(q, U)
  PROVE  /\ Speaker(p, a) = None <=> Speaker(q, b) = None
         /\ Speaker(p, a) # None => ReleaseTime(Speaker(p, a)) = ReleaseTime(Speaker(q, b))
<1>1. /\ \A d \in D : d # None /\ Span(d) \in Int /\ ReleaseTime(d) \in Int
      /\ \A u \in U : u # None /\ Span(u) \in Int /\ ReleaseTime(u) = None
  BY RowTypes, AnswersAssumption DEF Known
<1>2. \/ D = {} /\ a = None /\ b = None
      \/ a \in D /\ b \in D /\ Span(a) = Span(b) /\ ReleaseTime(a) = ReleaseTime(b)
  BY <1>1 DEF IsEarliest
<1>3. \/ U = {} /\ p = None /\ q = None
      \/ p \in U /\ q \in U /\ Span(p) = Span(q)
  BY <1>1 DEF IsNarrowest
<1>4. (p # None /\ Narrower(p, a)) <=> (q # None /\ Narrower(q, b))
  BY <1>1, <1>2, <1>3 DEF Narrower
<1>5. CASE p # None /\ Narrower(p, a)
  <2>1. Speaker(p, a) = p /\ Speaker(q, b) = q /\ p \in U /\ q \in U
    BY <1>3, <1>4, <1>5 DEF Speaker
  <2> QED BY <1>1, <2>1
<1>6. CASE ~(p # None /\ Narrower(p, a))
  <2>1. Speaker(p, a) = a /\ Speaker(q, b) = b
    BY <1>4, <1>6 DEF Speaker
  <2> QED BY <1>1, <1>2, <2>1
<1> QED BY <1>5, <1>6

\* A row about a range gives the range its date, unless it has an earlier one.
LEMMA PlanningKept ==
  ASSUME NEW p \in Plannings, NEW P \in SUBSET Entries, NEW e \in Entries,
         IsPlanning(p, P), Plans(e)
  PROVE  IsPlanning(Planned(p, e), P \cup {e})
<1> DEFINE k == <<e.first, e.last>>
           t == ReleaseTime(e)
           better == \/ k \notin DOMAIN p
                     \/ t # None /\ p[k] = None
                     \/ t # None /\ p[k] # None /\ t < p[k]
           q == [j \in DOMAIN p \cup { k } |-> IF j = k THEN t ELSE p[j]]
<1>1. Planned(p, e) = IF better THEN q ELSE p
  BY DEF Planned
<1>2. /\ \A f \in P \cup {e} : Known(ReleaseTime(f)) => ReleaseTime(f) \in Int
      /\ \A j \in DOMAIN p : p[j] # None => p[j] \in Int
  BY RowTypes DEF Plannings, Optional
<1>3. DOMAIN p = { <<f.first, f.last>> : f \in P }
  BY DEF IsPlanning
<1>4. CASE better
  <2>1. DOMAIN q = { <<f.first, f.last>> : f \in P \cup {e} }
    BY <1>3
  <2>2. ASSUME NEW f \in P \cup {e}, Known(ReleaseTime(f))
        PROVE  Known(q[<<f.first, f.last>>]) /\ q[<<f.first, f.last>>] <= ReleaseTime(f)
    <3>1. CASE <<f.first, f.last>> = k
      <4>1. q[<<f.first, f.last>>] = t
        BY <3>1
      <4>2. CASE f = e
        BY <1>2, <2>2, <4>1, <4>2
      <4>3. CASE f \in P
        <5>1. k \in DOMAIN p /\ Known(p[k]) /\ p[k] <= ReleaseTime(f)
          BY <1>3, <2>2, <3>1, <4>3 DEF IsPlanning
        <5>2. t # None /\ t < p[k]
          BY <1>4, <5>1 DEF Known
        <5>3. t \in Int /\ p[k] \in Int /\ ReleaseTime(f) \in Int
          BY <1>2, <2>2, <5>1, <5>2 DEF Known
        <5> HIDE DEF t, k, q
        <5> QED BY <4>1, <5>1, <5>2, <5>3 DEF Known
      <4> QED BY <4>2, <4>3
    <3>2. CASE <<f.first, f.last>> # k
      <4>1. f \in P
        BY <3>2
      <4>2. q[<<f.first, f.last>>] = p[<<f.first, f.last>>]
        BY <1>3, <3>2, <4>1
      <4> HIDE DEF q
      <4> QED BY <2>2, <4>1, <4>2 DEF IsPlanning
    <3> QED BY <3>1, <3>2
  <2>3. ASSUME NEW f \in P \cup {e}
        PROVE  \E g \in P \cup {e} :
                 <<g.first, g.last>> = <<f.first, f.last>> /\ ReleaseTime(g) = q[<<f.first, f.last>>]
    <3>1. CASE <<f.first, f.last>> = k
      BY <3>1
    <3>2. CASE <<f.first, f.last>> # k
      <4>1. f \in P /\ q[<<f.first, f.last>>] = p[<<f.first, f.last>>]
        BY <1>3, <3>2
      <4> HIDE DEF q
      <4> QED BY <4>1 DEF IsPlanning
    <3> QED BY <3>1, <3>2
  <2>4. Planned(p, e) = q
    BY <1>1, <1>4
  <2> HIDE DEF q
  <2>5. ASSUME NEW f \in P \cup {e}
        PROVE  LET s == q[<<f.first, f.last>>] IN
               /\ Known(ReleaseTime(f)) => Known(s) /\ s <= ReleaseTime(f)
               /\ \E g \in P \cup {e} : <<g.first, g.last>> = <<f.first, f.last>> /\ ReleaseTime(g) = s
    BY <2>2, <2>3
  <2> QED BY <2>1, <2>4, <2>5 DEF IsPlanning
<1>5. CASE ~better
  <2>1. DOMAIN p = { <<f.first, f.last>> : f \in P \cup {e} }
    BY <1>3, <1>5
  <2>2. Known(t) => Known(p[k]) /\ p[k] <= t
    <3>1. k \in DOMAIN p
      BY <1>5
    <3>2. Known(t) => p[k] # None /\ ~(t < p[k])
      BY <1>5 DEF Known
    <3>3. Known(t) => t \in Int
      BY <1>2
    <3> HIDE DEF t, k
    <3> QED BY <1>2, <3>1, <3>2, <3>3 DEF Known
  <2>3. Planned(p, e) = p
    BY <1>1, <1>5
  <2>4. \E g \in P : <<g.first, g.last>> = k /\ ReleaseTime(g) = p[k]
    <3>1. PICK f \in P : <<f.first, f.last>> = k
      BY <1>3, <1>5
    <3> QED BY <3>1 DEF IsPlanning
  <2> HIDE DEF k, t
  <2>5. ASSUME NEW f \in P \cup {e}
        PROVE  LET s == p[<<f.first, f.last>>] IN
               /\ Known(ReleaseTime(f)) => Known(s) /\ s <= ReleaseTime(f)
               /\ \E g \in P \cup {e} : <<g.first, g.last>> = <<f.first, f.last>> /\ ReleaseTime(g) = s
    <3>1. CASE f = e
      BY <2>2, <2>4, <3>1 DEF k, t
    <3>2. CASE f \in P
      BY <3>2 DEF IsPlanning
    <3> QED BY <3>1, <3>2
  <2> QED BY <2>1, <2>3, <2>5 DEF IsPlanning
<1> QED BY <1>4, <1>5

\* The ranges stay ranges of numbers, with a time or none each.
LEMMA PlanningType ==
  ASSUME NEW p \in Plannings, NEW e \in Entries
  PROVE  Planned(p, e) \in Plannings
<1> DEFINE k == <<e.first, e.last>>
           q == [j \in DOMAIN p \cup { k } |-> IF j = k THEN ReleaseTime(e) ELSE p[j]]
<1>1. PICK K \in SUBSET (Int \X Int) : p \in [K -> Optional]
  BY DEF Plannings
<1>2. k \in Int \X Int
  BY AnswersAssumption
<1>3. q \in [K \cup {k} -> Optional]
  BY <1>1, RowTypes
<1>4. q \in Plannings
  BY <1>2, <1>3 DEF Plannings
<1> QED BY <1>4 DEF Planned

-----------------------------------------------------------------------------
(* The invariant: the types, what each stage knows, and the properties.    *)

Stages    == {"start", "airdate", "origin", "subject", "chapter", "media", "weeks", "done"}
Estimates == [at : Int, confidence : {"date_only", "estimated", "calibrated"}, ask : BOOLEAN]
Seasons   == [subject : SubjectAnswers \cup {None}, airdate : Optional, total : Optional,
              media : MediaAnswers \cup {None}]
Lookups   == [weeks : SUBSET Int, queue : SUBSET Entries, seen : SUBSET Entries,
              earliest : Entries \cup {None}, unknown : Entries \cup {None}, plans : Plannings]

\* Types: every stage is one of resolve_auto's, and what is not known yet is None.
ResolutionTypeOK ==
  /\ stage \in Stages /\ request \in Requests
  /\ item \in Catalog \cup {None}
  /\ dates \in [target : Optional, total : Optional]
  /\ estimate \in Outcomes \cup {None}
  /\ season \in Seasons
  /\ answer \in Estimates \cup {None}
  /\ lookup \in Lookups
  /\ outcome \in Outcomes \cup {None, Refused}

\* What has been asked for at each stage, and what cannot be there yet.
StagesAgree ==
  /\ stage \in {"airdate", "origin"} => item \in Catalog
  /\ stage \in {"start", "airdate", "origin"} => estimate = None
  /\ stage \in {"start", "airdate", "origin", "subject"} => season = NoSeason
  /\ stage \in {"chapter", "media", "weeks"} => season.subject \in SubjectAnswers
  /\ stage \in {"chapter", "media"} => season.media = None
  /\ stage = "weeks" => season.media \in MediaAnswers /\ answer \in Estimates
  /\ stage \notin {"weeks", "done"} => lookup = NoLookup
  /\ season.media # None => stage \in {"weeks", "done"}
  /\ estimate # None => estimate.source # "anime_schedule"

\* TimetableAgrees, in the words of the lemmas.
ReadAgrees ==
  /\ IsEarliest(lookup.earliest, Dated)
  /\ IsNarrowest(lookup.unknown, Undated)
  /\ IsPlanning(lookup.plans, { f \in lookup.seen : Plans(f) })

ReadKept == season.media # None => ReadAgrees

ResolutionInv ==
  /\ ResolutionTypeOK /\ StagesAgree /\ ReadKept
  /\ HiddenClockIsCatalog /\ DelayHidesTime /\ CatalogOutlivesOutage

LEMMA ReadMeansAgrees == ReadKept <=> TimetableAgrees
BY DEF ReadKept, ReadAgrees, TimetableAgrees, IsEarliest, IsNarrowest, IsPlanning

-----------------------------------------------------------------------------
(* The numbers and the estimates are of their types.                       *)

LEMMA NumbersType ==
  ASSUME ResolutionTypeOK
  PROVE  Index \in Int /\ Number \in Int /\ Origin \in Int /\ Shift \in Int
<1>1. request.episode \in Int /\ request.mapping \in [local : Int, bangumi : Int] \cup {None}
  BY AnswersAssumption DEF ResolutionTypeOK
<1>2. CASE request.mapping = None
  BY <1>1, <1>2 DEF Index, Number, Origin, Shift, IndexOf, NumberOf
<1>3. CASE request.mapping # None
  <2>1. request.mapping.local \in Int /\ request.mapping.bangumi \in Int
    BY <1>1, <1>3
  <2> QED BY <1>1, <1>3, <2>1 DEF Index, Number, Origin, Shift, IndexOf, NumberOf
<1> QED BY <1>2, <1>3

\* A chapter's answer, or none.
LEMMA ChapterType ==
  ASSUME NEW a \in Chapters \cup {Failed}, NEW index, NEW number
  PROVE  /\ (IF a = Failed THEN None ELSE AirdateOf(a, index, number)) \in Optional
         /\ (IF a = Failed THEN None ELSE a.total) \in Optional
BY AnswersAssumption, AirdateType DEF Optional

\* An entry's override begins at a number.
LEMMA OverrideType ==
  ASSUME NEW m \in MediaAnswers, m.override # None
  PROVE  /\ m.override.episode \in Int /\ m.override.aired \in Int /\ m.override.at \in Optional
         /\ FirstOf(m.override) \in Int
BY AnswersAssumption DEF FirstOf, Upper

\* A stage's answer from AnimeSchedule's entry is an estimate, or there is none.
LEMMA PremiereType ==
  ASSUME ResolutionTypeOK, NEW m \in MediaAnswers, Known(m.premier), season.subject \in SubjectAnswers
  PROVE  FromPremiere(m, season.airdate) \in Int
<1>1. m.premier \in Int /\ season.airdate \in Optional /\ season.subject.date \in Optional /\ Index \in Int
  BY AnswersAssumption, NumbersType DEF Known, Optional, ResolutionTypeOK, Seasons
<1>2. m.premier + Week * (Index - 1) \in Int
  BY <1>1 DEF Week, Day
<1>3. season.airdate # None =>
        (season.airdate + (IF season.subject.date = None THEN 0
                           ELSE DateOf(m.premier) - season.subject.date)) * Day + ClockOf(m.premier) \in Int
  BY <1>1 DEF Optional, DateOf, ClockOf, Day
<1> QED BY <1>1, <1>2, <1>3 DEF FromPremiere

LEMMA EstimateType ==
  ASSUME ResolutionTypeOK, NEW m \in MediaAnswers, season.subject \in SubjectAnswers
  PROVE  EstimateFrom(m) \in Estimates \cup {None}
<1> DEFINE airdate == season.airdate
           start   == OrElse(airdate, OrElse(season.subject.date, m.month))
           weekly  == IF airdate # None \/ FullBatch(m) THEN 0 ELSE 7 * (Index - 1)
           dated   == airdate # None \/ season.subject.date # None
<1>1. \A t \in Int, c \in {"date_only", "estimated", "calibrated"}, k \in BOOLEAN :
        Estimate(t, c, k) \in Estimates
  BY DEF Estimate, Estimates
<1>2. Index \in Int /\ airdate \in Optional /\ season.subject.date \in Optional
  BY AnswersAssumption, NumbersType DEF ResolutionTypeOK, Seasons
<1>3. CASE Covers(m.override, Index)
  <2>1. m.override.at \in Int
    BY <1>3, OverrideType DEF Covers, Sound, Optional
  <2> QED BY <1>1, <1>3, <2>1 DEF EstimateFrom
<1>4. CASE ~Covers(m.override, Index) /\ Anchors(m.override, Index)
  <2>1. m.override.at \in Int /\ m.override.episode \in Int
    BY <1>4, OverrideType DEF Anchors, Sound, Optional
  <2>2. m.override.at + Week * (Index - m.override.episode) \in Int
    BY <1>2, <2>1 DEF Week, Day
  <2> QED BY <1>1, <1>4, <2>2 DEF EstimateFrom
<1>5. CASE ~Covers(m.override, Index) /\ ~Anchors(m.override, Index) /\ Known(m.premier)
  <2>1. Delayed(m, FromPremiere(m, airdate)) \in Int
    BY <1>5, PremiereType, AnswersAssumption DEF Delayed, Optional
  <2>2. (IF Index = 1 \/ FullBatch(m) THEN "calibrated" ELSE "estimated")
          \in {"date_only", "estimated", "calibrated"}
    OBVIOUS
  <2> QED BY <1>1, <1>5, <2>1, <2>2 DEF EstimateFrom
<1>6. CASE ~Covers(m.override, Index) /\ ~Anchors(m.override, Index) /\ ~Known(m.premier)
  <2>1. start \in Optional /\ weekly \in Int /\ dated \in BOOLEAN
    BY <1>2, AnswersAssumption DEF OrElse
  <2>2. start # None => (start + weekly) * Day + ZoneLag \in Int
    <3> HIDE DEF start, weekly
    <3> QED BY <2>1, ResolutionAssumption DEF Optional, Day
  <2>3. EstimateFrom(m) = IF start = None THEN None
                          ELSE Estimate((start + weekly) * Day + ZoneLag, "date_only", dated)
    BY <1>6 DEF EstimateFrom
  <2> HIDE DEF start, weekly, dated
  <2> QED BY <1>1, <2>1, <2>2, <2>3
<1> QED BY <1>3, <1>4, <1>5, <1>6

\* What AnimeSchedule makes of the episode is a schedule.
LEMMA BatchesType ==
  ASSUME ResolutionTypeOK, season.media \in MediaAnswers
  PROVE  Batches \subseteq [first : Int, last : Int, at : Optional]
<1> DEFINE o == season.media.override
           planned == { [first |-> k[1] + Shift, last |-> k[2] + Shift, at |-> lookup.plans[k]] :
                          k \in DOMAIN lookup.plans }
<1>1. Shift \in Int
  BY NumbersType
<1>2. planned \subseteq [first : Int, last : Int, at : Optional]
  <2>1. PICK K \in SUBSET (Int \X Int) : lookup.plans \in [K -> Optional]
    BY DEF ResolutionTypeOK, Lookups, Plannings
  <2>2. \A k \in DOMAIN lookup.plans : k[1] \in Int /\ k[2] \in Int /\ lookup.plans[k] \in Optional
    BY <2>1
  <2> QED BY <1>1, <2>2
<1>3. Sound(o) => FirstOf(o) \in Int /\ o.episode \in Int /\ o.at \in Optional
  BY OverrideType DEF Sound
<1>4. Sound(o) => [first |-> FirstOf(o) + Shift, last |-> o.episode + Shift, at |-> o.at]
                    \in [first : Int, last : Int, at : Optional]
  <2> HIDE DEF o
  <2> QED BY <1>1, <1>3
<1> HIDE DEF planned
<1> QED BY <1>2, <1>4 DEF Batches, planned

LEMMA EntryType ==
  ASSUME ResolutionTypeOK
  PROVE  Entry \in Entries \cup {None}
BY DEF Entry, ResolutionTypeOK, Lookups

LEMMA VerifiedType ==
  ASSUME ResolutionTypeOK, season.media \in MediaAnswers, answer \in Estimates
  PROVE  /\ Verified \in Outcomes /\ Verified.source = "anime_schedule"
         /\ Verified.at = IF Entry = None THEN answer.at ELSE ReleaseTime(Entry)
<1> DEFINE at == IF Entry = None THEN answer.at ELSE ReleaseTime(Entry)
           confidence == IF Entry = None THEN answer.confidence
                         ELSE IF at = None THEN "unavailable" ELSE "calibrated"
<1>1. at \in Optional
  BY EntryType, RowTypes DEF Estimates, Optional
<1>2. confidence \in {"unavailable", "date_only", "estimated", "calibrated"}
  BY DEF Estimates
<1>3. Batches \in SUBSET [first : Int, last : Int, at : Optional]
  BY BatchesType
<1>4. Verified = [at |-> at, confidence |-> confidence, source |-> "anime_schedule",
                  kind |-> "episode", batches |-> Batches]
  BY DEF Verified
<1> HIDE DEF at, confidence
<1>5. Verified \in Outcomes /\ Verified.source = "anime_schedule" /\ Verified.at = at
  BY <1>1, <1>2, <1>3, <1>4 DEF Outcomes
<1> QED BY <1>5 DEF at

\* The catalogue's estimate: a schedule whose time is hidden only with the entry's own clock.
Hideable(found) ==
  /\ found \in Outcomes /\ found.source # "anime_schedule"
  /\ found.confidence = "unavailable" => found.kind = "catalog"

LEMMA SettleGives ==
  ASSUME ResolutionTypeOK, item \in Catalog,
         NEW target \in Optional, NEW origin \in Optional, NEW total, Settle(target, origin, total)
  PROVE  /\ item' = None /\ dates' = NoDates
         /\ \/ stage' = "done" /\ outcome' = Refused /\ UNCHANGED estimate
            \/ stage' = "subject" /\ Hideable(estimate') /\ UNCHANGED outcome
            \/ stage' = "done" /\ Hideable(estimate') /\ outcome' = estimate'
<1> DEFINE chosen == Selected(item, origin)
           clock  == CHOOSE c \in chosen : TRUE
           refuse == \/ ~TotalFits(request.mapping, total)
                     \/ chosen = {} \/ ~Parses(clock.pattern)
           at     == ExpectedAt(clock, Index, target, origin)
           found  == [at         |-> at,
                      confidence |-> IF at = None THEN "unavailable" ELSE "estimated",
                      source     |-> clock.source, kind |-> clock.kind, batches |-> {}]
<1>1. /\ item' = None /\ dates' = NoDates
      /\ IF refuse THEN End(Refused) /\ UNCHANGED estimate
         ELSE /\ estimate' = found
              /\ IF Asks THEN stage' = "subject" /\ UNCHANGED outcome ELSE End(found)
  BY DEF Settle
<1>2. ~refuse => Hideable(found)
  <2> SUFFICES ASSUME ~refuse PROVE Hideable(found)
    OBVIOUS
  <2>1. clock \in Selected(item, origin)
    OBVIOUS
  <2> HIDE DEF clock
  <2>2. clock \in Clocks /\ (origin # None /\ clock.kind # "catalog" => NearSeason(clock, origin))
    BY <2>1, SelectedIsNear
  <2>3. /\ at \in Optional
        /\ at = None => origin # None /\ Gap(DateOf(clock.pattern.anchor), origin) > Tolerance(clock.kind)
    BY <2>2, NumbersType, ExpectedTime
  <2>4. at = None => clock.kind = "catalog"
    <3> SUFFICES ASSUME at = None, clock.kind # "catalog" PROVE FALSE
      OBVIOUS
    <3>1. /\ Gap(DateOf(clock.pattern.anchor), origin) > MaxStreamOffset
          /\ Gap(DateOf(clock.pattern.anchor), origin) <= MaxStreamOffset
      BY <2>2, <2>3 DEF Tolerance, NearSeason
    <3>2. Gap(DateOf(clock.pattern.anchor), origin) \in Int /\ MaxStreamOffset \in Int
      BY <2>2, <2>3, CatalogAssumption DEF Gap, DateOf, Day, Clocks, Patterns, Optional
    <3> QED BY <3>1, <3>2
  <2> HIDE DEF at
  <2>5. clock.source \in DOMAIN Family \cup {"bangumi-data"} /\ clock.kind \in ClockKinds
    BY <2>2 DEF Clocks
  <2>6. clock.source # "anime_schedule"
    BY <2>5, EntriesAssumption
  <2>7. found \in Outcomes
    BY <2>3, <2>5 DEF Outcomes, ClockKinds
  <2> QED BY <2>4, <2>6, <2>7 DEF Hideable
<1> HIDE DEF refuse, found
<1> QED BY <1>1, <1>2 DEF End

-----------------------------------------------------------------------------
(* The steps.                                                              *)

\* What a stage that is not the last has to keep.
LEMMA UnfinishedKeeps ==
  ASSUME stage' # "done" PROVE DelayHidesTime' /\ CatalogOutlivesOutage'
BY DEF DelayHidesTime, CatalogOutlivesOutage

\* Without an entry of AnimeSchedule there are no rows to speak of.
LEMMA WithoutEntryKeeps ==
  ASSUME season'.media = None PROVE ReadKept' /\ DelayHidesTime'
BY DEF ReadKept, DelayHidesTime

LEMMA StartStep ==
  ASSUME ResolutionInv, StartMissing \/ StartRefused \/ Start
  PROVE  ResolutionInv'
<1> USE DEF ResolutionInv
<1>1. stage = "start" /\ season = NoSeason /\ estimate = None /\ lookup = NoLookup
  BY DEF StartMissing, StartRefused, Start, StagesAgree
<1>2. /\ UNCHANGED <<request, dates, estimate, season, answer, lookup>>
      /\ \/ stage' = "subject" /\ UNCHANGED <<item, outcome>>
         \/ stage' = "done" /\ UNCHANGED item /\ outcome' = Refused
         \/ stage' = "airdate" /\ item' \in Catalog /\ UNCHANGED outcome
  BY DEF StartMissing, StartRefused, Start, End, Matches
<1>3. ResolutionTypeOK'
  BY <1>2 DEF ResolutionTypeOK, Stages
<1>4. StagesAgree'
  BY <1>1, <1>2 DEF StagesAgree, NoSeason
<1>5. ReadKept' /\ DelayHidesTime'
  BY <1>1, <1>2, WithoutEntryKeeps DEF NoSeason
<1>6. HiddenClockIsCatalog' /\ CatalogOutlivesOutage'
  BY <1>1, <1>2 DEF HiddenClockIsCatalog, CatalogOutlivesOutage
<1> QED BY <1>3, <1>4, <1>5, <1>6

\* The catalogue's estimate is made, or refused.
LEMMA AirdateStep ==
  ASSUME ResolutionInv, TargetAirdate \/ OriginAirdate
  PROVE  ResolutionInv'
<1> USE DEF ResolutionInv
<1>1. /\ stage \in {"airdate", "origin"} /\ item \in Catalog
      /\ season = NoSeason /\ estimate = None /\ lookup = NoLookup
  BY DEF TargetAirdate, OriginAirdate, StagesAgree
<1>2. /\ UNCHANGED <<request, season, answer, lookup>>
      /\ \/ /\ dates' \in [target : Optional, total : Optional] /\ stage' = "origin"
            /\ UNCHANGED <<item, estimate, outcome>>
         \/ \E t, o \in Optional : \E n : Settle(t, o, n)
  <2>1. CASE TargetAirdate
    <3>1. PICK a \in Chapters \cup {Failed} :
            LET target == IF a = Failed THEN None ELSE AirdateOf(a, Index, Number)
                total  == IF a = Failed THEN None ELSE a.total
            IN  IF Index > 1 /\ target # None
                THEN /\ dates' = [target |-> target, total |-> total]
                     /\ stage' = "origin"
                     /\ UNCHANGED <<item, estimate, outcome>>
                ELSE Settle(target, IF Index = 1 THEN target ELSE None, total)
      BY <2>1 DEF TargetAirdate
    <3> DEFINE target == IF a = Failed THEN None ELSE AirdateOf(a, Index, Number)
               total  == IF a = Failed THEN None ELSE a.total
    <3>2. target \in Optional /\ total \in Optional
      BY ChapterType
    <3>3. \/ /\ dates' = [target |-> target, total |-> total]
             /\ stage' = "origin"
             /\ UNCHANGED <<item, estimate, outcome>>
          \/ Settle(target, IF Index = 1 THEN target ELSE None, total)
      BY <3>1
    <3> HIDE DEF target, total
    <3>4. (IF Index = 1 THEN target ELSE None) \in Optional
      BY <3>2 DEF Optional
    <3>5. UNCHANGED <<request, season, answer, lookup>>
      BY <2>1 DEF TargetAirdate
    <3> QED BY <3>2, <3>3, <3>4, <3>5
  <2>2. CASE OriginAirdate
    <3>1. PICK a \in Chapters \cup {Failed} :
            Settle(dates.target, IF a = Failed THEN None ELSE AirdateOf(a, 1, Origin), dates.total)
      BY <2>2 DEF OriginAirdate
    <3>2. (IF a = Failed THEN None ELSE AirdateOf(a, 1, Origin)) \in Optional
      BY ChapterType
    <3>3. dates.target \in Optional
      BY DEF ResolutionTypeOK
    <3>4. UNCHANGED <<request, season, answer, lookup>>
      BY <2>2 DEF OriginAirdate
    <3> QED BY <3>1, <3>2, <3>3, <3>4
  <2> QED BY <2>1, <2>2
<1>3. CASE /\ dates' \in [target : Optional, total : Optional] /\ stage' = "origin"
           /\ UNCHANGED <<item, estimate, outcome>>
  <2>1. ResolutionTypeOK' /\ StagesAgree'
    BY <1>1, <1>2, <1>3 DEF ResolutionTypeOK, StagesAgree, Stages
  <2>2. HiddenClockIsCatalog'
    BY <1>3 DEF HiddenClockIsCatalog
  <2>3. ReadKept' /\ DelayHidesTime' /\ CatalogOutlivesOutage'
    BY <1>1, <1>2, <1>3, WithoutEntryKeeps, UnfinishedKeeps DEF NoSeason
  <2> QED BY <2>1, <2>2, <2>3
<1>4. CASE \E t, o \in Optional : \E n : Settle(t, o, n)
  <2>0. PICK t \in Optional, o \in Optional : \E n : Settle(t, o, n)
    BY <1>4
  <2>1. PICK n : Settle(t, o, n)
    BY <2>0
  <2>2. /\ item' = None /\ dates' = NoDates
        /\ \/ stage' = "done" /\ outcome' = Refused /\ UNCHANGED estimate
           \/ stage' = "subject" /\ Hideable(estimate') /\ UNCHANGED outcome
           \/ stage' = "done" /\ Hideable(estimate') /\ outcome' = estimate'
    BY <1>1, <2>1, SettleGives
  <2>3. ResolutionTypeOK'
    BY <1>2, <2>2 DEF ResolutionTypeOK, Stages, NoDates, Optional, Hideable
  <2>4. StagesAgree'
    BY <1>1, <1>2, <2>2 DEF StagesAgree, NoSeason, Hideable
  <2>5. ReadKept' /\ DelayHidesTime'
    BY <1>1, <1>2, WithoutEntryKeeps DEF NoSeason
  <2>6. HiddenClockIsCatalog'
    BY <1>1, <2>2 DEF HiddenClockIsCatalog, Hideable
  <2>7. CatalogOutlivesOutage'
    BY <1>1, <2>2, AnswersAssumption DEF CatalogOutlivesOutage, Hideable
  <2> QED BY <2>3, <2>4, <2>5, <2>6, <2>7
<1> QED BY <1>2, <1>3, <1>4

\* The subject and its chapter are read.
LEMMA SubjectStep ==
  ASSUME ResolutionInv, AskSubject \/ AskChapter
  PROVE  ResolutionInv'
<1> USE DEF ResolutionInv
<1>1. /\ stage \in {"subject", "chapter"} /\ lookup = NoLookup
      /\ stage' \in {"chapter", "media"}
      /\ UNCHANGED <<request, item, dates, estimate, answer, lookup, outcome>>
  BY DEF AskSubject, AskChapter, StagesAgree
<1>2. season' \in Seasons /\ season'.subject \in SubjectAnswers /\ season'.media = None
  <2>1. CASE AskSubject
    BY <2>1 DEF AskSubject, NoSeason, Seasons, Optional
  <2>2. CASE AskChapter
    <3>1. season \in Seasons /\ season.subject \in SubjectAnswers /\ season.media = None
      BY <2>2 DEF AskChapter, ResolutionTypeOK, StagesAgree
    <3>2. PICK a \in Chapters \cup {Failed} :
            season' = IF a = Failed THEN season
                      ELSE [season EXCEPT !.airdate = AirdateOf(a, Index, Number), !.total = a.total]
      BY <2>2 DEF AskChapter
    <3>3. CASE a = Failed
      BY <3>1, <3>2, <3>3
    <3>4. CASE a # Failed
      <4>1. AirdateOf(a, Index, Number) \in Optional /\ a.total \in Optional
        BY <3>4, AirdateType, AnswersAssumption
      <4> QED BY <3>1, <3>2, <3>4, <4>1 DEF Seasons
    <3> QED BY <3>3, <3>4
  <2> QED BY <2>1, <2>2
<1>3. ResolutionTypeOK'
  BY <1>1, <1>2 DEF ResolutionTypeOK, Stages
<1>4. StagesAgree'
  BY <1>1, <1>2 DEF StagesAgree
<1>5. HiddenClockIsCatalog'
  BY <1>1 DEF HiddenClockIsCatalog
<1>6. ReadKept' /\ DelayHidesTime' /\ CatalogOutlivesOutage'
  BY <1>1, <1>2, WithoutEntryKeeps, UnfinishedKeeps
<1> QED BY <1>3, <1>4, <1>5, <1>6

\* AnimeSchedule is given up: what the catalogue said stays.
LEMMA GiveUpStep ==
  ASSUME ResolutionInv, GiveUp
  PROVE  ResolutionInv'
<1> USE DEF ResolutionInv
<1>1. /\ stage' = "done" /\ outcome' = (IF estimate = None THEN Refused ELSE estimate)
      /\ season' = NoSeason /\ answer' = None /\ lookup' = NoLookup
      /\ UNCHANGED <<request, item, dates, estimate>>
  BY DEF GiveUp, Fallback, Drop, End
<1>2. NoSeason \in Seasons /\ NoLookup \in Lookups
  <2>1. <<>> \in [{} -> Optional]
    OBVIOUS
  <2>2. <<>> \in Plannings
    BY <2>1 DEF Plannings
  <2> QED BY <2>2 DEF NoSeason, NoLookup, Seasons, Lookups, Optional
<1>3. ResolutionTypeOK'
  BY <1>1, <1>2 DEF ResolutionTypeOK, Stages
<1>4. StagesAgree'
  BY <1>1 DEF StagesAgree, NoSeason
<1>5. HiddenClockIsCatalog'
  BY <1>1 DEF HiddenClockIsCatalog
<1>6. ReadKept' /\ DelayHidesTime'
  BY <1>1, WithoutEntryKeeps DEF NoSeason
<1>7. CatalogOutlivesOutage'
  BY <1>1, AnswersAssumption DEF CatalogOutlivesOutage, ResolutionTypeOK
<1> QED BY <1>3, <1>4, <1>5, <1>6, <1>7

\* Where no row has been read, none is kept.
LEMMA NothingReadAgrees ==
  ASSUME lookup'.seen = {}, lookup'.earliest = None, lookup'.unknown = None, lookup'.plans = <<>>
  PROVE  ReadAgrees'
<1>1. Dated' = {} /\ Undated' = {} /\ { f \in lookup'.seen : Plans(f)' } = {}
  BY DEF Dated, Undated
<1>2. DOMAIN lookup'.plans = {}
  OBVIOUS
<1>3. \A P : P = {} => { <<e.first, e.last>> : e \in P } = {}
  OBVIOUS
<1> QED BY <1>1, <1>2, <1>3 DEF ReadAgrees, IsEarliest, IsNarrowest, IsPlanning

\* AnimeSchedule's entry is chosen: the timetables are about to be read.
LEMMA MediaStep ==
  ASSUME ResolutionInv, AskMedia
  PROVE  ResolutionInv'
<1> USE DEF ResolutionInv
<1>1. PICK found \in SUBSET MediaAnswers :
        \E m \in Chosen(season.subject, found, request.anilist) :
          LET e == EstimateFrom(m) IN
          /\ e # None
          /\ season' = [season EXCEPT !.media = m]
          /\ answer' = e
          /\ lookup' = [NoLookup EXCEPT !.weeks = IF e.ask THEN WeeksToRead(e.at, m) ELSE {}]
          /\ stage' = "weeks"
  BY DEF AskMedia
<1>2. PICK m \in Chosen(season.subject, found, request.anilist) :
          /\ EstimateFrom(m) # None
          /\ season' = [season EXCEPT !.media = m]
          /\ answer' = EstimateFrom(m)
          /\ lookup' = [NoLookup EXCEPT !.weeks =
                          IF EstimateFrom(m).ask THEN WeeksToRead(EstimateFrom(m).at, m) ELSE {}]
          /\ stage' = "weeks"
  BY <1>1
<1>3. m \in MediaAnswers
  BY <1>2 DEF Chosen
<1>4. stage = "media" /\ season \in Seasons /\ season.subject \in SubjectAnswers
  BY DEF AskMedia, StagesAgree, ResolutionTypeOK
<1>5. UNCHANGED <<request, item, dates, estimate, outcome>>
  BY DEF AskMedia
<1>6. EstimateFrom(m) \in Estimates
  BY <1>2, <1>3, <1>4, EstimateType
<1>7. WeeksToRead(EstimateFrom(m).at, m) \subseteq Int
  <2>1. EstimateFrom(m).at \in Int /\ MaxStreamOffset \in Int /\ ThisWeek \in Int
    BY <1>6, CatalogAssumption, ResolutionAssumption DEF Estimates
  <2>2. Known(m.premier) => m.premier \in Int
    BY <1>3, AnswersAssumption DEF Known, Optional
  <2>3. \A at \in Int : at \div Week \in Int
    BY DEF Week, Day
  <2>4. Known(m.premier) => m.premier \div Week \in Int
    BY <2>2, <2>3
  <2>5. (MaxStreamOffset + 6) \div 7 \in Int
    BY <2>1
  <2>6. \A k \in -((MaxStreamOffset + 6) \div 7) .. ((MaxStreamOffset + 6) \div 7) :
          EstimateFrom(m).at \div Week + k \in Int
    BY <2>1, <2>3, <2>5
  <2> QED BY <2>1, <2>4, <2>6 DEF WeeksToRead
<1>8. season' \in Seasons /\ season'.media = m /\ season'.subject = season.subject
  BY <1>2, <1>3, <1>4 DEF Seasons
<1>9. /\ lookup' \in Lookups /\ lookup'.seen = {} /\ lookup'.earliest = None
      /\ lookup'.unknown = None /\ lookup'.plans = <<>>
  <2>1. <<>> \in [{} -> Optional]
    OBVIOUS
  <2>2. <<>> \in Plannings
    BY <2>1 DEF Plannings
  <2> QED BY <1>2, <1>7, <2>2 DEF NoLookup, Lookups
<1>10. ResolutionTypeOK'
  BY <1>2, <1>5, <1>6, <1>8, <1>9 DEF ResolutionTypeOK, Stages
<1>11. StagesAgree'
  BY <1>2, <1>3, <1>4, <1>5, <1>6, <1>8 DEF StagesAgree
<1>12. ReadKept'
  <2>1. ReadAgrees'
    BY <1>9, NothingReadAgrees
  <2> QED BY <2>1 DEF ReadKept
<1>13. HiddenClockIsCatalog'
  BY <1>5 DEF HiddenClockIsCatalog
<1>14. DelayHidesTime' /\ CatalogOutlivesOutage'
  BY <1>2, UnfinishedKeeps
<1> QED BY <1>10, <1>11, <1>12, <1>13, <1>14

\* A week is read, or is not to be had: no row is taken yet.
LEMMA WeekStep ==
  ASSUME ResolutionInv, ReadWeek \/ FailWeek
  PROVE  ResolutionInv'
<1> USE DEF ResolutionInv
<1>1. /\ stage = "weeks" /\ lookup \in Lookups
      /\ UNCHANGED <<stage, request, item, dates, estimate, season, answer, outcome>>
  BY DEF ReadWeek, FailWeek, ResolutionTypeOK
<1>2. \E W \in SUBSET Int, Q \in SUBSET Entries : lookup' = [lookup EXCEPT !.weeks = W, !.queue = Q]
  <2>1. CASE ReadWeek
    <3>1. PICK w \in lookup.weeks, rows \in SUBSET Entries :
            lookup' = [lookup EXCEPT !.weeks = @ \ { w }, !.queue = rows]
      BY <2>1 DEF ReadWeek
    <3>2. lookup.weeks \ { w } \in SUBSET Int
      BY <1>1 DEF Lookups
    <3> QED BY <3>1, <3>2
  <2>2. CASE FailWeek
    <3>1. PICK w \in lookup.weeks : lookup' = [lookup EXCEPT !.weeks = @ \ { w }]
      BY <2>2 DEF FailWeek
    <3>2. lookup.weeks \ { w } \in SUBSET Int /\ lookup.queue \in SUBSET Entries
      BY <1>1 DEF Lookups
    <3>3. lookup' = [lookup EXCEPT !.weeks = lookup.weeks \ { w }, !.queue = lookup.queue]
      BY <1>1, <3>1 DEF Lookups
    <3> QED BY <3>2, <3>3
  <2> QED BY <2>1, <2>2
<1>3. /\ lookup' \in Lookups /\ lookup'.seen = lookup.seen /\ lookup'.earliest = lookup.earliest
      /\ lookup'.unknown = lookup.unknown /\ lookup'.plans = lookup.plans
  BY <1>1, <1>2 DEF Lookups
<1>4. ResolutionTypeOK'
  BY <1>1, <1>3 DEF ResolutionTypeOK
<1>5. StagesAgree'
  BY <1>1 DEF StagesAgree
<1>6. ReadKept'
  BY <1>1, <1>3 DEF ReadKept, ReadAgrees, Dated, Undated, Hits, Plans, Native, Index
<1>7. HiddenClockIsCatalog'
  BY <1>1 DEF HiddenClockIsCatalog
<1>8. DelayHidesTime' /\ CatalogOutlivesOutage'
  BY <1>1, UnfinishedKeeps
<1> QED BY <1>4, <1>5, <1>6, <1>7, <1>8

\* A row is taken: it is the best so far, or it is not.
LEMMA RowStep ==
  ASSUME ResolutionInv, TakeRow
  PROVE  ResolutionInv'
<1> USE DEF ResolutionInv
<1>1. /\ stage = "weeks" /\ lookup \in Lookups /\ season.media \in MediaAnswers
      /\ UNCHANGED <<stage, request, item, dates, estimate, season, answer, outcome>>
  BY DEF TakeRow, ResolutionTypeOK, StagesAgree
<1>2. PICK e \in lookup.queue :
        LET dated   == Hits(e) /\ Known(ReleaseTime(e)) /\ Sooner(e, lookup.earliest)
            undated == Hits(e) /\ ~Known(ReleaseTime(e)) /\ Narrower(e, lookup.unknown)
        IN  lookup' = [lookup EXCEPT
                         !.queue    = @ \ { e },
                         !.seen     = @ \cup { e },
                         !.earliest = IF dated THEN e ELSE @,
                         !.unknown  = IF undated THEN e ELSE @,
                         !.plans    = Planned(@, e)]
  BY DEF TakeRow
<1> DEFINE dated   == Hits(e) /\ Known(ReleaseTime(e)) /\ Sooner(e, lookup.earliest)
           undated == Hits(e) /\ ~Known(ReleaseTime(e)) /\ Narrower(e, lookup.unknown)
<1>3. e \in Entries /\ lookup.seen \in SUBSET Entries /\ lookup.plans \in Plannings
  BY <1>1 DEF Lookups
<1>4. /\ lookup'.seen = lookup.seen \cup { e }
      /\ lookup'.earliest = IF dated THEN e ELSE lookup.earliest
      /\ lookup'.unknown = IF undated THEN e ELSE lookup.unknown
      /\ lookup'.plans = Planned(lookup.plans, e)
      /\ lookup'.queue = lookup.queue \ { e } /\ lookup'.weeks = lookup.weeks
      /\ DOMAIN lookup' = DOMAIN lookup
      /\ lookup' = [weeks |-> lookup'.weeks, queue |-> lookup'.queue, seen |-> lookup'.seen,
                    earliest |-> lookup'.earliest, unknown |-> lookup'.unknown,
                    plans |-> lookup'.plans]
  BY <1>1, <1>2 DEF Lookups
<1> HIDE DEF dated, undated
<1>5. lookup' \in Lookups
  BY <1>1, <1>3, <1>4, PlanningType DEF Lookups
<1>6. /\ Dated' = { f \in lookup.seen \cup { e } : Hits(f) /\ Known(ReleaseTime(f)) }
      /\ Undated' = { f \in lookup.seen \cup { e } : Hits(f) /\ ~Known(ReleaseTime(f)) }
      /\ { f \in lookup.seen : Plans(f) }' = { f \in lookup.seen \cup { e } : Plans(f) }
  BY <1>1, <1>4 DEF Dated, Undated, Hits, Plans, Native, Index
<1>7. ReadAgrees
  BY <1>1, AnswersAssumption DEF ReadKept
<1>8. IsEarliest(lookup'.earliest, Dated')
  <2>1. CASE Hits(e) /\ Known(ReleaseTime(e))
    <3>1. Dated' = Dated \cup { e } /\ Dated \in SUBSET Entries
      BY <1>3, <1>6, <2>1 DEF Dated
    <3>2. lookup'.earliest = IF Sooner(e, lookup.earliest) THEN e ELSE lookup.earliest
      BY <1>4, <2>1 DEF dated
    <3>3. \A d \in Dated \cup { e } : Known(ReleaseTime(d))
      BY <2>1 DEF Dated
    <3>4. IsEarliest(lookup.earliest, Dated)
      BY <1>7 DEF ReadAgrees
    <3>5. IsEarliest(IF Sooner(e, lookup.earliest) THEN e ELSE lookup.earliest, Dated \cup { e })
      BY <1>3, <3>1, <3>3, <3>4, EarliestKept
    <3> QED BY <3>1, <3>2, <3>5
  <2>2. CASE ~(Hits(e) /\ Known(ReleaseTime(e)))
    <3>1. Dated' = Dated /\ lookup'.earliest = lookup.earliest
      BY <1>4, <1>6, <2>2 DEF Dated, dated
    <3> QED BY <1>7, <3>1 DEF ReadAgrees
  <2> QED BY <2>1, <2>2
<1>9. IsNarrowest(lookup'.unknown, Undated')
  <2>1. CASE Hits(e) /\ ~Known(ReleaseTime(e))
    <3>1. Undated' = Undated \cup { e } /\ Undated \in SUBSET Entries
      BY <1>3, <1>6, <2>1 DEF Undated
    <3>2. lookup'.unknown = IF Narrower(e, lookup.unknown) THEN e ELSE lookup.unknown
      BY <1>4, <2>1 DEF undated
    <3>3. IsNarrowest(lookup.unknown, Undated)
      BY <1>7 DEF ReadAgrees
    <3>4. IsNarrowest(IF Narrower(e, lookup.unknown) THEN e ELSE lookup.unknown, Undated \cup { e })
      BY <1>3, <3>1, <3>3, NarrowestKept
    <3> QED BY <3>1, <3>2, <3>4
  <2>2. CASE ~(Hits(e) /\ ~Known(ReleaseTime(e)))
    <3>1. Undated' = Undated /\ lookup'.unknown = lookup.unknown
      BY <1>4, <1>6, <2>2 DEF Undated, undated
    <3> QED BY <1>7, <3>1 DEF ReadAgrees
  <2> QED BY <2>1, <2>2
<1>10. IsPlanning(lookup'.plans, { f \in lookup.seen : Plans(f) }')
  <2> DEFINE P == { f \in lookup.seen : Plans(f) }
             Q == { f \in lookup.seen \cup { e } : Plans(f) }
  <2>1. IsPlanning(lookup.plans, P) /\ P \in SUBSET Entries
    BY <1>3, <1>7 DEF ReadAgrees
  <2>2. CASE Plans(e)
    <3>1. Q = P \cup { e }
      BY <2>2
    <3> HIDE DEF P, Q
    <3>2. IsPlanning(Planned(lookup.plans, e), P \cup { e })
      BY <1>3, <2>1, <2>2, PlanningKept
    <3>3. IsPlanning(lookup'.plans, Q)
      BY <1>4, <3>1, <3>2
    <3> QED BY <1>6, <3>3 DEF Q
  <2>3. CASE ~Plans(e)
    <3>1. Q = P
      BY <2>3
    <3>2. lookup'.plans = lookup.plans
      BY <1>4, <2>3 DEF Planned
    <3>3. IsPlanning(lookup'.plans, Q)
      BY <2>1, <3>1, <3>2
    <3> QED BY <1>6, <3>3
  <2> QED BY <2>2, <2>3
<1>11. ReadKept'
  BY <1>8, <1>9, <1>10 DEF ReadKept, ReadAgrees
<1>12. ResolutionTypeOK'
  BY <1>1, <1>5 DEF ResolutionTypeOK
<1>13. StagesAgree'
  BY <1>1 DEF StagesAgree
<1>14. HiddenClockIsCatalog'
  BY <1>1 DEF HiddenClockIsCatalog
<1>15. DelayHidesTime' /\ CatalogOutlivesOutage'
  BY <1>1, UnfinishedKeeps
<1> QED BY <1>11, <1>12, <1>13, <1>14, <1>15

\* The row that speaks of the episode has no time exactly when a row without a date is
\* about fewer episodes than every dated one.
LEMMA EntryHides ==
  ASSUME ResolutionTypeOK, ReadAgrees, answer \in Estimates
  PROVE  (IF Entry = None THEN answer.at ELSE ReleaseTime(Entry)) = None
           <=> \E u \in Undated : \A e \in Dated : Span(u) < Span(e)
<1> DEFINE hidden == \E u \in Undated : \A e \in Dated : Span(u) < Span(e)
<1>1. /\ Dated \subseteq Entries /\ Undated \subseteq Entries
      /\ \A e \in Dated : Known(ReleaseTime(e))
      /\ \A u \in Undated : ~Known(ReleaseTime(u))
  BY DEF Dated, Undated, ResolutionTypeOK, Lookups
<1>2. \A e \in Dated \cup Undated : e # None /\ Span(e) \in Int
  BY <1>1, RowTypes, AnswersAssumption
<1>3. /\ IF Dated = {} THEN lookup.earliest = None
         ELSE lookup.earliest \in Dated /\ \A e \in Dated : Span(lookup.earliest) <= Span(e)
      /\ IF Undated = {} THEN lookup.unknown = None
         ELSE lookup.unknown \in Undated /\ \A u \in Undated : Span(lookup.unknown) <= Span(u)
  BY <1>2 DEF ReadAgrees, IsEarliest, IsNarrowest
<1>4. CASE Entry = None
  <2>1. Dated = {} /\ Undated = {}
    BY <1>2, <1>3, <1>4 DEF Entry, Narrower
  <2>2. answer.at # None
    BY CatalogAssumption DEF Estimates
  <2> QED BY <1>4, <2>1, <2>2
<1>5. CASE Entry # None /\ lookup.unknown # None /\ Narrower(lookup.unknown, lookup.earliest)
  <2>1. Entry = lookup.unknown /\ lookup.unknown \in Undated
    BY <1>3, <1>5 DEF Entry
  <2>2. ReleaseTime(Entry) = None
    BY <1>1, <2>1 DEF Known
  <2>3. \A e \in Dated : Span(lookup.unknown) < Span(e)
    BY <1>2, <1>3, <1>5, <2>1 DEF Narrower
  <2> QED BY <1>5, <2>1, <2>2, <2>3
<1>6. CASE Entry # None /\ ~(lookup.unknown # None /\ Narrower(lookup.unknown, lookup.earliest))
  <2>1. Entry = lookup.earliest /\ lookup.earliest \in Dated
    BY <1>3, <1>6 DEF Entry
  <2>2. ReleaseTime(Entry) # None
    BY <1>1, <2>1 DEF Known
  <2>3. ~hidden
    <3> SUFFICES ASSUME NEW u \in Undated, \A e \in Dated : Span(u) < Span(e) PROVE FALSE
      OBVIOUS
    <3>1. lookup.unknown \in Undated /\ Span(lookup.unknown) <= Span(u)
      BY <1>3
    <3>2. Span(u) < Span(lookup.earliest)
      BY <2>1
    <3>3. lookup.unknown # None /\ ~(Span(lookup.unknown) < Span(lookup.earliest))
      BY <1>2, <1>6, <3>1 DEF Narrower
    <3> QED BY <1>2, <2>1, <3>1, <3>2, <3>3
  <2> QED BY <1>6, <2>2, <2>3
<1> QED BY <1>4, <1>5, <1>6

\* What AnimeSchedule says is weighed against the catalogue's estimate.
LEMMA ConcludeStep ==
  ASSUME ResolutionInv, Conclude
  PROVE  ResolutionInv'
<1> USE DEF ResolutionInv
<1>1. /\ stage = "weeks" /\ season.media \in MediaAnswers /\ answer \in Estimates
      /\ stage' = "done"
      /\ UNCHANGED <<request, item, dates, estimate, season, answer, lookup>>
  BY DEF Conclude, Fallback, End, StagesAgree
<1>2. \/ outcome' = (IF estimate = None THEN Refused ELSE estimate)
      \/ outcome' = Verified
      \/ estimate # None /\ outcome' = [estimate EXCEPT !.batches = Verified.batches]
  BY DEF Conclude, Fallback, End
<1>3. /\ Verified \in Outcomes /\ Verified.source = "anime_schedule"
      /\ Verified.at = IF Entry = None THEN answer.at ELSE ReleaseTime(Entry)
  BY <1>1, VerifiedType
<1>4. estimate # None => estimate \in Outcomes /\ estimate.source # "anime_schedule"
  BY DEF ResolutionTypeOK, StagesAgree
<1>5. estimate # None =>
        LET o == [estimate EXCEPT !.batches = Verified.batches] IN
        o \in Outcomes /\ o.at = estimate.at /\ o.source = estimate.source
  <2> SUFFICES ASSUME estimate # None
               PROVE LET o == [estimate EXCEPT !.batches = Verified.batches] IN
                     o \in Outcomes /\ o.at = estimate.at /\ o.source = estimate.source
    OBVIOUS
  <2>1. Verified.batches \in SUBSET [first : Int, last : Int, at : Optional]
    BY <1>3 DEF Outcomes
  <2> QED BY <1>4, <2>1 DEF Outcomes
<1>6. ResolutionTypeOK'
  BY <1>1, <1>2, <1>3, <1>4, <1>5 DEF ResolutionTypeOK, Stages
<1>7. StagesAgree'
  BY <1>1 DEF StagesAgree
<1>8. ReadAgrees /\ Dated' = Dated /\ Undated' = Undated
  BY <1>1, AnswersAssumption DEF ReadKept, Dated, Undated, Hits, Native, Index
<1>9. ReadKept'
  BY <1>1, <1>8 DEF ReadKept, ReadAgrees, Plans, Native
<1>10. HiddenClockIsCatalog'
  BY <1>1 DEF HiddenClockIsCatalog
<1>11. DelayHidesTime'
  <2> SUFFICES ASSUME outcome' # Refused, outcome'.source = "anime_schedule"
               PROVE  outcome'.at = None <=> \E u \in Undated : \A e \in Dated : Span(u) < Span(e)
    BY <1>8 DEF DelayHidesTime
  <2>1. outcome' = Verified
    BY <1>2, <1>4, <1>5
  <2> QED BY <1>1, <1>3, <1>8, <2>1, EntryHides
<1>12. CatalogOutlivesOutage'
  <2> SUFFICES ASSUME estimate # None
               PROVE  outcome' # Refused /\ (outcome'.source # "anime_schedule" => outcome'.at = estimate.at)
    BY <1>1 DEF CatalogOutlivesOutage
  <2> QED BY <1>2, <1>3, <1>4, <1>5, AnswersAssumption
<1> QED BY <1>6, <1>7, <1>9, <1>10, <1>11, <1>12

-----------------------------------------------------------------------------
(* The theorems.                                                           *)

\* The invariant holds of every resolution: types, stages, and the four properties.
THEOREM ResolutionInvariance == ResolutionSpec => []ResolutionInv
<1>1. ResolutionInit => ResolutionInv
  <2> SUFFICES ASSUME ResolutionInit PROVE ResolutionInv
    OBVIOUS
  <2> USE DEF ResolutionInit
  <2>1. <<>> \in [{} -> Optional]
    OBVIOUS
  <2>2. <<>> \in Plannings
    BY <2>1 DEF Plannings
  <2>3. ResolutionTypeOK
    BY <2>2 DEF ResolutionTypeOK, Stages, Seasons, Lookups, NoDates, NoSeason, NoLookup, Optional
  <2>4. StagesAgree /\ ReadKept /\ DelayHidesTime
    BY DEF StagesAgree, ReadKept, DelayHidesTime, NoSeason
  <2>5. HiddenClockIsCatalog /\ CatalogOutlivesOutage
    BY DEF HiddenClockIsCatalog, CatalogOutlivesOutage
  <2> QED BY <2>3, <2>4, <2>5 DEF ResolutionInv
<1>2. ResolutionInv /\ [ResolutionNext]_resolutionVars => ResolutionInv'
  <2> SUFFICES ASSUME ResolutionInv, [ResolutionNext]_resolutionVars PROVE ResolutionInv'
    OBVIOUS
  <2>1. CASE StartMissing \/ StartRefused \/ Start
    BY <2>1, StartStep
  <2>2. CASE TargetAirdate \/ OriginAirdate
    BY <2>2, AirdateStep
  <2>3. CASE AskSubject \/ AskChapter
    BY <2>3, SubjectStep
  <2>4. CASE AskMedia
    BY <2>4, MediaStep
  <2>5. CASE GiveUp
    BY <2>5, GiveUpStep
  <2>6. CASE ReadWeek \/ FailWeek
    BY <2>6, WeekStep
  <2>7. CASE TakeRow
    BY <2>7, RowStep
  <2>8. CASE Conclude
    BY <2>8, ConcludeStep
  <2>9. CASE UNCHANGED resolutionVars
    <3> USE <2>9 DEF resolutionVars
    <3>1. ResolutionTypeOK' /\ StagesAgree'
      BY DEF ResolutionInv, ResolutionTypeOK, StagesAgree
    <3>2. Dated' = Dated /\ Undated' = Undated
      BY DEF Dated, Undated, Hits, Native, Index
    <3>3. ReadKept' /\ DelayHidesTime'
      BY <3>2 DEF ResolutionInv, ReadKept, ReadAgrees, DelayHidesTime, Plans, Native
    <3>4. HiddenClockIsCatalog' /\ CatalogOutlivesOutage'
      BY DEF ResolutionInv, HiddenClockIsCatalog, CatalogOutlivesOutage
    <3> QED BY <3>1, <3>3, <3>4 DEF ResolutionInv
  <2> QED BY <2>1, <2>2, <2>3, <2>4, <2>5, <2>6, <2>7, <2>8, <2>9 DEF ResolutionNext
<1> QED BY <1>1, <1>2, PTL DEF ResolutionSpec

\* What is kept of the timetables is what was read in them, in whatever order the rows came
\* and whichever weeks failed.
THEOREM TimetableAlwaysAgrees == ResolutionSpec => []TimetableAgrees
<1>1. ResolutionInv => TimetableAgrees
  BY ReadMeansAgrees DEF ResolutionInv
<1> QED BY <1>1, ResolutionInvariance, PTL

\* A time of AnimeSchedule is hidden exactly for a row without a date.
THEOREM DelayAlwaysHidesTime == ResolutionSpec => []DelayHidesTime
<1>1. ResolutionInv => DelayHidesTime
  BY DEF ResolutionInv
<1> QED BY <1>1, ResolutionInvariance, PTL

\* What the catalogue said outlives every answer and every failure of AnimeSchedule.
THEOREM CatalogAlwaysOutlivesOutage == ResolutionSpec => []CatalogOutlivesOutage
<1>1. ResolutionInv => CatalogOutlivesOutage
  BY DEF ResolutionInv
<1> QED BY <1>1, ResolutionInvariance, PTL

\* A platform's clock never hides a time: only the catalogue's own does.
THEOREM HiddenClockIsAlwaysCatalog == ResolutionSpec => []HiddenClockIsCatalog
<1>1. ResolutionInv => HiddenClockIsCatalog
  BY DEF ResolutionInv
<1> QED BY <1>1, ResolutionInvariance, PTL
=============================================================================
