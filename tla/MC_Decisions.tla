---------------------------- MODULE MC_Decisions ----------------------------
(* Small instances of the two decisions a check rests on: when an episode   *)
(* is due (ScheduleResolution) and which video is it (CandidateScan).  A    *)
(* behaviour is one of the two, the other being over before it begins.      *)
EXTENDS ScheduleResolution, CandidateScan, TLC

CONSTANTS r1, r2, t1, t2, v1, v2, v3, u1, u2

-----------------------------------------------------------------------------
(* Entries of the catalogue for each way a platform is chosen, and answers  *)
(* that agree or do not.                                                    *)

Site(b, d) == [broadcast |-> b, begin |-> d]
Item(s, b, d, sites) ==
  [subject |-> s, kind |-> "tv", titles |-> IF s < 3 THEN { t1 } ELSE { t2 },
   broadcast |-> b, begin |-> d, sites |-> sites]

Weekly(t) == Pattern(t, 7)

SomeCatalog == {
  \* the preferred platform; two that agree and one apart; two of one family
  Item(1, Weekly(46), None, "bilibili" :> Site(Weekly(44), None) @@ "danime" :> Site(Weekly(40), None)),
  Item(2, Weekly(46), None, "danime" :> Site(None, 47) @@ "gamer" :> Site(Weekly(45), None)
                            @@ "abema" :> Site(Weekly(30), None)),
  Item(3, None, 46, "gamer" :> Site(Weekly(45), None) @@ "gamer_hk" :> Site(Weekly(44), None)),
  \* a platform that still shows the cour before, one far away, none at all
  Item(4, Weekly(46 + 28 * 24), None, "danime" :> Site(Weekly(45), None)),
  Item(5, Weekly(46), None, "danime" :> Site(Weekly(240), None)),
  Item(6, Pattern(46, 30), None, "unext" :> Site(Weekly(46), None)) }

SomePriority == <<"bilibili", "danime", "abema", "gamer", "gamer_hk", "unext">>
SomeFamily ==
  [s \in { "bilibili", "danime", "abema", "gamer", "gamer_hk", "unext" } |->
     IF s = "gamer_hk" THEN "gamer" ELSE s]

Ask(s, n, mapping, route, access) ==
  [subject |-> s, title |-> t1, episode |-> n, mapping |-> mapping, anilist |-> None,
   route |-> route, access |-> access]

SomeRequests ==
  { Ask(s, n, None, None, FALSE) : s \in 1 .. 6, n \in 1 .. 2 }
  \cup { Ask(s, n, None, r1, FALSE) : s \in { 1, 6 }, n \in 1 .. 2 }
  \cup { Ask(2, 4, [local |-> 3, bangumi |-> 1], None, TRUE), Ask(9, 2, None, r1, TRUE),
         Ask(9, 2, [local |-> 3, bangumi |-> 1], r1, TRUE), Ask(5, 2, None, None, TRUE),
         Ask(None, 1, None, None, FALSE) }

Page(n, d, t) == [sort |-> n, ep |-> n, date |-> d, total |-> t]
SomeChapters == { Page(1, 1, 2), Page(2, 8, 2), Page(1, 29, 3), Page(2, None, 9), Page(1, 8, None) }

SomeSubjects == {
  [titles |-> { t1 }, date |-> 1, total |-> None, seasons |-> {}, parts |-> {}, tv |-> TRUE],
  [titles |-> { t1 }, date |-> None, total |-> 2, seasons |-> { 1 }, parts |-> {}, tv |-> FALSE] }

Media(r, p, o) ==
  [route |-> r, anilist |-> None, primary |-> { t1 }, others |-> {}, seasons |-> {}, parts |-> {},
   kinds |-> { "tv" }, premier |-> p, month |-> 0, episodes |-> 2, override |-> o,
   from |-> None, until |-> None]
Moved(n, aired, t) == [episode |-> n, aired |-> aired, at |-> t]

SomeMedias == {
  Media(r1, 46, None), Media(r1, 46, Moved(2, 1, 47)), Media(r1, None, None),
  [Media(r1, 46, None) EXCEPT !.from = 210, !.until = 400, !.seasons = { 1 }],
  [Media(r1, 46, Moved(1, 0, 40)) EXCEPT !.episodes = None],
  [Media(r2, 46, None) EXCEPT !.seasons = { 2 }] }

Row(first, last, t, delayed, air) ==
  [route |-> r1, first |-> first, last |-> last, date |-> t, until |-> None,
   delayed |-> delayed, air |-> air]

SomeEntries == {
  Row(2, 2, 214, FALSE, "raw"), Row(1, 2, 47, FALSE, "sub"), Row(2, 2, 382, TRUE, "raw"),
  Row(2, 3, 382, TRUE, "unknown"), Row(1, 2, 46, FALSE, "dub") }

NeverAlike(s, t) == FALSE
WholeTitle(t) == t

-----------------------------------------------------------------------------
(* Videos of two uploaders.                                                 *)

SomeVideos == { v1, v2, v3 }
SomeUploaders == (v1 :> u1) @@ (v2 :> u1) @@ (v3 :> u2)

Title(marked, counted, ends, collection, bare) ==
  [marked |-> marked, counted |-> counted, ends |-> ends, collection |-> collection, bare |-> bare]
Video(title, alias, seconds, published, negative, followers, views, listed) ==
  [title |-> title, alias |-> alias, seconds |-> seconds, published |-> published,
   negative |-> negative, followers |-> followers, views |-> views, listed |-> listed]

First   == Title({ 1 }, {}, {}, FALSE, <<>>)
Padded  == Title({}, {}, {}, FALSE, <<[number |-> 2, padded |-> FALSE, dated |-> TRUE],
                                       [number |-> 1, padded |-> TRUE, dated |-> FALSE]>>)
Both    == Title({}, { 1, 2 }, {}, FALSE, <<>>)
Range   == Title({ 2 }, {}, { 1, 2 }, FALSE, <<>>)
AllOfIt == Title({ 1 }, {}, {}, TRUE, <<>>)

Good    == Video(First, "exact", 1400, 0, {}, 500, 500, TRUE)
Double  == Video(Both, "strong", 1500, 1, {}, 500, 500, FALSE)
Early   == Video(Padded, "strong", 1200, -80, {}, 500, 500, TRUE)
Unseen  == Video(First, "exact", 1400, 0, {}, -1, 10, TRUE)
Small   == Video(Both, "weak", 1400, 0, {}, 5, 500, TRUE)
Noted   == Video(Both, "exact", 1400, 0, { "mild" }, 500, 500, TRUE)
Partly  == Video(Range, "exact", 1650, 60, {}, 500, 500, TRUE)
Collected == Video(AllOfIt, "none", 4000, 60, { "strong" }, 500, 500, TRUE)

Three(a, b, c) == (v1 :> a) @@ (v2 :> b) @@ (v3 :> c)

\* Two uploaders who agree, one who repeats itself, and what must not count.
SomeContents == { Three(Good, Double, Double), Three(Good, Double, Early),
                  Three(Unseen, Noted, Good), Three(Partly, Small, Collected) }

SomeTrusts == { (u1 :> "none") @@ (u2 :> "none"), (u1 :> "other") @@ (u2 :> "blocked"),
                (u1 :> "none") @@ (u2 :> "flag") }
SomeTargets == { { 1 }, { 1, 2 } }

-----------------------------------------------------------------------------

NoResolution ==
  /\ stage = "done" /\ outcome = Refused
  /\ request = CHOOSE r \in Requests : TRUE
  /\ item = None /\ dates = NoDates /\ estimate = None /\ season = NoSeason
  /\ answer = None /\ lookup = NoLookup

NoScan ==
  /\ content = <<>> /\ trust = <<>> /\ batch = FALSE /\ cache = EmptyCache
  /\ stored = <<>> /\ confirmed = <<>> /\ scan = Between

Init == (ResolutionInit /\ NoScan) \/ (NoResolution /\ ScanInit)

\* Nothing else may stop: a resolution has an outcome, a check has seen every episode.
Ended ==
  /\ stage = "done" /\ scan.pc = "next" /\ \A n \in Due : n <= scan.episode
  /\ UNCHANGED <<resolutionVars, scanVars>>

Next ==
  \/ ResolutionNext /\ UNCHANGED scanVars
  \/ ScanNext /\ UNCHANGED resolutionVars
  \/ Ended

Spec == Init /\ [][Next]_<<resolutionVars, scanVars>>
=============================================================================
