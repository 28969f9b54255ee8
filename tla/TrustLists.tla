----------------------------- MODULE TrustLists -----------------------------
(***************************************************************************)
(* What AniPulse knows about the uploaders of one anime: the flags and     *)
(* counters of uploader_trust, and the list of globally trusted uploaders. *)
(* Module CandidateReview extends it with the episode they are used for.   *)
(***************************************************************************)
EXTENDS Integers, FiniteSets

CONSTANTS Uploaders,
          TrustedAfter,  \* trusted_confirmed_count of the configuration
          MaxChanges     \* bound: changes of the trust lists other than blocking

ASSUME TrustAssumption ==
  /\ TrustedAfter \in Nat \ {0}
  /\ MaxChanges \in Nat

VARIABLES
  flag,      \* manually_trusted and manually_blocked, which exclude each other
  global,    \* rows of global_uploader_trust
  accepted,  \* confirmed_count, counted up to TrustedAfter
  spoiled,   \* the uploaders with rejected_count > 0
  marker,    \* a flag change between its look at the global list and its write
  changes    \* trust list changes so far

listVars  == <<flag, global, marker, changes>>
trustVars == <<listVars, accepted, spoiled>>

Flag   == {"none", "trusted", "blocked"}
NoMark == <<>>

TrustTypeOK ==
  /\ flag \in [Uploaders -> Flag]
  /\ global \in SUBSET Uploaders
  /\ accepted \in [Uploaders -> 0 .. TrustedAfter]
  /\ spoiled \in SUBSET Uploaders
  /\ marker \in {NoMark} \cup (Uploaders \X Flag)
  /\ changes \in 0 .. MaxChanges

TrustInit ==
  /\ flag = [u \in Uploaders |-> "none"]
  /\ global = {}
  /\ accepted = [u \in Uploaders |-> 0]
  /\ spoiled = {}
  /\ marker = NoMark
  /\ changes = 0

Blocked(u) == flag[u] = "blocked"

\* UploaderTrust::is_trusted
IsTrusted(u) ==
  /\ ~Blocked(u)
  /\ \/ u \in global
     \/ flag[u] = "trusted"
     \/ accepted[u] >= TrustedAfter /\ u \notin spoiled

-----------------------------------------------------------------------------
(* The counters, moved by confirmations and rejections made by hand.       *)

CountConfirmed(u) ==
  /\ accepted' = [accepted EXCEPT ![u] = IF @ < TrustedAfter THEN @ + 1 ELSE @]
  /\ UNCHANGED spoiled

CountRejected(U) ==
  /\ spoiled' = spoiled \cup U
  /\ UNCHANGED accepted

-----------------------------------------------------------------------------
(* The lists.  Changing the uploader of an entry (update_..._uploader) is  *)
(* one transaction in the code and a removal and an addition here.         *)

Changing == changes < MaxChanges /\ changes' = changes + 1

\* Mutant: an earlier block stays beside the trust.
FlagWrittenBeside(u, f) == IF f = "trusted" /\ Blocked(u) THEN "both" ELSE f

\* The flag set_uploader_flag writes for f.  A global entry makes manual
\* trust superfluous: it is left out, and with it an earlier block.
FlagWritten(u, f) == IF f = "trusted" /\ u \in global THEN "none" ELSE f

\* set_uploader_flag, its look at the global list.
SetFlagRead(u, f) ==
  /\ Changing
  /\ marker = NoMark /\ f # "none"
  /\ marker' = <<u, FlagWritten(u, f)>>
  /\ UNCHANGED <<flag, global>>

\* add_manually_trusted_uploader, the same: it refuses a global one.
AddTrustedRead(u) ==
  /\ Changing
  /\ marker = NoMark /\ u \notin global
  /\ marker' = <<u, "trusted">>
  /\ UNCHANGED <<flag, global>>

\* The write of either.
FlagWrite ==
  /\ marker # NoMark
  /\ flag' = [flag EXCEPT ![marker[1]] = marker[2]]
  /\ marker' = NoMark
  /\ UNCHANGED <<global, changes>>

\* remove_manual_uploader_trust
RemoveTrusted(u) ==
  /\ Changing
  /\ flag[u] = "trusted"
  /\ flag' = [flag EXCEPT ![u] = "none"]
  /\ UNCHANGED <<global, marker>>

Untrusted(u) ==
  flag' = [flag EXCEPT ![u] = IF @ = "trusted" THEN "none" ELSE @]

\* add_globally_trusted_uploader and promote_uploader_from_anime: a block of
\* this anime stays.
AddGlobal(u) ==
  /\ Changing
  /\ global' = global \cup {u}
  /\ Untrusted(u)
  /\ UNCHANGED marker

\* remove_global_uploader_trust
RemoveGlobal(u) ==
  /\ Changing
  /\ u \in global
  /\ global' = global \ {u}
  /\ UNCHANGED <<flag, marker>>

\* The write of block_uploader, which is not counted as a change.
BlockFlag(u) ==
  /\ flag' = [flag EXCEPT ![u] = "blocked"]
  /\ UNCHANGED <<global, marker, changes>>

ListStep ==
  \/ \E u \in Uploaders, f \in Flag : SetFlagRead(u, f)
  \/ \E u \in Uploaders :
       AddTrustedRead(u) \/ RemoveTrusted(u) \/ AddGlobal(u) \/ RemoveGlobal(u)
  \/ FlagWrite

=============================================================================
