----------------------------- MODULE MC_Notices -----------------------------
(* Small instances of Notices.                                             *)
EXTENDS Notices

\* Review notices and alerts share the dispatcher, not their rows: the candidates,
\* the anime or the health of the source changes.  A set of candidates that goes and
\* comes back does so without a restart.
OneConcern ==
  /\ changes > 0 => stamp = 0 /\ health.failures = 0
  /\ changes > 1 => restarts = 0
  /\ stamp > 0 => health.failures = 0
=============================================================================
