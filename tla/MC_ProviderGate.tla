-------------------------- MODULE MC_ProviderGate --------------------------
(* Small instances of ProviderGate.  The callers are model values that do   *)
(* not differ; symmetry is not used, the run checks a liveness property.     *)
EXTENDS ProviderGate
=============================================================================
