-------------------------- MODULE MCHostStateChange --------------------------
(***************************************************************************)
(* Model checking of HostStateChange.  "Other" stands for the values of    *)
(* RequestedState that no branch of the job is about.                      *)
(***************************************************************************)
EXTENDS HostStateChange, TLC

Symmetry == Permutations(Jobs)
AllRequests == {"Enabled", "Disabled", "ShutDown", "Reboot", "Other"}
=============================================================================
