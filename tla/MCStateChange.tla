---------------------------- MODULE MCStateChange ----------------------------
(***************************************************************************)
(* Model checking of StateChange.                                          *)
(***************************************************************************)
EXTENDS StateChange

\* Two requests with several rows of the table, two with one, and one that the
\* job knows no call for.
SomeRequests == {"Enabled", "Disabled", "HardReboot", "Offline", "NoChange"}
=============================================================================
