------------------------- MODULE MCSystemManagement -------------------------
(***************************************************************************)
(* An instance of SystemManagement for TLC.  A machine with a disk of its  *)
(* own, a disk that is read-only and an empty drive; another that may be   *)
(* defined.  A machine has three slots, so that one request too many is    *)
(* easily made.                                                            *)
(***************************************************************************)
EXTENDS SystemManagement

MCVms == {"v1", "v2"}
MCExisting == {"v1"}
MCDisks == 1..3
MCProtected == {2}
MCSlots == 1..3
MCAttached == {<<"v1", 1, 1>>, <<"v1", 2, 2>>}
MCRequests == {<<Unplaced>>, <<Vif, OldDisk(1)>>, <<NewDisk, Drive, OldDisk(2)>>}

\* An error of xapi does to a request what another client may do.
MCMaxEvents == [f \in BOOLEAN |-> IF f THEN 0 ELSE 1]
=============================================================================
