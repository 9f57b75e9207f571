--------------------------- MODULE MCJobInstances ---------------------------
(***************************************************************************)
(* JobInstances for TLC.  Threads and tasks are model values.  The threads *)
(* meet only in xapi and in the shared return code, so one of them may be  *)
(* asked for anything, and the other for what touches both.  It is not     *)
(* asked to modify: that ends as GetInstance does if the task is not       *)
(* found, and with one more constant answer if it is.                      *)
(***************************************************************************)
EXTENDS JobInstances

CONSTANTS t1, t2, k1, k2

MCThreads == {t1, t2}
MCTasks == {k1, k2}
MCNamed == {k1, k2}
MCAsks ==
    [t \in MCThreads |->
        IF t = t1 THEN {"enumerate", "query", "get", "create", "delete", "kill"}
                  ELSE {"delete"}]
=============================================================================
