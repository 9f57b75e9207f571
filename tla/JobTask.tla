------------------------------ MODULE JobTask ------------------------------
(***************************************************************************)
(* What every asynchronous job does with the xen task that stands for it   *)
(* (Xen_Job_Helper.c, Xen_Job.c), as operators on the state of the task.   *)
(*                                                                         *)
(* The task's other_config keeps the CIM job: here only its state and      *)
(* whether it has an error code matter.  A call to xapi is made through a  *)
(* session whose "ok" flag is sticky: while it is FALSE the libxenserver   *)
(* calls return at once and reach nobody.  The result of a call is         *)
(* therefore the flag together with whatever the call changes.             *)
(***************************************************************************)

CONSTANTS
    Absent,     \* no task was created yet
    Gone        \* the task was destroyed: KillJob, DeleteInstance, or xapi,
                \* which collects tasks that are a day old

States == {"New", "Running", "Completed", "Exception"}
Final == {"Completed", "Exception"}
Recorded == [state : States, error : BOOLEAN]
Tasks == Recorded \cup {Absent, Gone}

ASSUME JobTaskAssumption == Absent # Gone /\ {Absent, Gone} \cap Recorded = {}

\* Mutant: the task is left without a CIM job state.
NewTask_Blank == [state |-> "", error |-> FALSE]

\* job_alloc: the record a new task starts with.
NewTask == [state |-> "New", error |-> FALSE]

Is(task, st) == task \in Recorded /\ task.state = st
Ended(task)  == task = Gone \/ (task \in Recorded /\ task.state \in Final)

\* What a call may return for a session in the given state.
Calls(ok, faults) == IF ok /\ faults THEN BOOLEAN ELSE {ok}

Written(ok, st, err) == [ok |-> ok, task |-> [state |-> st, error |-> err]]

\* job_change_state clears the error of the session, reads the record of the
\* task and writes it back.  When the task is gone, a call fails, or the reply
\* to the write is lost, it leaves the session in error; nobody is told.
ChangeState(task, st, err, faults) ==
    IF task = Gone
      THEN {[ok |-> FALSE, task |-> task]}
      ELSE {Written(TRUE, st, err)} \cup
           (IF faults THEN {[ok |-> FALSE, task |-> task], Written(FALSE, st, err)} ELSE {})

\* xen_resource_delete, for KillJob and DeleteInstance: xen_task_destroy.
Destroy(task) == IF task \in Recorded THEN Gone ELSE task

\* What becomes of a task in one step: it is made New, is announced to be Running, and
\* ends once, with an error code if and only if it is an Exception; or it is destroyed.
Proceeds(t, u) ==
    \/ u = t
    \/ t = Absent /\ u = NewTask
    \/ t \in Recorded /\ u = Gone
    \/ Is(t, "New") /\ u = [state |-> "Running", error |-> FALSE]
    \/ /\ Is(t, "New") \/ Is(t, "Running")
       /\ \/ u = [state |-> "Completed", error |-> FALSE]
          \/ u = [state |-> "Exception", error |-> TRUE]
=============================================================================
