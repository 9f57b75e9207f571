----------------------------- MODULE JobWorker -----------------------------
(***************************************************************************)
(* The one worker thread, as the bodies of the jobs see it: it takes a job,*)
(* runs the callback that comes with it, from the announcement that the    *)
(* job is running to the report of its end, and frees it                   *)
(* (Xen_Job_Helper.c).  The modules of the services EXTEND this one with   *)
(* their callbacks.  The queue is the abstract one that JobQueue           *)
(* implements.                                                             *)
(***************************************************************************)
EXTENDS JobTask, Sequences, FiniteSets

CONSTANTS
    Jobs,       \* the calls that start a job
    NoJob       \* the worker has no job

ASSUME JobWorkerAssumption == NoJob \notin Jobs

VARIABLES
    pending, current, served,   \* the job service
    kind,       \* the callback of each job
    task,       \* the xen task of each job
    faults,     \* in this behaviour calls to xapi may fail, or lose their reply
    pc,         \* where the worker is
    ok,         \* session->xen->ok
    rc          \* the local variable of the callbacks: job_error_code, statusrc, rc

jobs == <<pending, current, served, kind, task, faults>>
workerVars == <<jobs, pc, ok, rc>>

Service == INSTANCE AbstractJobs

WorkerInit ==
    /\ Service!Init
    /\ kind = [j \in Jobs |-> "none"]
    /\ task = [j \in Jobs |-> Absent]
    /\ faults \in BOOLEAN
    /\ pc = "idle" /\ ok = TRUE /\ rc = "Failed"

\* job_create, at the end of the methods that start a job.
Submit(j, callback) ==
    /\ pc # "crashed"
    /\ task[j] = Absent
    /\ Service!Accept(j)
    /\ kind' = [kind EXCEPT ![j] = callback]
    /\ task' = [task EXCEPT ![j] = NewTask]
    /\ UNCHANGED <<faults, pc, ok, rc>>

\* Without a session the job is dropped and its callback not called.
TakeJob ==
    /\ pc = "idle"
    /\ Service!Take
    /\ ok' = TRUE /\ rc' = "Failed"
    /\ pc' \in {"announce"} \cup (IF faults THEN {"free"} ELSE {})
    /\ UNCHANGED <<kind, task, faults>>

\* Every callback begins with job_change_state(..., JobState_Running, ...).
Announce ==
    /\ pc = "announce"
    /\ \E o \in ChangeState(task[current], "Running", FALSE, faults) :
         /\ ok' = o.ok
         /\ task' = [task EXCEPT ![current] = o.task]
    /\ pc' = kind[current]
    /\ UNCHANGED <<pending, current, served, kind, faults, rc>>

\* ... and ends with the report of the result, which is followed by a cleanup
\* in the one callback that has something to undo.
Report ==
    /\ pc = "report"
    /\ \E o \in ChangeState(task[current],
                            IF rc = "NoError" THEN "Completed" ELSE "Exception",
                            rc # "NoError", faults) :
         /\ ok' = o.ok
         /\ task' = [task EXCEPT ![current] = o.task]
    /\ pc' = IF kind[current] = "copy" THEN "cleanup" ELSE "free"
    /\ UNCHANGED <<pending, current, served, kind, faults, rc>>

FreeJob ==
    /\ pc = "free"
    /\ Service!Finish
    /\ pc' = "idle"
    /\ UNCHANGED <<kind, task, faults, ok, rc>>

\* KillJob and DeleteInstance destroy the task, whatever the worker is doing.
KillJob(j) ==
    /\ task[j] \in Recorded
    /\ task' = [task EXCEPT ![j] = Destroy(@)]
    /\ UNCHANGED <<pending, current, served, kind, faults, pc, ok, rc>>

-----------------------------------------------------------------------------
(* What the steps of the callbacks are made of                             *)

\* A step of a callback from one place to another.
Step(from, to) == pc = from /\ pc' = to /\ UNCHANGED jobs

\* A call that reads: its result is the session's flag afterwards.
Reads == ok' \in Calls(ok, faults)

\* A call that changes something is carried out, although its reply may be lost;
\* or it is not: the session is in error already, or the call fails.
Performs == ok /\ ok' \in {TRUE} \cup (IF faults THEN {FALSE} ELSE {})
Fails    == ok' = FALSE

WorkerTypeOK ==
    /\ current \in Jobs \cup {NoJob} /\ served \subseteq Jobs /\ pending \in Seq(Jobs)
    /\ task \in [Jobs -> Tasks]
    /\ faults \in BOOLEAN /\ ok \in BOOLEAN /\ rc \in {"Failed", "NoError"}
=============================================================================
