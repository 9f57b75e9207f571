---------------------------- MODULE StateChange ----------------------------
(***************************************************************************)
(* RequestStateChange on a virtual machine: the job that starts, stops,    *)
(* pauses, suspends or reboots it (Xen_ComputerSystem.c), as it runs       *)
(* against the machine, its own xen task, the clients that kill it,  *)
(* and other clients of xapi.                                              *)
(*                                                                         *)
(* All jobs are about one machine, the case in which they can disturb each *)
(* other.  They come to the worker through the job service, here in its    *)
(* abstract form, which JobQueue implements.                               *)
(***************************************************************************)
EXTENDS JobTask, Sequences, FiniteSets

CONSTANTS
    Jobs,           \* the RequestStateChange calls that may be made
    NoJob,          \* the worker has no job
    Requests,       \* the values of RequestedState that clients use
    OtherClients,   \* others may start, stop ... the machine too
    Kills           \* clients may kill jobs

ASSUME StateChangeAssumption ==
    /\ NoJob \notin Jobs
    /\ OtherClients \in BOOLEAN /\ Kills \in BOOLEAN

VARIABLES
    pending, current, served,   \* the job service
    request,    \* requested_state in each job's context
    task,       \* the xen task of each job
    power,      \* the power state of the machine
    pc,         \* where the worker is in _state_change_job
    ok,         \* session->xen->ok
    seen,       \* the local variable power_state
    rc,         \* the local variable rc
    announced,  \* history: the jobs whose Running state was recorded
    effect,     \* history: what each job did to the machine
    faults      \* in this behaviour calls to xapi may fail, or lose their reply

service == <<pending, current, served>>
locals  == <<pc, ok, seen, rc>>
history == <<announced, effect>>
vars == <<service, request, task, power, locals, history, faults>>

Service == INSTANCE AbstractJobs

-----------------------------------------------------------------------------
(* The machine                                                             *)

\* The calls to xapi: the power states a call is allowed in, and what it does.
From == [start |-> {"Halted"}, unpause |-> {"Paused"}, resume |-> {"Suspended"},
         clean_shutdown |-> {"Running"},
         hard_shutdown |-> {"Running", "Paused", "Suspended"},
         clean_reboot |-> {"Running"}, hard_reboot |-> {"Running", "Paused"},
         pause |-> {"Running"}, suspend |-> {"Running"}]
To == [start |-> "Running", unpause |-> "Running", resume |-> "Running",
       clean_shutdown |-> "Halted", hard_shutdown |-> "Halted",
       clean_reboot |-> "Running", hard_reboot |-> "Running",
       pause |-> "Paused", suspend |-> "Suspended"]
Ops == DOMAIN From
Power == {"Halted", "Running", "Paused", "Suspended"}

\* Which call the job makes for a request, given the power state it has read.
Transitions ==
    {<<"Enabled", "Halted", "start">>, <<"Enabled", "Paused", "unpause">>,
     <<"Enabled", "Suspended", "resume">>,
     <<"Reboot", "Running", "clean_reboot">>, <<"Quiesce", "Running", "pause">>,
     <<"Offline", "Running", "suspend">>} \cup
    {<<r, "Running", "clean_shutdown">> : r \in {"Disabled", "ShutDown"}} \cup
    {<<r, st, "hard_shutdown">> :
       r \in {"Disabled", "ShutDown"}, st \in {"Paused", "Suspended"}} \cup
    {<<"HardShutdown", st, "hard_shutdown">> : st \in Power} \cup
    {<<r, st, "hard_reboot">> : r \in {"Reset", "HardReboot"}, st \in Power}

Choices(r, st) == {op \in Ops : <<r, st, op>> \in Transitions}
Wanted(r) == UNION {Choices(r, st) : st \in Power}

-----------------------------------------------------------------------------

Init ==
    /\ Service!Init
    /\ request = [j \in Jobs |-> "none"]
    /\ task = [j \in Jobs |-> Absent]
    /\ power \in Power
    /\ pc = "idle" /\ ok = TRUE /\ seen = "Halted" /\ rc = "Failed"
    /\ announced = {} /\ effect = [j \in Jobs |-> "none"]
    /\ faults \in BOOLEAN

\* xen_resource_invoke_method: the request is not looked at, only queued.
RequestStateChange(j, r) ==
    /\ task[j] = Absent
    /\ Service!Accept(j)
    /\ request' = [request EXCEPT ![j] = r]
    /\ task' = [task EXCEPT ![j] = NewTask]
    /\ UNCHANGED <<power, locals, history, faults>>

(* The worker: job_worker_thread_func and _state_change_job                *)

\* A job that gets no session is dropped without its callback being called.
TakeJob ==
    /\ pc = "idle"
    /\ Service!Take
    /\ ok' = TRUE
    /\ rc' = "Failed"
    /\ pc' \in {"read"} \cup (IF faults THEN {"free"} ELSE {})
    /\ UNCHANGED <<request, task, power, seen, history, faults>>

ReadPower ==
    /\ pc = "read"
    /\ \E c \in Calls(ok, faults) :
         /\ ok' = c
         /\ IF c THEN seen' = power /\ pc' = "announce"
                 ELSE UNCHANGED seen /\ pc' = "report"
    /\ UNCHANGED <<service, request, task, power, rc, history, faults>>

\* The job is running, says job_change_state; its failure is only seen in ok.
Announce ==
    /\ pc = "announce"
    /\ \E o \in ChangeState(task[current], "Running", FALSE, faults) :
         /\ ok' = o.ok
         /\ task' = [task EXCEPT ![current] = o.task]
         /\ announced' = IF Is(o.task, "Running") THEN announced \cup {current} ELSE announced
    /\ pc' = "act"
    /\ UNCHANGED <<service, request, power, seen, rc, effect, faults>>

\* Mutant: a refused transition ends the job without a report.
Refuse_Silent ==
    /\ pc = "act"
    /\ Choices(request[current], seen) = {}
    /\ rc' = "InvalidTransition"
    /\ pc' = "free"
    /\ UNCHANGED <<service, request, task, power, ok, seen, history, faults>>

\* There is no call for this request in the power state that was read.
Refuse ==
    /\ pc = "act"
    /\ Choices(request[current], seen) = {}
    /\ rc' = "InvalidTransition"
    /\ pc' = "report"
    /\ UNCHANGED <<service, request, task, power, ok, seen, history, faults>>

\* xapi acts if the call reaches it and the machine is in the right state.
Reaches(op) ==
    /\ ok /\ power \in From[op]
    /\ power' = To[op]
    /\ effect' = [effect EXCEPT ![current] = op]

\* Mutant: the result of the call is not looked at.
Operate_Unchecked ==
    /\ pc = "act"
    /\ \E op \in Choices(request[current], seen) :
         \/ Reaches(op) /\ ok' = TRUE
         \/ Reaches(op) /\ faults /\ ok' = FALSE
         \/ /\ faults \/ ~ok \/ power \notin From[op]
            /\ ok' = FALSE
            /\ UNCHANGED <<power, effect>>
    /\ rc' = "NoError"
    /\ pc' = "report"
    /\ UNCHANGED <<service, request, task, seen, announced, faults>>

\* Mutant: the chain of ifs misses an else, and Disabled ends in the last one.
Operate_FallsThrough ==
    /\ pc = "act"
    /\ \E op \in Choices(request[current], seen) :
         \/ Reaches(op) /\ ok' = TRUE
         \/ Reaches(op) /\ faults /\ ok' = FALSE
         \/ /\ faults \/ ~ok \/ power \notin From[op]
            /\ ok' = FALSE
            /\ UNCHANGED <<power, effect>>
    /\ rc' = CASE request[current] = "Disabled" -> "InvalidTransition"
               [] ok' /\ request[current] # "Disabled" -> "NoError"
               [] OTHER -> rc
    /\ pc' = "report"
    /\ UNCHANGED <<service, request, task, seen, announced, faults>>

\* The call, and the test of session->xen->ok after the chain of ifs.
Operate ==
    /\ pc = "act"
    /\ \E op \in Choices(request[current], seen) :
         \/ Reaches(op) /\ ok' = TRUE
         \/ Reaches(op) /\ faults /\ ok' = FALSE    \* the reply is lost
         \/ /\ faults \/ ~ok \/ power \notin From[op]
            /\ ok' = FALSE
            /\ UNCHANGED <<power, effect>>
    /\ rc' = IF ok' THEN "NoError" ELSE rc
    /\ pc' = "report"
    /\ UNCHANGED <<service, request, task, seen, announced, faults>>

Report ==
    /\ pc = "report"
    /\ \E o \in ChangeState(task[current],
                            IF rc = "NoError" THEN "Completed" ELSE "Exception",
                            rc # "NoError", faults) :
         /\ ok' = o.ok
         /\ task' = [task EXCEPT ![current] = o.task]
    /\ pc' = "free"
    /\ UNCHANGED <<service, request, power, seen, rc, history, faults>>

FreeJob ==
    /\ pc = "free"
    /\ Service!Finish
    /\ pc' = "idle"
    /\ UNCHANGED <<request, task, power, ok, seen, rc, history, faults>>

Worker == TakeJob \/ ReadPower \/ Announce \/ Refuse \/ Operate \/ Report \/ FreeJob

(* The others                                                              *)

KillJob(j) ==
    /\ Kills
    /\ task[j] \in Recorded
    /\ task' = [task EXCEPT ![j] = Destroy(@)]
    /\ UNCHANGED <<service, request, power, locals, history, faults>>

OtherClient ==
    /\ OtherClients
    /\ \E op \in Ops : power \in From[op] /\ power' = To[op]
    /\ UNCHANGED <<service, request, task, locals, history, faults>>

Next ==
    \/ \E j \in Jobs, r \in Requests : RequestStateChange(j, r)
    \/ Worker
    \/ \E j \in Jobs : KillJob(j)
    \/ OtherClient

Spec == Init /\ [][Next]_vars

\* The worker thread keeps running, and every call to xapi returns.
FairSpec == Spec /\ WF_vars(Worker)

-----------------------------------------------------------------------------
(* Properties                                                              *)

PCs == {"idle", "read", "announce", "act", "report", "free"}
Results == {"Failed", "InvalidTransition", "NoError"}

\* Every variable stays in its range.
TypeOK ==
    /\ current \in Jobs \cup {NoJob} /\ served \subseteq Jobs /\ pending \in Seq(Jobs)
    /\ request \in [Jobs -> Requests \cup {"none"}]
    /\ task \in [Jobs -> Tasks]
    /\ power \in Power /\ seen \in Power
    /\ pc \in PCs /\ ok \in BOOLEAN /\ rc \in Results
    /\ announced \subseteq Jobs
    /\ effect \in [Jobs -> Ops \cup {"none"}]
    /\ faults \in BOOLEAN

\* A job that is Completed did itself what its client asked for, whatever
\* failed, was killed or was done by others in the meantime.
CompletedMeansDone ==
    \A j \in Jobs : Is(task[j], "Completed") => effect[j] \in Wanted(request[j])

\* The machine is only touched by jobs whose task xapi knew to be running: a job
\* killed before that, even between the read of the power state and the
\* update, finds its session in error and its operation goes nowhere.
OnlyAnnouncedJobsAct ==
    \A j \in Jobs : effect[j] # "none" => j \in announced

\* Without faults a job that failed has left the machine alone.
ExceptionMeansUntouched ==
    ~faults => \A j \in Jobs : Is(task[j], "Exception") => effect[j] = "none"

\* Who looks at a job again and again (job_change_state, KillJob) never sees it go back:
\* it is New, Running and ended, once, whatever replies are lost on the way.
JobsProceed == [][\A j \in Jobs : Proceeds(task[j], task'[j])]_vars

\* Without faults every job ends for its client too, in a final state or killed.
EveryTaskEnds == \A j \in Jobs : ~faults /\ task[j] # Absent ~> Ended(task[j])
=============================================================================
