-------------------------- MODULE HostStateChange --------------------------
(***************************************************************************)
(* RequestStateChange on the host: the job that takes it into and out of   *)
(* maintenance mode, shuts it down or reboots it (Xen_HostComputerSystem.c).*)
(*                                                                         *)
(* A shutdown needs maintenance mode, so the job enters it on the way and  *)
(* leaves it again, which it must also do after an error: it forces the    *)
(* session's sticky "ok" flag back to true for that.  Every call to xapi   *)
(* is a step of its own here.  All jobs are about one host.                *)
(***************************************************************************)
EXTENDS JobTask, Sequences, FiniteSets

CONSTANTS
    Jobs,       \* the RequestStateChange calls that may be made
    NoJob,      \* the worker has no job
    Requests,   \* the values of RequestedState that clients use
    Kills       \* clients may kill jobs

ASSUME HostStateChangeAssumption == NoJob \notin Jobs /\ Kills \in BOOLEAN

VARIABLES
    pending, current, served,   \* the job service
    request,    \* requested_state in each job's context
    task,       \* the xen task of each job
    host,       \* what xapi knows of the host
    faults,     \* whether calls to xapi may fail, or their replies be lost:
                \* chosen once for each behaviour
    pc,         \* where the worker is in _state_change_job
    ok,         \* session->xen->ok
    rc,         \* the local variable rc
    entered,    \* the local variable entered_maint_mode
    announced,  \* history: the jobs whose Running state was recorded
    effect,     \* history: the calls of each job that xapi carried out
    before      \* history: whether the host was enabled when the job started

service == <<pending, current, served>>
locals  == <<pc, ok, rc, entered>>
history == <<announced, effect, before>>
vars == <<service, request, task, host, faults, locals, history>>

Service == INSTANCE AbstractJobs

\* enabled: the host takes virtual machines; mode: other_config says
\* MAINTENANCE_MODE; leaving: it was told to shut down or reboot; off: it is.
Hosts == [enabled : BOOLEAN, mode : BOOLEAN, leaving : BOOLEAN, off : BOOLEAN]

HostCalls == {"host_disable", "remove_key", "add_key", "host_shutdown", "host_reboot",
           "host_power_on", "host_enable"}

\* What xapi does to the host when it carries out a call ...
Perform(call, h) ==
    CASE call = "host_disable"  -> [h EXCEPT !.enabled = FALSE]
      [] call = "host_enable"   -> [h EXCEPT !.enabled = TRUE]
      [] call = "remove_key"    -> [h EXCEPT !.mode = FALSE]
      [] call = "add_key"       -> [h EXCEPT !.mode = TRUE]
      [] call = "host_power_on" -> [h EXCEPT !.leaving = FALSE, !.off = FALSE]
      [] OTHER                  -> [h EXCEPT !.leaving = TRUE]

\* ... and when it may: a shutdown needs a disabled host, a duplicate key is
\* refused, and a host that is off or on its way can do nothing.
Allowed(call, h) ==
    CASE call = "host_power_on" -> h.off
      [] call \in {"host_shutdown", "host_reboot"} -> ~h.enabled /\ ~h.leaving
      [] call \in {"host_enable", "host_disable"}  -> ~h.off
      [] call = "add_key" -> ~h.mode
      [] OTHER -> TRUE

\* The calls xapi may refuse whatever the host's state: virtual machines still
\* run on it, it is not the time.
MayRefuse(call) == call \in {"host_shutdown", "host_reboot"}

-----------------------------------------------------------------------------

Init ==
    /\ Service!Init
    /\ request = [j \in Jobs |-> "none"]
    /\ task = [j \in Jobs |-> Absent]
    /\ host \in {h \in Hosts : ~h.leaving /\ ~h.off /\ (h.mode => ~h.enabled)}
    /\ faults \in BOOLEAN
    /\ pc = "idle" /\ ok = TRUE /\ rc = "Failed" /\ entered = FALSE
    /\ announced = {} /\ effect = [j \in Jobs |-> {}]
    /\ before = [j \in Jobs |-> FALSE]

\* xen_resource_invoke_method: the request is not looked at, only queued.
RequestStateChange(j, r) ==
    /\ pc # "dead"
    /\ task[j] = Absent
    /\ Service!Accept(j)
    /\ request' = [request EXCEPT ![j] = r]
    /\ task' = [task EXCEPT ![j] = NewTask]
    /\ UNCHANGED <<host, faults, locals, history>>

TakeJob ==
    /\ pc = "idle"
    /\ Service!Take
    /\ ok' = TRUE /\ rc' = "Failed" /\ entered' = FALSE
    /\ before' = [before EXCEPT ![current'] = host.enabled]
    /\ pc' \in {"announce"} \cup (IF faults THEN {"free"} ELSE {})
    /\ UNCHANGED <<request, faults, task, host, announced, effect>>

\* The first call of each branch; an unknown request has none.
Announce ==
    /\ pc = "announce"
    /\ \E o \in ChangeState(task[current], "Running", FALSE, faults) :
         /\ ok' = o.ok
         /\ task' = [task EXCEPT ![current] = o.task]
         /\ announced' = IF Is(o.task, "Running") THEN announced \cup {current} ELSE announced
    /\ pc' = CASE request[current] = "Disabled"              -> "host_disable"
               [] request[current] \in {"ShutDown", "Reboot"} -> "get_enabled"
               [] request[current] = "Enabled"               -> "get_allowed_operations"
               [] OTHER                                      -> "report"
    /\ UNCHANGED <<service, request, faults, host, rc, entered, effect, before>>

\* The call the worker is at, with the result c that the session shows.
Call(call, c) ==
    \/ /\ ok /\ Allowed(call, host)
       /\ c \in {TRUE} \cup (IF faults THEN {FALSE} ELSE {})    \* a lost reply
       /\ host' = Perform(call, host)
       /\ effect' = [effect EXCEPT ![current] = @ \cup {call}]
    \/ /\ ~ok \/ faults \/ MayRefuse(call) \/ ~Allowed(call, host)
       /\ c = FALSE
       /\ UNCHANGED <<host, effect>>

\* Is the host enabled?  Maintenance mode is only entered if it is.
GetEnabled ==
    /\ pc = "get_enabled"
    /\ \E c \in Calls(ok, faults) :
         /\ ok' = c
         /\ entered' = (c /\ host.enabled)
    /\ pc' = IF entered' THEN "host_disable" ELSE "shutdown"
    /\ UNCHANGED <<service, request, faults, task, host, rc, history>>

GetAllowedOperations ==
    /\ pc = "get_allowed_operations"
    /\ \E c \in Calls(ok, faults) :
         /\ ok' = c
         /\ pc' = IF ~c THEN "report" ELSE IF host.off THEN "host_power_on" ELSE "leave"
    /\ UNCHANGED <<service, request, faults, task, host, rc, entered, history>>

\* _enter_maintenence_mode: the key follows if the host could be disabled.
DisableHost ==
    /\ pc = "host_disable"
    /\ \E c \in BOOLEAN :
         /\ Call("host_disable", c)
         /\ ok' = c
         /\ rc' = IF c /\ request[current] = "Disabled" THEN "NoError" ELSE rc
         /\ pc' = IF c THEN "remove_key" ELSE IF request[current] = "Disabled"
                                               THEN "report" ELSE "shutdown"
    /\ UNCHANGED <<service, request, faults, task, entered, announced, before>>

RemoveOldKey ==
    /\ pc = "remove_key"
    /\ \E c \in BOOLEAN : Call("remove_key", c) /\ ok' = c
    /\ pc' = "add_key"
    /\ UNCHANGED <<service, request, faults, task, rc, entered, announced, before>>

AddKey ==
    /\ pc = "add_key"
    /\ \E c \in BOOLEAN : Call("add_key", c) /\ ok' = c
    /\ pc' = IF request[current] = "Disabled" THEN "report" ELSE "shutdown"
    /\ UNCHANGED <<service, request, faults, task, rc, entered, announced, before>>

ShutdownCall == IF request[current] = "Reboot" THEN "host_reboot" ELSE "host_shutdown"

\* Mutant: the session stays in error for the calls that leave maintenance mode.
ShutDown_KeepsError ==
    /\ pc = "shutdown"
    /\ \E c \in BOOLEAN :
         /\ Call(ShutdownCall, c)
         /\ rc' = IF c THEN "NoError" ELSE rc
         /\ ok' = c
         /\ pc' = IF entered THEN "leave" ELSE "report"
    /\ UNCHANGED <<service, request, faults, task, entered, announced, before>>

\* xen_host_shutdown or xen_host_reboot.  If the job has entered maintenance
\* mode it now leaves it, with a session forced back into order.
ShutDown ==
    /\ pc = "shutdown"
    /\ \E c \in BOOLEAN :
         /\ Call(ShutdownCall, c)
         /\ rc' = IF c THEN "NoError" ELSE rc
         /\ ok' = (c \/ entered)
         /\ pc' = IF entered THEN "leave" ELSE "report"
    /\ UNCHANGED <<service, request, faults, task, entered, announced, before>>

\* Mutant: the key is not removed.
RemoveKey_Skipped ==
    /\ pc = "leave"
    /\ pc' = "host_enable"
    /\ UNCHANGED <<service, request, faults, task, host, ok, rc, entered, history>>

\* _exit_maintenence_mode: the key goes first.
RemoveKey ==
    /\ pc = "leave"
    /\ \E c \in BOOLEAN : Call("remove_key", c) /\ ok' = c
    /\ pc' = "host_enable"
    /\ UNCHANGED <<service, request, faults, task, rc, entered, announced, before>>

\* Mutant: a shutdown is a success once the host is enabled again.
EnableHost_Success ==
    /\ pc = "host_enable"
    /\ \E c \in BOOLEAN :
         /\ Call("host_enable", c)
         /\ rc' = IF c THEN "NoError" ELSE rc
         /\ ok' = c
    /\ pc' = "report"
    /\ UNCHANGED <<service, request, faults, task, entered, announced, before>>

\* ... and the host is enabled; on the way out of a shutdown the result is not
\* looked at, and the session is put back in error if the shutdown had failed.
EnableHost ==
    /\ pc = "host_enable"
    /\ \E c \in BOOLEAN :
         /\ Call("host_enable", c)
         /\ rc' = IF c /\ request[current] = "Enabled" THEN "NoError" ELSE rc
         /\ ok' = (c /\ ~(entered /\ rc = "Failed"))
    /\ pc' = "report"
    /\ UNCHANGED <<service, request, faults, task, entered, announced, before>>

PowerOn ==
    /\ pc = "host_power_on"
    /\ \E c \in BOOLEAN :
         /\ Call("host_power_on", c)
         /\ rc' = IF c THEN "NoError" ELSE rc
         /\ ok' = c
    /\ pc' = "report"
    /\ UNCHANGED <<service, request, faults, task, entered, announced, before>>

Report ==
    /\ pc = "report"
    /\ \E o \in ChangeState(task[current],
                            IF rc = "NoError" THEN "Completed" ELSE "Exception",
                            rc # "NoError", faults) :
         /\ ok' = o.ok
         /\ task' = [task EXCEPT ![current] = o.task]
    /\ pc' = "free"
    /\ UNCHANGED <<service, request, faults, host, rc, entered, history>>

FreeJob ==
    /\ pc = "free"
    /\ Service!Finish
    /\ pc' = "idle"
    /\ UNCHANGED <<request, faults, task, host, ok, rc, entered, history>>

Worker ==
    \/ TakeJob \/ Announce \/ GetEnabled \/ GetAllowedOperations \/ DisableHost
    \/ RemoveOldKey \/ AddKey \/ ShutDown \/ RemoveKey \/ EnableHost \/ PowerOn
    \/ Report \/ FreeJob

KillJob(j) ==
    /\ Kills
    /\ task[j] \in Recorded
    /\ task' = [task EXCEPT ![j] = Destroy(@)]
    /\ UNCHANGED <<service, request, faults, host, locals, history>>

\* A host that is leaving goes off, and the provider with it if it runs there.
HostStops ==
    /\ host.leaving /\ ~host.off
    /\ host' = [host EXCEPT !.off = TRUE]
    /\ pc' \in {pc, "dead"}
    /\ UNCHANGED <<service, request, faults, task, ok, rc, entered, history>>

\* It comes back by itself after a reboot, or by hand.
HostStarts ==
    /\ host.off
    /\ host' = [host EXCEPT !.off = FALSE, !.leaving = FALSE]
    /\ UNCHANGED <<service, request, faults, task, locals, history>>

Next ==
    \/ \E j \in Jobs, r \in Requests : RequestStateChange(j, r)
    \/ Worker
    \/ \E j \in Jobs : KillJob(j)
    \/ HostStops \/ HostStarts

Spec == Init /\ [][Next]_vars

-----------------------------------------------------------------------------
(* Properties                                                              *)

PCs == {"idle", "announce", "get_enabled", "get_allowed_operations", "host_disable",
        "remove_key", "add_key", "shutdown", "leave", "host_enable", "host_power_on",
        "report", "free", "dead"}

\* Every variable stays in its range.
TypeOK ==
    /\ current \in Jobs \cup {NoJob} /\ served \subseteq Jobs /\ pending \in Seq(Jobs)
    /\ request \in [Jobs -> Requests \cup {"none"}]
    /\ task \in [Jobs -> Tasks]
    /\ host \in Hosts /\ faults \in BOOLEAN
    /\ pc \in PCs /\ ok \in BOOLEAN /\ rc \in {"Failed", "NoError"} /\ entered \in BOOLEAN
    /\ announced \subseteq Jobs
    /\ effect \in [Jobs -> SUBSET HostCalls]
    /\ before \in [Jobs -> BOOLEAN]

Goal(r) == CASE r = "Disabled" -> {"host_disable"}
             [] r = "ShutDown" -> {"host_shutdown"}
             [] r = "Reboot"   -> {"host_reboot"}
             [] r = "Enabled"  -> {"host_enable", "host_power_on"}
             [] OTHER          -> {}

\* A Completed job did what was asked; the steps that leave maintenance mode
\* make no failed shutdown a success.
CompletedMeansDone ==
    \A j \in Jobs : Is(task[j], "Completed") => effect[j] \cap Goal(request[j]) # {}

\* The host is only touched by jobs whose task xapi knew to be running, although
\* the job overrides the error that a killed task leaves in its session.
OnlyAnnouncedJobsAct ==
    \A j \in Jobs : effect[j] # {} => j \in announced

\* No call that fails or is lost leaves a host that takes virtual machines
\* marked as being in maintenance mode, which "is required to get XenCenter to
\* display the mode properly" (Xen_HostComputerSystem.c:753).
ModeMeansDisabled == host.mode => ~host.enabled

\* Without faults, and unless an earlier job has shut the host down, a shutdown
\* or reboot that failed leaves the host as it found it: enabled if it was.
FailureRestores ==
    (/\ ~faults
     /\ pc = "report" /\ rc = "Failed" /\ request[current] \in {"ShutDown", "Reboot"}
     /\ \A j \in Jobs : effect[j] \cap {"host_shutdown", "host_reboot"} = {})
    => (before[current] => host.enabled /\ ~host.mode)

\* Who looks at a job again and again (job_change_state, KillJob) never sees it go back:
\* it is New, Running and ended, once, whatever replies are lost on the way.
JobsProceed == [][\A j \in Jobs : Proceeds(task[j], task'[j])]_vars
=============================================================================
