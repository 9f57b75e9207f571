------------------------------ MODULE CopyJobs ------------------------------
(***************************************************************************)
(* CopySystem of the virtual system management service and its job:        *)
(* a machine is copied, a template cloned and its disks provisioned        *)
(* (Xen_VirtualSystemManagementService.c, copy_vm_job).                    *)
(***************************************************************************)
EXTENDS JobWorker

VARIABLES
    template,       \* the source of each copy is a template
    is_a_template,  \* the local variable of that name
    result_vm,      \* the local variable result_vm is set
    copy            \* the machine each job has made: none, a bare clone without
                    \* disks of its own, or a whole one

copyVars == <<template, is_a_template, result_vm, copy>>

CopyInit ==
    /\ template = [j \in Jobs |-> FALSE]
    /\ is_a_template = FALSE /\ result_vm = FALSE
    /\ copy = [j \in Jobs |-> "none"]

CopySystem(j) ==
    /\ Submit(j, "copy")
    /\ \E t \in BOOLEAN : template' = [template EXCEPT ![j] = t]
    /\ UNCHANGED <<is_a_template, result_vm, copy>>

Makes(what) == copy' = [copy EXCEPT ![current] = what]

\* Is the source a template?  A read that fails leaves the variable false.  The
\* default SR is looked up on the same session.
ReadSource ==
    /\ pc = "copy"
    /\ \E c \in Calls(ok, faults) :
         /\ is_a_template' = (c /\ template[current])
         /\ ok' \in Calls(c, faults)
    /\ result_vm' = FALSE
    /\ Step("copy", IF is_a_template' THEN "clone" ELSE "full_copy")
    /\ UNCHANGED <<template, copy, rc>>

\* A clone that fails has no branch of its own: the job goes on without it.
CloneTemplate ==
    /\ pc = "clone"
    /\ \/ Performs /\ Makes("bare")
       \/ Fails /\ UNCHANGED copy
    /\ result_vm' = ok'
    /\ Step("clone", IF ok' THEN "new_record" ELSE "modify")
    /\ UNCHANGED <<template, is_a_template, rc>>

\* The disks to provision are read from the record of the clone, through a null
\* pointer when there is none.
GetNewRecord ==
    /\ pc = "new_record"
    /\ Reads
    /\ Step("new_record", IF ok' THEN "provision" ELSE "crashed")
    /\ UNCHANGED <<copyVars, rc>>

ProvisionDisks ==
    /\ pc = "provision"
    /\ \/ Performs /\ Makes("whole")
       \/ Fails /\ UNCHANGED copy
    /\ Step("provision", IF ok' THEN "modify" ELSE "report")
    /\ UNCHANGED <<template, is_a_template, result_vm, rc>>

FullCopy ==
    /\ pc = "full_copy"
    /\ \/ Performs /\ Makes("whole")
       \/ Fails /\ UNCHANGED copy
    /\ result_vm' = ok'
    /\ Step("full_copy", IF ok' THEN "modify" ELSE "report")
    /\ UNCHANGED <<template, is_a_template, rc>>

\* The settings and the reference to the new machine: no result is looked at.
ModifyCopy ==
    /\ pc = "modify"
    /\ Reads
    /\ rc' = "NoError"
    /\ Step("modify", "report")
    /\ UNCHANGED copyVars

\* Mutant: the removal is made to work, on a session that was put in order.
RemoveCopyOnError_Resets ==
    /\ pc = "cleanup"
    /\ \E c \in BOOLEAN :
         /\ ok' = c
         /\ IF ~ok /\ result_vm /\ c THEN Makes("none") ELSE UNCHANGED copy
    /\ Step("cleanup", "free")
    /\ UNCHANGED <<template, is_a_template, result_vm, rc>>

\* "Remove VM on error": asked for after the report, whose job_change_state has
\* cleared the error of the copy, and made on the session whose error is the
\* reason.
RemoveCopyOnError ==
    /\ pc = "cleanup"
    /\ \E c \in Calls(ok, faults) :
         /\ ok' = IF ~ok /\ result_vm THEN c ELSE ok
         /\ IF ~ok /\ result_vm /\ c THEN Makes("none") ELSE UNCHANGED copy
    /\ Step("cleanup", "free")
    /\ UNCHANGED <<template, is_a_template, result_vm, rc>>

CopyStep ==
    \/ ReadSource \/ CloneTemplate \/ GetNewRecord \/ ProvisionDisks \/ FullCopy
    \/ ModifyCopy \/ RemoveCopyOnError

CopyTypeOK ==
    /\ template \in [Jobs -> BOOLEAN]
    /\ is_a_template \in BOOLEAN /\ result_vm \in BOOLEAN
    /\ copy \in [Jobs -> {"none", "bare", "whole"}]
=============================================================================
