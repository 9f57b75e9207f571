---------------------------- MODULE ServiceJobs ----------------------------
(***************************************************************************)
(* The jobs of the virtual system management, migration, storage pool and  *)
(* snapshot services, on the one worker thread that serves them all.       *)
(***************************************************************************)
EXTENDS CopyJobs, MigrationJobs, TransferJobs

vars == <<workerVars, copyVars, migrationVars, transferVars>>

Init == WorkerInit /\ CopyInit /\ MigrationInit /\ TransferInit

ClientCall(j) ==
    \/ CopySystem(j) /\ UNCHANGED <<migrationVars, transferVars>>
    \/ MigrateVirtualSystem(j) /\ UNCHANGED <<copyVars, transferVars>>
    \/ /\ \E c \in {"connect", "start_export"} : Connect(j, c)
       /\ UNCHANGED <<copyVars, migrationVars>>
    \/ /\ \E t \in Jobs : Disconnect(j, t)
       /\ UNCHANGED <<copyVars, migrationVars>>

Worker ==
    \/ /\ TakeJob \/ Announce \/ Report \/ FreeJob
       /\ UNCHANGED <<copyVars, migrationVars, transferVars>>
    \/ CopyStep /\ UNCHANGED <<migrationVars, transferVars>>
    \/ MigrationStep /\ UNCHANGED <<copyVars, transferVars>>
    \/ TransferStep /\ UNCHANGED <<copyVars, migrationVars>>

Others ==
    \/ /\ \E j \in Jobs : KillJob(j)
       /\ UNCHANGED <<copyVars, migrationVars, transferVars>>
    \/ SetupChannel /\ UNCHANGED <<copyVars, transferVars>>
    \/ TimeOut /\ UNCHANGED <<copyVars, migrationVars>>

Next == (\E j \in Jobs : ClientCall(j)) \/ Worker \/ Others

Spec == Init /\ [][Next]_vars

\* The worker thread keeps running, and every call returns.
FairSpec == Spec /\ WF_vars(Worker)

-----------------------------------------------------------------------------
(* Properties                                                              *)

Kinds == {"copy", "migrate", "connect", "disconnect", "start_export", "end_export"}
PCs == Kinds \cup {"idle", "announce", "report", "cleanup", "free", "crashed",
                   "clone", "new_record", "provision", "full_copy", "modify",
                   "prepare", "pool_migrate", "migrated",
                   "get_record", "store_handle", "expose_forest", "forest_records",
                   "store_handles", "unexpose"}

\* Every variable stays in its range.
TypeOK ==
    /\ WorkerTypeOK /\ CopyTypeOK /\ MigrationTypeOK /\ TransferTypeOK
    /\ pc \in PCs /\ kind \in [Jobs -> Kinds \cup {"none"}]

Completed(j, callback) == kind[j] = callback /\ Is(task[j], "Completed")

\* Whatever fails, is lost or is killed, a Completed job did its work: the copy
\* of a machine is whole and is not removed in the end, a migration moved the
\* machine, what was disconnected is not exposed.
CompletedMeansDone ==
    \A j \in Jobs :
      /\ Completed(j, "copy") /\ ~template[j] => copy[j] = "whole"
      /\ Completed(j, "migrate") => j \in moved
      /\ Completed(j, "disconnect") => <<target[j], 1>> \notin exposed

\* Without faults the transfer machines that run are those whose handle a client
\* can find, but for a job that was killed or that the worker is at.
ExposedIsKnown ==
    ~faults => \A h \in exposed : h[1] \in known \/ task[h[1]] = Gone \/ h[1] = current

\* Without faults an export whose end was Completed has left no session behind,
\* and no transfer machine but those that come after one that had timed out: the
\* failure to stop that one kept the calls after it from being made, and a success
\* before it made the job a success.
EndLeavesNothing ==
    ~faults => \A j \in Jobs : Completed(j, "end_export") =>
                 /\ target[j] \notin open
                 /\ \A d \in 1..Disks : <<target[j], d>> \in exposed =>
                      \E e \in 2..(d - 1) : <<target[j], e>> \in lapsed

\* Without faults a migration that succeeds leaves the channel as it found it.
MigrationKeepsChannel ==
    ~faults /\ pc = "report" /\ kind[current] = "migrate" /\ rc = "NoError"
      => (kvpNeedsReenabling => "kvp_enabled" \in channel)

\* Without faults every job ends for its client, unless the process does.
EveryJobEnds ==
    \A j \in Jobs : ~faults /\ task[j] # Absent ~> Ended(task[j]) \/ pc = "crashed"

\* Who looks at a job again and again (job_change_state, KillJob) never sees it go back:
\* it is New, Running and ended, once, whatever replies are lost on the way.
JobsProceed == [][\A j \in Jobs : Proceeds(task[j], task'[j])]_vars
=============================================================================
