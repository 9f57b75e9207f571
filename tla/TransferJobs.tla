---------------------------- MODULE TransferJobs ----------------------------
(***************************************************************************)
(* The jobs that make disks available to the outside world through         *)
(* transfer machines, and take them back: ConnectToDiskImage and           *)
(* DisconnectFromDiskImage (Xen_StoragePoolManagementService.c),           *)
(* StartSnapshotForestExport and EndSnapshotForestExport                   *)
(* (Xen_VirtualSystemSnapshotService.c).                                   *)
(*                                                                         *)
(* A transfer machine is named by the handle that the plugin gives the job *)
(* and the job gives its client, in the other_config of its task.  An      *)
(* export also leaves a xapi session open, whose id goes with the handles. *)
(***************************************************************************)
EXTENDS JobWorker, Naturals

CONSTANT Disks      \* the number of disks in a snapshot forest

ASSUME TransferAssumption == Disks \in Nat \ {0}

VARIABLES
    exposed,    \* the transfer machines, <<job that started it, number>>
    open,       \* the exports whose session is logged in
    known,      \* the jobs whose task has their connection handle
    target,     \* the job whose handle was given to each job that takes back
    i,          \* the loop variable of the export jobs
    found,      \* the local variable disk_url_set has an element
    lapsed      \* history: the transfer machines that timed out

transferVars == <<exposed, open, known, target, i, found, lapsed>>

TransferInit ==
    /\ exposed = {} /\ open = {} /\ known = {} /\ lapsed = {}
    /\ target = [j \in Jobs |-> NoJob]
    /\ i = 1 /\ found = FALSE

Connect(j, callback) ==
    /\ callback \in {"connect", "start_export"}
    /\ Submit(j, callback)
    /\ UNCHANGED transferVars

\* A client has read the handle from the task of an earlier job.
Disconnect(j, t) ==
    /\ t \in known
    /\ Submit(j, IF kind[t] = "connect" THEN "disconnect" ELSE "end_export")
    /\ target' = [target EXCEPT ![j] = t]
    /\ UNCHANGED <<exposed, open, known, i, found, lapsed>>

\* "timeout for unexpose, if unexpose is not called within that time".
TimeOut ==
    /\ \E h \in exposed : exposed' = exposed \ {h} /\ lapsed' = lapsed \cup {h}
    /\ UNCHANGED <<workerVars, open, known, target, i, found>>

\* The plugin starts transfer machines.
Exposes(handles, from, then) ==
    /\ pc = from
    /\ \/ Performs /\ exposed' = exposed \cup handles
       \/ Fails /\ UNCHANGED exposed
    /\ Step(from, IF ok' THEN then ELSE "report")
    /\ UNCHANGED <<open, known, target, lapsed, rc>>

\* ... or stops one, if it is still there, and answers OK; else the call fails or
\* the answer is another.
Unexposes(h, isOK) ==
    \/ h \in exposed /\ Performs /\ exposed' = exposed \ {h} /\ isOK = ok'
    \/ /\ h \notin exposed \/ ~ok \/ faults
       /\ Fails \/ UNCHANGED ok
       /\ isOK = FALSE /\ UNCHANGED exposed

\* The handle is put into the task, if the task is there; what comes of it is
\* not looked at, and the job is a success.
StoresHandle ==
    /\ \/ task[current] \in Recorded /\ Performs /\ known' = known \cup {current}
       \/ /\ task[current] = Gone \/ ~ok \/ faults
          /\ Fails /\ UNCHANGED known
    /\ rc' = "NoError"

-----------------------------------------------------------------------------
(* _connect_task_callback and _disconnect_task_callback                    *)

Expose == Exposes({<<current, 1>>}, "connect", "get_record") /\ UNCHANGED <<i, found>>

GetTransferRecord ==
    /\ pc = "get_record"
    /\ Reads
    /\ Step("get_record", IF ok' THEN "store_handle" ELSE "report")
    /\ UNCHANGED <<transferVars, rc>>

\* Mutant: the handle is left out of the task.
StoreHandle_Missing ==
    /\ pc = "store_handle"
    /\ rc' = "NoError"
    /\ Step("store_handle", "report")
    /\ UNCHANGED <<transferVars, ok>>

StoreHandle ==
    /\ pc = "store_handle"
    /\ StoresHandle
    /\ Step("store_handle", "report")
    /\ UNCHANGED <<exposed, open, target, i, found, lapsed>>

Unexpose ==
    /\ pc = "disconnect"
    /\ \E isOK \in BOOLEAN :
         /\ Unexposes(<<target[current], 1>>, isOK)
         /\ rc' = IF isOK THEN "NoError" ELSE "Failed"
    /\ Step("disconnect", "report")
    /\ UNCHANGED <<open, known, target, i, found, lapsed>>

(* _start_snapshot_forest_export_task                                      *)

\* _get_metadata_url_for_vm: a login that fails is passed over.  The address of
\* the host is asked on the job's own session, and if there is none its length
\* is taken of a null pointer.
OpenExportSession ==
    /\ pc = "start_export"
    /\ \/ /\ faults
          /\ Step("start_export", "expose_forest")
          /\ UNCHANGED <<open, ok>>
       \/ /\ Reads
          /\ open' = open \cup {current}
          /\ Step("start_export", IF ok' THEN "expose_forest" ELSE "crashed")
    /\ i' = 1 /\ found' = FALSE
    /\ UNCHANGED <<exposed, known, target, lapsed, rc>>

ExposeForest ==
    /\ Exposes({<<current, d>> : d \in 1..Disks}, "expose_forest", "forest_records")
    /\ UNCHANGED <<i, found>>

\* One record after the other; one is enough to go on.
GetForestRecord ==
    /\ pc = "forest_records"
    /\ Reads
    /\ found' = (found \/ ok')
    /\ i' = i + 1
    /\ Step("forest_records", IF i < Disks THEN "forest_records"
                              ELSE IF found' THEN "store_handles" ELSE "report")
    /\ UNCHANGED <<exposed, open, known, target, lapsed, rc>>

\* The id of the session goes in front of the handles, whether there is one or
\* not: the length of a null pointer again.
StoreHandles ==
    /\ pc = "store_handles"
    /\ \/ /\ current \in open
          /\ StoresHandle
          /\ Step("store_handles", "report")
       \/ /\ current \notin open
          /\ Step("store_handles", "crashed")
          /\ UNCHANGED <<known, ok, rc>>
    /\ UNCHANGED <<exposed, open, target, i, found, lapsed>>

(* _end_snapshot_forest_export_task                                        *)

\* The session is logged out on a session object of its own, in order even if
\* the one of the job is not.
Logout ==
    /\ pc = "end_export"
    /\ \/ open' = open \ {target[current]}
       \/ faults /\ UNCHANGED open
    /\ i' = 1
    /\ Step("end_export", "unexpose")
    /\ UNCHANGED <<exposed, known, target, found, lapsed, ok, rc>>

\* Mutant: the first success ends the loop.
UnexposeNext_Breaks ==
    /\ pc = "unexpose"
    /\ \E isOK \in BOOLEAN :
         /\ Unexposes(<<target[current], i>>, isOK)
         /\ rc' = IF isOK THEN "NoError" ELSE rc
         /\ Step("unexpose", IF i < Disks /\ ~isOK THEN "unexpose" ELSE "report")
    /\ i' = i + 1
    /\ UNCHANGED <<open, known, target, found, lapsed>>

\* One after the other, on a session that a failure leaves in error; one success
\* is enough for a success.
UnexposeNext ==
    /\ pc = "unexpose"
    /\ \E isOK \in BOOLEAN :
         /\ Unexposes(<<target[current], i>>, isOK)
         /\ rc' = IF isOK THEN "NoError" ELSE rc
    /\ i' = i + 1
    /\ Step("unexpose", IF i < Disks THEN "unexpose" ELSE "report")
    /\ UNCHANGED <<open, known, target, found, lapsed>>

TransferStep ==
    \/ Expose \/ GetTransferRecord \/ StoreHandle \/ Unexpose
    \/ OpenExportSession \/ ExposeForest \/ GetForestRecord \/ StoreHandles
    \/ Logout \/ UnexposeNext

TransferTypeOK ==
    /\ exposed \subseteq Jobs \X (1..Disks) /\ lapsed \subseteq Jobs \X (1..Disks)
    /\ open \subseteq Jobs /\ known \subseteq Jobs
    /\ target \in [Jobs -> Jobs \cup {NoJob}]
    /\ i \in 1..(Disks + 1) /\ found \in BOOLEAN
=============================================================================
