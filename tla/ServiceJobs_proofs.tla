------------------------- MODULE ServiceJobs_proofs -------------------------
(***************************************************************************)
(* Theorems about the jobs of the services, for any number of jobs and of  *)
(* disks in an export, and whatever fails, is killed or times out.         *)
(***************************************************************************)
EXTENDS ServiceJobs, TLAPS

\* A job that waits or is served has a task and a callback, and waits or is served
\* once; the worker has a job unless it is idle.
Queued ==
    /\ \A n \in DOMAIN pending :
         /\ task[pending[n]] # Absent /\ kind[pending[n]] \in Kinds
         /\ pending[n] # current
    /\ \A m, n \in DOMAIN pending : pending[m] = pending[n] => m = n
    /\ pc # "idle" => current \in Jobs /\ task[current] # Absent /\ kind[current] \in Kinds

\* The places of each callback are for its own jobs, with the loop variable in its
\* range.
Places ==
    /\ pc \in {"copy", "clone", "new_record", "provision", "full_copy", "modify", "cleanup"}
         => kind[current] = "copy"
    /\ pc \in {"migrate", "prepare", "pool_migrate", "migrated"} => kind[current] = "migrate"
    /\ pc \in {"connect", "get_record", "store_handle"} => kind[current] = "connect"
    /\ pc = "disconnect" => kind[current] = "disconnect"
    /\ pc \in {"start_export", "expose_forest", "forest_records", "store_handles"}
         => kind[current] = "start_export"
    /\ pc \in {"end_export", "unexpose"} => kind[current] = "end_export"
    /\ pc = "expose_forest" => i = 1
    /\ pc \in {"forest_records", "unexpose"} => i <= Disks

\* The places of a job that exposes something, before its client has the handle.
Exposing == {"announce", "connect", "get_record", "store_handle",
             "start_export", "expose_forest", "forest_records", "store_handles"}

\* Whose handle is known, and given back: a job that exposes, and has done so.
Handles ==
    /\ \A t \in known : task[t] # Absent /\ kind[t] \in {"connect", "start_export"}
    /\ \A n \in DOMAIN pending : pending[n] \notin known
    /\ pc \in Exposing => current \notin known
    /\ \A j \in Jobs :
         /\ kind[j] = "disconnect" => target[j] \in known /\ kind[target[j]] = "connect"
         /\ kind[j] = "end_export" => target[j] \in known /\ kind[target[j]] = "start_export"

Shape == TypeOK /\ Queued /\ Places /\ Handles

\* What the locals of a callback say about the copy it makes ...
CopyProgress ==
    /\ pc \in {"announce", "copy", "full_copy"} => rc = "Failed"
    /\ pc \in {"clone", "new_record", "provision"} => template[current]
    /\ pc = "modify" /\ ~template[current] => copy[current] = "whole"
    /\ pc = "report" /\ kind[current] = "copy" /\ rc = "NoError" /\ ~template[current]
         => copy[current] = "whole"

\* ... about the machine it moves and the channel it puts back ...
MigrationProgress ==
    /\ pc = "migrated" /\ ~error => current \in moved
    /\ pc = "report" /\ kind[current] = "migrate" /\ rc = "NoError" => current \in moved

\* ... and about the transfer machine it stops.
DisconnectProgress ==
    pc = "report" /\ kind[current] = "disconnect" /\ rc = "NoError"
      => <<target[current], 1>> \notin exposed

WorkDone == CopyProgress /\ MigrationProgress /\ DisconnectProgress /\ CompletedMeansDone

\* Without faults the session of a job that has exposed something is in order until
\* the handle is stored, and only the job at work has handles to store.
Shown ==
    ~faults =>
      /\ pc \in {"get_record", "store_handle", "forest_records", "store_handles"} => ok
      /\ \A h \in exposed :
           \/ h[1] \in known \/ task[h[1]] = Gone
           \/ /\ h[1] = current
              /\ pc \in {"get_record", "store_handle", "forest_records", "store_handles", "crashed"}

\* A transfer machine that neither runs nor timed out was stopped.
Stopped(t, d) == <<t, d>> \notin exposed \cup lapsed

\* Without faults the machines of an export are stopped in their order.
InOrder ==
    /\ \A t \in known : kind[t] = "start_export" =>
         \A d \in 1..Disks : Stopped(t, d) => \A e \in 1..d : <<t, e>> \notin exposed
    /\ pc \in {"forest_records", "store_handles"} => \A d \in 1..Disks : ~Stopped(current, d)

\* One of the machines of export t up to n, but not the first, has timed out, and
\* those before it are gone as well.
Lapsed(t, n) ==
    \E e \in 2..n : <<t, e>> \in lapsed /\ \A d \in 1..e : <<t, d>> \notin exposed

\* What an end of export t that succeeded in part has left.
Left(t) == Lapsed(t, Disks) \/ \A d \in 1..Disks : <<t, d>> \notin exposed

\* The job that ends an export: the session of the export is closed first; while its
\* own is in order every machine it has come to is gone; a success has come before
\* the failure, and what was still to be stopped then has timed out since.
Ending ==
    LET t == target[current]
    IN  /\ pc \in {"announce", "end_export"} => rc = "Failed"
        /\ pc = "unexpose" => t \notin open
        /\ pc = "unexpose" /\ ok => \A d \in 1..(i - 1) : <<t, d>> \notin exposed
        /\ pc = "unexpose" /\ ok /\ rc = "NoError" =>
             /\ i > 1
             /\ \A d \in i..Disks : ~Stopped(t, d)
        /\ pc = "unexpose" /\ ~ok /\ rc = "NoError" => Lapsed(t, i - 1)
        /\ pc = "report" /\ kind[current] = "end_export" /\ rc = "NoError" =>
             t \notin open /\ Left(t)

Exports == ~faults => InOrder /\ Ending

-----------------------------------------------------------------------------
(* Tasks                                                                   *)

\* A task that has a record is neither absent nor gone.
LEMMA RecordedHere == \A t \in Recorded : t # Absent /\ t # Gone /\ t \in Tasks
  BY JobTaskAssumption DEF Tasks

\* The record of a known state is a record.
LEMMA RecordOf == \A st \in States, err \in BOOLEAN : [state |-> st, error |-> err] \in Recorded
  BY DEF Recorded

\* What job_change_state returns: the task keeps its value, which it does for good
\* once it is gone, or has the new one.
LEMMA ChangeStateResult ==
  ASSUME NEW t \in Tasks, t # Absent, NEW st \in States, NEW err \in BOOLEAN,
         NEW f \in BOOLEAN, NEW o \in ChangeState(t, st, err, f)
  PROVE  /\ o.ok \in BOOLEAN /\ o.task \in Tasks /\ o.task # Absent
         /\ t = Gone => o.task = Gone
         /\ o.task = t \/ o.task = [state |-> st, error |-> err]
<1>1. /\ o.task = t \/ o.task = [state |-> st, error |-> err]
      /\ o.ok \in BOOLEAN
      /\ t = Gone => o.task = Gone
  <2>. DEFINE w(k) == [ok |-> k, task |-> [state |-> st, error |-> err]]
  <2>1. \/ t # Gone /\ (o = w(TRUE) \/ o = w(FALSE))
        \/ o = [ok |-> FALSE, task |-> t]
    BY DEF ChangeState, Written
  <2>2. \A k \in BOOLEAN : w(k).ok = k /\ w(k).task = [state |-> st, error |-> err]
    OBVIOUS
  <2>3. CASE o = [ok |-> FALSE, task |-> t]
    BY <2>3
  <2>. HIDE DEF w
  <2>. QED  BY <2>1, <2>2, <2>3
<1>2. [state |-> st, error |-> err] \in Recorded
  BY RecordOf
<1>. QED  BY <1>1, <1>2, RecordedHere

\* The record a new task gets.
LEMMA NewTaskResult ==
  NewTask \in Tasks /\ NewTask # Absent /\ NewTask # Gone /\ ~Is(NewTask, "Completed")
<1>1. NewTask \in Recorded
  BY RecordOf DEF NewTask, States
<1>. QED  BY <1>1, RecordedHere DEF NewTask, Is

\* What the worker may make of the task of its job: of a task that is gone nothing,
\* and only a report of success makes it Completed.
Becomes(t) ==
    /\ t \in Tasks /\ t # Absent
    /\ task' = [task EXCEPT ![current] = t]
    /\ task[current] = Gone => t = Gone
    /\ Is(t, "Completed") => t = task[current] \/ (pc = "report" /\ rc = "NoError")

\* The two steps of the worker that write the task.
LEMMA WorkerWrites ==
  ASSUME Shape, Announce \/ Report
  PROVE  ok' \in BOOLEAN /\ \E t \in Tasks : Becomes(t)
<1>. USE DEF Shape, TypeOK, WorkerTypeOK
<1>1. task[current] \in Tasks /\ task[current] # Absent
  BY DEF Queued, Announce, Report
<1>2. CASE Announce
  <2>1. PICK o \in ChangeState(task[current], "Running", FALSE, faults) :
          ok' = o.ok /\ task' = [task EXCEPT ![current] = o.task]
    BY <1>2 DEF Announce
  <2>2. /\ o.ok \in BOOLEAN /\ o.task \in Tasks /\ o.task # Absent
        /\ task[current] = Gone => o.task = Gone
        /\ o.task = task[current] \/ o.task = [state |-> "Running", error |-> FALSE]
    BY <1>1, ChangeStateResult DEF States
  <2>. QED  BY <2>1, <2>2 DEF Is, Becomes
<1>3. CASE Report /\ rc = "NoError"
  <2>1. /\ (IF rc = "NoError" THEN "Completed" ELSE "Exception") = "Completed"
        /\ (rc # "NoError") = FALSE
    BY <1>3
  <2>2. PICK o \in ChangeState(task[current], "Completed", FALSE, faults) :
          ok' = o.ok /\ task' = [task EXCEPT ![current] = o.task]
    BY <1>3, <2>1 DEF Report
  <2>3. /\ o.ok \in BOOLEAN /\ o.task \in Tasks /\ o.task # Absent
        /\ task[current] = Gone => o.task = Gone
        /\ o.task = task[current] \/ o.task = [state |-> "Completed", error |-> FALSE]
    BY <1>1, ChangeStateResult DEF States
  <2>. QED  BY <1>3, <2>2, <2>3 DEF Becomes, Report
<1>4. CASE Report /\ rc # "NoError"
  <2>1. /\ (IF rc = "NoError" THEN "Completed" ELSE "Exception") = "Exception"
        /\ (rc # "NoError") = TRUE
    BY <1>4
  <2>2. PICK o \in ChangeState(task[current], "Exception", TRUE, faults) :
          ok' = o.ok /\ task' = [task EXCEPT ![current] = o.task]
    BY <1>4, <2>1 DEF Report
  <2>3. /\ o.ok \in BOOLEAN /\ o.task \in Tasks /\ o.task # Absent
        /\ task[current] = Gone => o.task = Gone
        /\ o.task = task[current] \/ o.task = [state |-> "Exception", error |-> TRUE]
    BY <1>1, ChangeStateResult DEF States
  <2>. QED  BY <2>2, <2>3 DEF Is, Becomes
<1>. QED  BY <1>2, <1>3, <1>4

-----------------------------------------------------------------------------
(* The shape of the state                                                  *)

\* It holds in the initial state.
LEMMA InitShape == Init => Shape
<1>. SUFFICES ASSUME Init PROVE Shape
  OBVIOUS
<1>. USE DEF Init, WorkerInit, Service!Init, CopyInit, MigrationInit, TransferInit
<1>1. pending \in Seq(Jobs) /\ DOMAIN pending = {}
  OBVIOUS
<1>2. WorkerTypeOK /\ kind \in [Jobs -> Kinds \cup {"none"}] /\ pc \in PCs
  BY <1>1, JobTaskAssumption DEF WorkerTypeOK, Tasks, PCs
<1>3. CopyTypeOK /\ MigrationTypeOK
  BY DEF CopyTypeOK, MigrationTypeOK, Keys
<1>4. TransferTypeOK
  <2>1. 1 \in 1..(Disks + 1)
    BY TransferAssumption
  <2>2. target \in [Jobs -> Jobs \cup {NoJob}]
    OBVIOUS
  <2>. QED  BY <2>1, <2>2 DEF TransferTypeOK
<1>5. Queued /\ Places /\ Handles
  BY <1>1 DEF Queued, Places, Handles, Exposing
<1>. QED  BY <1>2, <1>3, <1>4, <1>5 DEF Shape, TypeOK

\* A method that starts a job adds one that was not there.
LEMMA SubmitStep ==
  ASSUME Shape, NEW j \in Jobs, NEW c \in Kinds, Submit(j, c)
  PROVE  /\ WorkerTypeOK' /\ kind' \in [Jobs -> Kinds \cup {"none"}] /\ pc' = pc
         /\ Queued'
         /\ j # current /\ j \notin known
         /\ \A n \in DOMAIN pending' : pending'[n] = j \/ \E m \in DOMAIN pending :
                                                             pending'[n] = pending[m]
<1>. USE DEF Shape, TypeOK, WorkerTypeOK, Submit, Service!Accept
<1>1. /\ pending' \in Seq(Jobs) /\ Len(pending') = Len(pending) + 1
      /\ \A n \in DOMAIN pending' :
           \/ pending'[n] = j /\ n = Len(pending')
           \/ n \in DOMAIN pending /\ pending'[n] = pending[n]
  OBVIOUS
<1>2. \A n \in DOMAIN pending : pending[n] \in Jobs /\ pending[n] # j
  BY DEF Queued
<1>3. j # current /\ j \notin known
  BY JobTaskAssumption DEF Service!Waiting, Handles
<1>4. WorkerTypeOK' /\ kind' \in [Jobs -> Kinds \cup {"none"}] /\ pc' = pc
  BY <1>1, NewTaskResult
<1>5. Queued'
  BY <1>1, <1>2, <1>3, NewTaskResult DEF Queued
<1>. QED  BY <1>1, <1>3, <1>4, <1>5

\* The worker stays where it is, and the handles are of jobs that were there.
LEMMA SubmitPlaces ==
  ASSUME Shape, NEW j \in Jobs, NEW c \in Kinds, Submit(j, c), UNCHANGED i
  PROVE  Places'
  BY SubmitStep DEF Shape, TypeOK, Places, Submit, Service!Accept

\* A job that is submitted exposes nothing yet, and names no handle.
LEMMA SubmitHandles ==
  ASSUME Shape, NEW j \in Jobs, NEW c \in Kinds \ {"disconnect", "end_export"}, Submit(j, c),
         UNCHANGED <<known, target>>
  PROVE  Handles'
<1>. USE DEF Shape, TypeOK, Submit, Service!Accept
<1>1. j \notin known /\ known \subseteq Jobs
  BY SubmitStep DEF TransferTypeOK
<1>2. /\ \A t \in known' : task'[t] # Absent /\ kind'[t] \in {"connect", "start_export"}
      /\ \A n \in DOMAIN pending' : pending'[n] \notin known'
  BY <1>1, SubmitStep, NewTaskResult DEF Handles, WorkerTypeOK
<1>3. pc' \in Exposing => current' \notin known'
  BY DEF Handles
<1>4. \A k \in Jobs :
        /\ kind'[k] = "disconnect" => target'[k] \in known' /\ kind'[target'[k]] = "connect"
        /\ kind'[k] = "end_export" => target'[k] \in known' /\ kind'[target'[k]] = "start_export"
  BY <1>1 DEF Handles
<1>. QED  BY <1>2, <1>3, <1>4 DEF Handles

\* A call of a client preserves it.
LEMMA ClientShape == ASSUME Shape, NEW j \in Jobs, ClientCall(j) PROVE Shape'
<1>. USE DEF Shape, TypeOK
<1>1. CASE CopySystem(j) /\ UNCHANGED <<migrationVars, transferVars>>
  <2>. USE <1>1 DEF CopySystem, migrationVars, transferVars
  <2>1. Submit(j, "copy") /\ "copy" \in Kinds
    BY DEF Kinds
  <2>2. WorkerTypeOK' /\ kind' \in [Jobs -> Kinds \cup {"none"}] /\ pc' = pc /\ Queued'
    BY <2>1, SubmitStep
  <2>3. CopyTypeOK' /\ MigrationTypeOK' /\ TransferTypeOK'
    BY DEF CopyTypeOK, MigrationTypeOK, TransferTypeOK
  <2>4. Places' /\ Handles'
    BY <2>1, SubmitPlaces, SubmitHandles
  <2>. QED  BY <2>2, <2>3, <2>4
<1>2. CASE MigrateVirtualSystem(j) /\ UNCHANGED <<copyVars, transferVars>>
  <2>. USE <1>2 DEF MigrateVirtualSystem, migrationVars, copyVars, transferVars
  <2>1. Submit(j, "migrate") /\ "migrate" \in Kinds
    BY DEF Kinds
  <2>2. WorkerTypeOK' /\ kind' \in [Jobs -> Kinds \cup {"none"}] /\ pc' = pc /\ Queued'
    BY <2>1, SubmitStep
  <2>3. CopyTypeOK' /\ MigrationTypeOK' /\ TransferTypeOK'
    BY DEF CopyTypeOK, MigrationTypeOK, TransferTypeOK
  <2>4. Places' /\ Handles'
    BY <2>1, SubmitPlaces, SubmitHandles
  <2>. QED  BY <2>2, <2>3, <2>4
<1>3. CASE /\ \E c \in {"connect", "start_export"} : Connect(j, c)
           /\ UNCHANGED <<copyVars, migrationVars>>
  <2>1. PICK c \in {"connect", "start_export"} : Connect(j, c)
    BY <1>3
  <2>. USE <1>3, <2>1 DEF Connect, migrationVars, copyVars, transferVars
  <2>2. Submit(j, c) /\ c \in Kinds
    BY DEF Kinds
  <2>3. WorkerTypeOK' /\ kind' \in [Jobs -> Kinds \cup {"none"}] /\ pc' = pc /\ Queued'
    BY <2>2, SubmitStep
  <2>4. CopyTypeOK' /\ MigrationTypeOK' /\ TransferTypeOK'
    BY DEF CopyTypeOK, MigrationTypeOK, TransferTypeOK
  <2>5. Places' /\ Handles'
    BY <2>2, SubmitPlaces, SubmitHandles
  <2>. QED  BY <2>3, <2>4, <2>5
<1>4. CASE /\ \E t \in Jobs : Disconnect(j, t)
           /\ UNCHANGED <<copyVars, migrationVars>>
  <2>1. PICK t \in Jobs : Disconnect(j, t)
    BY <1>4
  <2>. DEFINE c == IF kind[t] = "connect" THEN "disconnect" ELSE "end_export"
  <2>. USE <1>4 DEF migrationVars, copyVars
  <2>2. Submit(j, c) /\ c \in Kinds
    BY <2>1 DEF Kinds, Disconnect
  <2>3. WorkerTypeOK' /\ kind' \in [Jobs -> Kinds \cup {"none"}] /\ pc' = pc /\ Queued'
    BY <2>2, SubmitStep
  <2>4. CopyTypeOK' /\ MigrationTypeOK' /\ TransferTypeOK'
    BY <2>1 DEF CopyTypeOK, MigrationTypeOK, TransferTypeOK, Disconnect
  <2>5. Places'
    BY <2>1, <2>2, SubmitPlaces DEF Disconnect
  <2>6. Handles'
    <3>. USE <2>1 DEF Disconnect
    <3>1. t \in known /\ kind[t] \in {"connect", "start_export"} /\ j \notin known
      BY <2>2, SubmitStep DEF Handles
    <3>2. /\ \A k \in known' : task'[k] # Absent /\ kind'[k] \in {"connect", "start_export"}
          /\ \A n \in DOMAIN pending' : pending'[n] \notin known'
      BY <2>2, <3>1, SubmitStep, NewTaskResult
         DEF Handles, Submit, Service!Accept, WorkerTypeOK, TransferTypeOK
    <3>3. pc' \in Exposing => current' \notin known'
      BY DEF Handles, Submit, Service!Accept
    <3>4. ASSUME NEW k \in Jobs
          PROVE  /\ kind'[k] = "disconnect" =>
                      target'[k] \in known' /\ kind'[target'[k]] = "connect"
                 /\ kind'[k] = "end_export" =>
                      target'[k] \in known' /\ kind'[target'[k]] = "start_export"
      <4>1. CASE k = j
        BY <4>1, <3>1, <2>2 DEF Submit, TransferTypeOK
      <4>2. CASE k # j
        BY <4>2, <3>1, <2>2 DEF Handles, Submit, TransferTypeOK
      <4>. QED  BY <4>1, <4>2
    <3>. QED  BY <3>2, <3>3, <3>4 DEF Handles
  <2>. QED  BY <2>3, <2>4, <2>5, <2>6
<1>. QED  BY <1>1, <1>2, <1>3, <1>4 DEF ClientCall

\* Taking a job and freeing it preserve it.
LEMMA QueueShape ==
  ASSUME Shape, TakeJob \/ FreeJob, UNCHANGED <<copyVars, migrationVars, transferVars>>
  PROVE  Shape'
<1>. USE DEF Shape, TypeOK, copyVars, migrationVars, transferVars
<1>1. CopyTypeOK' /\ MigrationTypeOK' /\ TransferTypeOK'
  BY DEF CopyTypeOK, MigrationTypeOK, TransferTypeOK
<1>2. CASE TakeJob
  <2>. USE <1>2 DEF TakeJob, Service!Take
  <2>1. /\ pending # <<>> /\ current' = pending[1] /\ 1 \in DOMAIN pending
        /\ current' \in Jobs /\ pending' \in Seq(Jobs)
        /\ \A n \in DOMAIN pending' : n + 1 \in DOMAIN pending /\ pending'[n] = pending[n + 1]
        /\ \A n \in DOMAIN pending' : n \in Nat
    BY DEF WorkerTypeOK
  <2>2. \A n \in DOMAIN pending' : n + 1 # 1
    BY <2>1
  <2>3. WorkerTypeOK' /\ pc' \in PCs /\ kind' \in [Jobs -> Kinds \cup {"none"}]
    BY <2>1 DEF WorkerTypeOK, PCs
  <2>4. Queued'
    BY <2>1, <2>2 DEF Queued
  <2>5. Places'
    BY DEF Places
  <2>6. Handles'
    BY <2>1 DEF Handles, Exposing
  <2>. QED  BY <1>1, <2>3, <2>4, <2>5, <2>6
<1>3. CASE FreeJob
  <2>. USE <1>3 DEF FreeJob, Service!Finish
  <2>1. WorkerTypeOK' /\ pc' \in PCs /\ kind' \in [Jobs -> Kinds \cup {"none"}]
    BY DEF WorkerTypeOK, PCs, Queued
  <2>2. Queued'
    BY JobWorkerAssumption DEF Queued, WorkerTypeOK
  <2>3. Places' /\ Handles'
    BY DEF Places, Handles, Exposing
  <2>. QED  BY <1>1, <2>1, <2>2, <2>3
<1>. QED  BY <1>2, <1>3

\* Writing the task does.
LEMMA WriteShape ==
  ASSUME Shape, Announce \/ Report, UNCHANGED <<copyVars, migrationVars, transferVars>>
  PROVE  Shape'
<1>. USE DEF Shape, TypeOK, copyVars, migrationVars, transferVars
<1>1. CopyTypeOK' /\ MigrationTypeOK' /\ TransferTypeOK'
  BY DEF CopyTypeOK, MigrationTypeOK, TransferTypeOK
<1>2. ok' \in BOOLEAN
  BY WorkerWrites
<1>3. PICK t \in Tasks : Becomes(t)
  BY WorkerWrites
<1>4. /\ current \in Jobs /\ kind[current] \in Kinds
      /\ UNCHANGED <<pending, current, served, kind, faults, rc>>
      /\ \/ pc = "announce" /\ pc' = kind[current]
         \/ pc = "report" /\ pc' = IF kind[current] = "copy" THEN "cleanup" ELSE "free"
  BY DEF Announce, Report, Queued
<1>5. WorkerTypeOK' /\ pc' \in PCs /\ kind' \in [Jobs -> Kinds \cup {"none"}]
  BY <1>2, <1>3, <1>4 DEF WorkerTypeOK, PCs, Becomes
<1>6. Queued'
  BY <1>3, <1>4 DEF Queued, Becomes, WorkerTypeOK
<1>7. Places'
  BY <1>4 DEF Places, Kinds
<1>8. Handles'
  <2>1. \A k \in Jobs : task[k] # Absent => task'[k] # Absent
    BY <1>3, <1>4 DEF Becomes, WorkerTypeOK
  <2>2. pc' \in Exposing => current' \notin known'
    BY <1>4 DEF Handles, Exposing, Kinds
  <2>. QED  BY <1>4, <2>1, <2>2 DEF Handles, TransferTypeOK
<1>. QED  BY <1>1, <1>5, <1>6, <1>7, <1>8

\* A callback of the services leaves the job service and the tasks alone.
LEMMA StepKeeps ==
  ASSUME Shape, UNCHANGED jobs, pc # "idle", pc' \notin {"idle", "announce"},
         pc' \in PCs, ok' \in BOOLEAN, rc' \in {"Failed", "NoError"}
  PROVE  /\ WorkerTypeOK' /\ kind' \in [Jobs -> Kinds \cup {"none"}]
         /\ Queued'
  BY DEF Shape, TypeOK, WorkerTypeOK, jobs, Queued

\* The calls of a session return a flag.
LEMMA CallsBoolean == \A c, f \in BOOLEAN : Calls(c, f) \subseteq BOOLEAN
  BY DEF Calls

\* The copy job preserves the shape.
LEMMA CopyShape ==
  ASSUME Shape, CopyStep, UNCHANGED <<migrationVars, transferVars>>
  PROVE  Shape'
<1>. USE DEF Shape, TypeOK, migrationVars, transferVars, jobs
<1>1. MigrationTypeOK' /\ TransferTypeOK'
  BY DEF MigrationTypeOK, TransferTypeOK
<1>2. /\ UNCHANGED jobs /\ pc # "idle" /\ pc' \in PCs \ {"idle", "announce"}
      /\ pc \in {"copy", "clone", "new_record", "provision", "full_copy", "modify", "cleanup"}
      /\ pc' \in {"clone", "new_record", "provision", "full_copy", "modify", "report",
                  "crashed", "free"}
  BY DEF CopyStep, ReadSource, CloneTemplate, GetNewRecord, ProvisionDisks, FullCopy,
         ModifyCopy, RemoveCopyOnError, Step, PCs
<1>3. ok' \in BOOLEAN /\ rc' \in {"Failed", "NoError"}
  BY CallsBoolean DEF WorkerTypeOK, CopyStep, ReadSource, CloneTemplate, GetNewRecord,
         ProvisionDisks, FullCopy, ModifyCopy, RemoveCopyOnError, Reads, Performs, Fails
<1>4. CopyTypeOK'
  <2>. USE DEF CopyTypeOK, copyVars
  <2>1. CASE ReadSource
    BY <2>1, CallsBoolean DEF ReadSource, WorkerTypeOK
  <2>2. CASE CloneTemplate
    BY <2>2, <1>3 DEF CloneTemplate, Makes
  <2>3. CASE GetNewRecord \/ ModifyCopy
    BY <2>3 DEF GetNewRecord, ModifyCopy
  <2>4. CASE ProvisionDisks
    BY <2>4 DEF ProvisionDisks, Makes
  <2>5. CASE FullCopy
    BY <2>5, <1>3 DEF FullCopy, Makes
  <2>6. CASE RemoveCopyOnError
    BY <2>6 DEF RemoveCopyOnError, Makes
  <2>. QED  BY <2>1, <2>2, <2>3, <2>4, <2>5, <2>6 DEF CopyStep
<1>5. WorkerTypeOK' /\ kind' \in [Jobs -> Kinds \cup {"none"}] /\ Queued'
  BY <1>2, <1>3, StepKeeps
<1>6. Places'
  BY <1>2 DEF Places
<1>7. Handles'
  BY <1>2 DEF Handles, Exposing
<1>. QED  BY <1>1, <1>2, <1>4, <1>5, <1>6, <1>7

\* What is done to the channel has the keys and the answer it was made with.
LEMMA AnswerOf == \A keys, answer : /\ Done(keys, answer).keys = keys
                                     /\ Done(keys, answer).answer = answer
  BY DEF Done

\* The migration job does.
LEMMA MigrationShape ==
  ASSUME Shape, MigrationStep, UNCHANGED <<copyVars, transferVars>>
  PROVE  Shape'
<1>. USE DEF Shape, TypeOK, copyVars, transferVars, jobs
<1>1. CopyTypeOK' /\ TransferTypeOK'
  BY DEF CopyTypeOK, TransferTypeOK
<1>2. /\ UNCHANGED jobs /\ pc # "idle" /\ pc' \in PCs \ {"idle", "announce"}
      /\ pc \in {"migrate", "prepare", "pool_migrate", "migrated"}
      /\ pc' \in {"prepare", "pool_migrate", "migrated", "report"}
  BY DEF MigrationStep, ReadChannel, PrepareChannel, PoolMigrate, FinishChannel, Step, PCs
<1>3. ok' \in BOOLEAN /\ rc' \in {"Failed", "NoError"}
  BY CallsBoolean DEF WorkerTypeOK, MigrationStep, ReadChannel, PrepareChannel, PoolMigrate,
         FinishChannel, Reads, Performs, Fails, Command
<1>4. MigrationTypeOK'
  <2>. USE DEF MigrationTypeOK
  <2>1. CASE ReadChannel
    BY <2>1, <1>3 DEF ReadChannel
  <2>2. CASE PrepareChannel
    <3>1. \A d \in PrepareMigration : \E keys \in SUBSET Keys, answer \in BOOLEAN :
            d = Done(keys, answer)
      BY DEF PrepareMigration, Keys
    <3>2. \A d \in PrepareMigration : d.keys \subseteq Keys
      BY <3>1, AnswerOf
    <3>. QED  BY <2>2, <3>2 DEF PrepareChannel, Command
  <2>3. CASE PoolMigrate
    BY <2>3, <1>3 DEF PoolMigrate, Queued
  <2>4. CASE FinishChannel
    <3>1. \A d \in FinishMigration : \E keys \in SUBSET Keys, answer \in BOOLEAN :
            d = Done(keys, answer)
      BY DEF FinishMigration, Keys
    <3>2. \A d \in FinishMigration : d.keys \subseteq Keys
      BY <3>1, AnswerOf
    <3>. QED  BY <2>4, <3>2 DEF FinishChannel, Command
  <2>. QED  BY <2>1, <2>2, <2>3, <2>4 DEF MigrationStep
<1>5. WorkerTypeOK' /\ kind' \in [Jobs -> Kinds \cup {"none"}] /\ Queued'
  BY <1>2, <1>3, StepKeeps
<1>6. Places'
  BY <1>2 DEF Places
<1>7. Handles'
  BY <1>2 DEF Handles, Exposing
<1>. QED  BY <1>1, <1>2, <1>4, <1>5, <1>6, <1>7

\* The jobs about transfer machines do.
LEMMA TransferShape ==
  ASSUME Shape, TransferStep, UNCHANGED <<copyVars, migrationVars>>
  PROVE  Shape'
<1>. USE DEF Shape, TypeOK, copyVars, migrationVars, jobs
<1>1. CopyTypeOK' /\ MigrationTypeOK'
  BY DEF CopyTypeOK, MigrationTypeOK
<1>2. /\ UNCHANGED jobs /\ pc # "idle" /\ pc' \in PCs \ {"idle", "announce"}
      /\ pc \in {"connect", "get_record", "store_handle", "disconnect", "start_export",
                 "expose_forest", "forest_records", "store_handles", "end_export", "unexpose"}
      /\ pc' \in {"get_record", "store_handle", "expose_forest", "forest_records",
                  "store_handles", "unexpose", "report", "crashed"}
  BY DEF TransferStep, Expose, Exposes, GetTransferRecord, StoreHandle, Unexpose,
         OpenExportSession, ExposeForest, GetForestRecord, StoreHandles, Logout, UnexposeNext,
         Step, PCs
<1>3. ok' \in BOOLEAN /\ rc' \in {"Failed", "NoError"}
  BY CallsBoolean DEF WorkerTypeOK, TransferStep, Expose, Exposes, GetTransferRecord,
         StoreHandle, Unexpose, OpenExportSession, ExposeForest, GetForestRecord, StoreHandles,
         Logout, UnexposeNext, Reads, Performs, Fails, StoresHandle, Unexposes
<1>4. current \in Jobs /\ 1 \in 1..Disks /\ 1 \in 1..(Disks + 1) /\ Disks \in Nat
  BY <1>2, TransferAssumption DEF Queued
<1>5. TransferTypeOK'
  <2>. USE <1>4 DEF TransferTypeOK
  <2>1. CASE Expose
    BY <2>1 DEF Expose, Exposes
  <2>2. CASE GetTransferRecord
    BY <2>2 DEF GetTransferRecord, transferVars
  <2>3. CASE StoreHandle
    BY <2>3 DEF StoreHandle, StoresHandle
  <2>4. CASE Unexpose
    BY <2>4 DEF Unexpose, Unexposes
  <2>5. CASE OpenExportSession
    BY <2>5 DEF OpenExportSession
  <2>6. CASE ExposeForest
    BY <2>6 DEF ExposeForest, Exposes
  <2>7. CASE GetForestRecord
    BY <2>7, <1>3 DEF GetForestRecord, Places
  <2>8. CASE StoreHandles
    BY <2>8 DEF StoreHandles, StoresHandle
  <2>9. CASE Logout
    BY <2>9 DEF Logout
  <2>10. CASE UnexposeNext
    BY <2>10 DEF UnexposeNext, Unexposes, Places
  <2>. QED  BY <2>1, <2>2, <2>3, <2>4, <2>5, <2>6, <2>7, <2>8, <2>9, <2>10 DEF TransferStep
<1>6. WorkerTypeOK' /\ kind' \in [Jobs -> Kinds \cup {"none"}] /\ Queued'
  BY <1>2, <1>3, StepKeeps
<1>7. Places'
  <2>. USE <1>4 DEF Places, Step
  <2>1. CASE Expose \/ GetTransferRecord \/ StoreHandle \/ Unexpose
    BY <2>1 DEF Expose, Exposes, GetTransferRecord, StoreHandle, Unexpose
  <2>2. CASE OpenExportSession \/ StoreHandles \/ Logout
    BY <2>2 DEF OpenExportSession, StoreHandles, Logout
  <2>3. CASE ExposeForest
    BY <2>3 DEF ExposeForest, Exposes
  <2>4. CASE GetForestRecord
    BY <2>4 DEF GetForestRecord, TransferTypeOK
  <2>5. CASE UnexposeNext
    BY <2>5 DEF UnexposeNext, TransferTypeOK
  <2>. QED  BY <2>1, <2>2, <2>3, <2>4, <2>5 DEF TransferStep
<1>8. Handles'
  <2>1. UNCHANGED target /\ \/ UNCHANGED known
                            \/ /\ known' = known \cup {current}
                               /\ kind[current] \in {"connect", "start_export"}
                               /\ pc' = "report"
    BY DEF TransferStep, Expose, Exposes, GetTransferRecord, StoreHandle, Unexpose,
           OpenExportSession, ExposeForest, GetForestRecord, StoreHandles, Logout, UnexposeNext,
           StoresHandle, transferVars, Places, Step
  <2>2. \A t \in known' : task'[t] # Absent /\ kind'[t] \in {"connect", "start_export"}
    BY <1>2, <2>1 DEF Handles, Queued
  <2>3. \A n \in DOMAIN pending' : pending'[n] \notin known'
    BY <1>2, <2>1 DEF Handles, Queued
  <2>4. pc' \in Exposing => current' \notin known'
    <3>1. CASE pc \in Exposing
      BY <1>2, <2>1, <3>1 DEF Handles, Exposing
    <3>2. CASE pc \notin Exposing
      BY <3>2 DEF Exposing, TransferStep, Expose, Exposes, GetTransferRecord, StoreHandle,
           Unexpose, OpenExportSession, ExposeForest, GetForestRecord, StoreHandles, Logout,
           UnexposeNext, Step
    <3>. QED  BY <3>1, <3>2
  <2>. QED  BY <1>2, <2>1, <2>2, <2>3, <2>4 DEF Handles
<1>. QED  BY <1>1, <1>2, <1>5, <1>6, <1>7, <1>8

\* Those who kill a job, set a channel up, or let a transfer machine time out do.
LEMMA OthersShape == ASSUME Shape, Others PROVE Shape'
<1>. USE DEF Shape, TypeOK
<1>1. CASE (\E j \in Jobs : KillJob(j)) /\ UNCHANGED <<copyVars, migrationVars, transferVars>>
  <2>1. PICK j \in Jobs : KillJob(j)
    BY <1>1
  <2>2. task' = [task EXCEPT ![j] = Gone]
    BY <2>1 DEF KillJob, Destroy
  <2>3. Gone \in Tasks /\ Gone # Absent
    BY JobTaskAssumption DEF Tasks
  <2>. USE <1>1, <2>1, <2>2, <2>3 DEF KillJob, copyVars, migrationVars, transferVars
  <2>4. CopyTypeOK' /\ MigrationTypeOK' /\ TransferTypeOK'
    BY DEF CopyTypeOK, MigrationTypeOK, TransferTypeOK
  <2>5. WorkerTypeOK' /\ pc' \in PCs /\ kind' \in [Jobs -> Kinds \cup {"none"}]
    BY DEF WorkerTypeOK
  <2>6. \A k \in Jobs : task[k] # Absent => task'[k] # Absent
    BY DEF WorkerTypeOK
  <2>7. Queued'
    <3>1. \A n \in DOMAIN pending : pending[n] \in Jobs
      BY DEF WorkerTypeOK
    <3>. QED  BY <2>6, <3>1 DEF Queued
  <2>8. Places'
    BY DEF Places
  <2>9. Handles'
    BY <2>6 DEF Handles, TransferTypeOK
  <2>. QED  BY <2>4, <2>5, <2>7, <2>8, <2>9
<1>2. CASE SetupChannel /\ UNCHANGED <<copyVars, transferVars>>
  <2>. USE <1>2 DEF SetupChannel, workerVars, jobs, copyVars, transferVars
  <2>1. MigrationTypeOK'
    BY DEF MigrationTypeOK, Keys
  <2>2. CopyTypeOK' /\ TransferTypeOK' /\ WorkerTypeOK'
    BY DEF CopyTypeOK, TransferTypeOK, WorkerTypeOK
  <2>3. Queued' /\ Places' /\ Handles'
    BY DEF Queued, Places, Handles
  <2>. QED  BY <2>1, <2>2, <2>3
<1>3. CASE TimeOut /\ UNCHANGED <<copyVars, migrationVars>>
  <2>. USE <1>3 DEF TimeOut, workerVars, jobs, copyVars, migrationVars
  <2>1. TransferTypeOK'
    BY DEF TransferTypeOK
  <2>2. CopyTypeOK' /\ MigrationTypeOK' /\ WorkerTypeOK'
    BY DEF CopyTypeOK, MigrationTypeOK, WorkerTypeOK
  <2>3. Queued' /\ Places' /\ Handles'
    BY DEF Queued, Places, Handles
  <2>. QED  BY <2>1, <2>2, <2>3
<1>. QED  BY <1>1, <1>2, <1>3 DEF Others

\* The shape is an invariant.
THEOREM ShapeInvariant == Spec => []Shape
<1>1. Shape /\ [Next]_vars => Shape'
  <2>. SUFFICES ASSUME Shape, [Next]_vars PROVE Shape'
    OBVIOUS
  <2>1. CASE \E j \in Jobs : ClientCall(j)
    BY <2>1, ClientShape
  <2>2. CASE Worker
    BY <2>2, QueueShape, WriteShape, CopyShape, MigrationShape, TransferShape DEF Worker
  <2>3. CASE Others
    BY <2>3, OthersShape
  <2>4. CASE UNCHANGED vars
    BY <2>4 DEF vars, workerVars, jobs, copyVars, migrationVars, transferVars, Shape, TypeOK,
                WorkerTypeOK, CopyTypeOK, MigrationTypeOK, TransferTypeOK, Queued, Places,
                Handles
  <2>. QED  BY <2>1, <2>2, <2>3, <2>4 DEF Next
<1>. QED  BY <1>1, InitShape, PTL DEF Spec

-----------------------------------------------------------------------------
(* What a step may do to the jobs that have started                        *)

\* What a task stands for does not change, one that is gone stays so, and only the
\* report of a success makes one Completed.
LEMMA TaskStep ==
  ASSUME Shape, [Next]_vars, NEW j \in Jobs
  PROVE  /\ task[j] # Absent =>
              /\ task'[j] # Absent
              /\ kind'[j] = kind[j] /\ target'[j] = target[j] /\ template'[j] = template[j]
         /\ task[j] = Gone => task'[j] = Gone
         /\ Is(task'[j], "Completed") =>
              Is(task[j], "Completed") \/ (pc = "report" /\ rc = "NoError" /\ j = current)
         /\ faults' = faults
<1>. USE DEF Shape, TypeOK
<1>1. CASE \E k \in Jobs : ClientCall(k)
  <2>1. PICK k \in Jobs : ClientCall(k)
    BY <1>1
  <2>2. /\ task[k] = Absent /\ task' = [task EXCEPT ![k] = NewTask]
        /\ \E c : kind' = [kind EXCEPT ![k] = c]
        /\ faults' = faults
        /\ \/ UNCHANGED target
           \/ \E t \in Jobs : target' = [target EXCEPT ![k] = t]
        /\ \/ UNCHANGED template
           \/ \E t \in BOOLEAN : template' = [template EXCEPT ![k] = t]
    BY <2>1 DEF ClientCall, CopySystem, MigrateVirtualSystem, Connect, Disconnect, Submit,
                copyVars, transferVars
  <2>. QED  BY <2>2, NewTaskResult, JobTaskAssumption
            DEF WorkerTypeOK, CopyTypeOK, TransferTypeOK
<1>2. CASE (Announce \/ Report) /\ UNCHANGED <<copyVars, migrationVars, transferVars>>
  <2>1. PICK t \in Tasks : Becomes(t)
    BY <1>2, WorkerWrites
  <2>2. UNCHANGED <<kind, faults, target, template>>
    BY <1>2 DEF Announce, Report, copyVars, transferVars
  <2>. QED  BY <2>1, <2>2 DEF Becomes, WorkerTypeOK
<1>3. CASE \/ /\ TakeJob \/ FreeJob
              /\ UNCHANGED <<copyVars, migrationVars, transferVars>>
           \/ UNCHANGED vars
  BY <1>3 DEF TakeJob, FreeJob, vars, workerVars, jobs, copyVars, transferVars
<1>4. CASE CopyStep /\ UNCHANGED <<migrationVars, transferVars>>
  BY <1>4 DEF CopyStep, ReadSource, CloneTemplate, GetNewRecord, ProvisionDisks, FullCopy,
              ModifyCopy, RemoveCopyOnError, Step, jobs, copyVars, transferVars
<1>5. CASE MigrationStep /\ UNCHANGED <<copyVars, transferVars>>
  BY <1>5 DEF MigrationStep, ReadChannel, PrepareChannel, PoolMigrate, FinishChannel, Step,
              jobs, copyVars, transferVars
<1>6. CASE TransferStep /\ UNCHANGED <<copyVars, migrationVars>>
  BY <1>6 DEF TransferStep, Expose, Exposes, GetTransferRecord, StoreHandle, Unexpose,
              OpenExportSession, ExposeForest, GetForestRecord, StoreHandles, Logout,
              UnexposeNext, Step, jobs, copyVars, transferVars
<1>7. CASE Others
  <2>1. CASE \E k \in Jobs : KillJob(k) /\ UNCHANGED <<copyVars, migrationVars, transferVars>>
    <3>1. PICK k \in Jobs : KillJob(k)
      BY <2>1
    <3>2. task' = [task EXCEPT ![k] = Gone]
      BY <3>1 DEF KillJob, Destroy
    <3>3. Gone # Absent /\ ~Is(Gone, "Completed")
      BY JobTaskAssumption DEF Is
    <3>. QED  BY <2>1, <3>1, <3>2, <3>3 DEF KillJob, WorkerTypeOK, copyVars, transferVars
  <2>2. CASE SetupChannel \/ TimeOut
    BY <1>7, <2>2 DEF Others, SetupChannel, TimeOut, workerVars, jobs, copyVars, transferVars,
                      KillJob
  <2>. QED  BY <1>7, <2>1, <2>2 DEF Others
<1>. QED  BY <1>1, <1>2, <1>3, <1>4, <1>5, <1>6, <1>7 DEF Next, Worker

\* Whether calls may fail is decided once.
LEMMA FaultsStep == ASSUME [Next]_vars PROVE faults' = faults
  BY DEF Next, ClientCall, CopySystem, MigrateVirtualSystem, Connect, Disconnect, Submit,
     Worker, TakeJob, Announce, Report, FreeJob, CopyStep, ReadSource, CloneTemplate,
     GetNewRecord, ProvisionDisks, FullCopy, ModifyCopy, RemoveCopyOnError, MigrationStep,
     ReadChannel, PrepareChannel, PoolMigrate, FinishChannel, TransferStep, Expose, Exposes,
     GetTransferRecord, StoreHandle, Unexpose, OpenExportSession, ExposeForest,
     GetForestRecord, StoreHandles, Logout, UnexposeNext, Others, KillJob, SetupChannel,
     TimeOut, Step, workerVars, jobs, vars

\* Outside its callback a job's work is left as it is: what the callback in progress
\* makes is a copy of its own, or a transfer machine whose handle nobody has.
LEMMA WorkStep ==
  ASSUME Shape, CopyProgress, [Next]_vars
  PROVE  /\ moved \subseteq moved'
         /\ \A j \in Jobs : \/ copy'[j] = copy[j]
                            \/ j = current /\ (copy'[j] = "whole" \/ template[j])
         /\ \A h \in exposed' : h \in exposed \/ (h[1] = current /\ current \notin known)
<1>. USE DEF Shape, TypeOK
<1>1. CASE (\E k \in Jobs : ClientCall(k)) \/ UNCHANGED vars
  BY <1>1 DEF ClientCall, CopySystem, MigrateVirtualSystem, Connect, Disconnect, vars,
              copyVars, migrationVars, transferVars
<1>2. CASE /\ TakeJob \/ Announce \/ Report \/ FreeJob
           /\ UNCHANGED <<copyVars, migrationVars, transferVars>>
  BY <1>2 DEF copyVars, migrationVars, transferVars
<1>3. CASE CopyStep /\ UNCHANGED <<migrationVars, transferVars>>
  <2>1. moved' = moved /\ exposed' = exposed
    BY <1>3 DEF migrationVars, transferVars
  <2>2. CASE ReadSource \/ GetNewRecord \/ ModifyCopy
    BY <2>1, <2>2 DEF ReadSource, GetNewRecord, ModifyCopy, copyVars
  <2>3. CASE CloneTemplate \/ ProvisionDisks \/ FullCopy
    BY <2>1, <2>3 DEF CloneTemplate, ProvisionDisks, FullCopy, Makes, CopyTypeOK, CopyProgress
  <2>4. CASE RemoveCopyOnError
    BY <2>1, <2>4 DEF RemoveCopyOnError, Calls
  <2>. QED  BY <1>3, <2>2, <2>3, <2>4 DEF CopyStep
<1>4. CASE MigrationStep /\ UNCHANGED <<copyVars, transferVars>>
  BY <1>4 DEF MigrationStep, ReadChannel, PrepareChannel, PoolMigrate, FinishChannel,
              copyVars, transferVars
<1>5. CASE TransferStep /\ UNCHANGED <<copyVars, migrationVars>>
  <2>1. moved' = moved /\ copy' = copy
    BY <1>5 DEF migrationVars, copyVars
  <2>2. CASE Expose \/ ExposeForest
    <3>1. pc \in {"connect", "expose_forest"} /\ current \notin known
      BY <2>2 DEF Expose, ExposeForest, Exposes, Handles, Exposing
    <3>2. \A h \in exposed' : h \in exposed \/ \E d \in Nat : h = <<current, d>>
      BY <2>2, TransferAssumption DEF Expose, ExposeForest, Exposes
    <3>. QED  BY <2>1, <3>1, <3>2
  <2>3. CASE GetTransferRecord \/ StoreHandle \/ Unexpose \/ OpenExportSession
    BY <2>1, <2>3 DEF GetTransferRecord, StoreHandle, Unexpose, Unexposes, OpenExportSession,
                      transferVars
  <2>4. CASE GetForestRecord \/ StoreHandles \/ Logout \/ UnexposeNext
    BY <2>1, <2>4 DEF GetForestRecord, StoreHandles, Logout, UnexposeNext, Unexposes
  <2>. QED  BY <1>5, <2>2, <2>3, <2>4 DEF TransferStep
<1>6. CASE Others
  BY <1>6 DEF Others, KillJob, SetupChannel, TimeOut, copyVars, migrationVars, transferVars
<1>. QED  BY <1>1, <1>2, <1>3, <1>4, <1>5, <1>6 DEF Next, Worker

-----------------------------------------------------------------------------
(* A job that is Completed did its work                                    *)

\* The locals of a copy speak of the machine it makes.
LEMMA CopyProgressStep ==
  ASSUME Shape, CopyProgress, [Next]_vars
  PROVE  CopyProgress'
<1>. USE DEF Shape, TypeOK, CopyProgress
<1>1. CASE \E k \in Jobs : ClientCall(k)
  <2>1. PICK k \in Jobs : ClientCall(k)
    BY <1>1
  <2>2. UNCHANGED <<pc, rc, current, copy>>
    BY <2>1 DEF ClientCall, CopySystem, MigrateVirtualSystem, Connect, Disconnect, Submit,
                Service!Accept, copyVars
  <2>3. pc # "idle" => /\ kind'[current] = kind[current]
                       /\ template'[current] = template[current]
    BY <1>1, TaskStep DEF Queued, Next
  <2>. QED  BY <2>2, <2>3
<1>2. CASE /\ TakeJob \/ Announce \/ Report \/ FreeJob
           /\ UNCHANGED <<copyVars, migrationVars, transferVars>>
  <2>1. CASE TakeJob \/ FreeJob
    BY <1>2, <2>1 DEF TakeJob, FreeJob
  <2>2. CASE Announce
    BY <1>2, <2>2 DEF Announce, Queued, Kinds
  <2>3. CASE Report
    BY <1>2, <2>3 DEF Report
  <2>. QED  BY <1>2, <2>1, <2>2, <2>3
<1>3. CASE CopyStep /\ UNCHANGED <<migrationVars, transferVars>>
  <2>. USE DEF Step, jobs
  <2>1. CASE ReadSource
    BY <2>1 DEF ReadSource
  <2>2. CASE CloneTemplate
    BY <2>2 DEF CloneTemplate
  <2>3. CASE GetNewRecord \/ ModifyCopy
    BY <2>3 DEF GetNewRecord, ModifyCopy, copyVars
  <2>4. CASE ProvisionDisks
    BY <2>4 DEF ProvisionDisks
  <2>5. CASE FullCopy
    <3>1. current \in Jobs
      BY <2>5 DEF FullCopy, Queued
    <3>. QED  BY <2>5, <3>1 DEF FullCopy, Performs, Fails, Makes, CopyTypeOK
  <2>6. CASE RemoveCopyOnError
    BY <2>6 DEF RemoveCopyOnError
  <2>. QED  BY <1>3, <2>1, <2>2, <2>3, <2>4, <2>5, <2>6 DEF CopyStep
<1>4. CASE MigrationStep /\ UNCHANGED <<copyVars, transferVars>>
  BY <1>4 DEF MigrationStep, ReadChannel, PrepareChannel, PoolMigrate, FinishChannel, Step,
              jobs, Places, copyVars
<1>5. CASE TransferStep /\ UNCHANGED <<copyVars, migrationVars>>
  BY <1>5 DEF TransferStep, Expose, Exposes, GetTransferRecord, StoreHandle, Unexpose,
              OpenExportSession, ExposeForest, GetForestRecord, StoreHandles, Logout,
              UnexposeNext, Step, jobs, Places, copyVars
<1>6. CASE Others
  BY <1>6 DEF Others, KillJob, SetupChannel, TimeOut, workerVars, jobs, copyVars,
              migrationVars, transferVars
<1>7. CASE UNCHANGED vars
  BY <1>7 DEF vars, workerVars, jobs, copyVars
<1>. QED  BY <1>1, <1>2, <1>3, <1>4, <1>5, <1>6, <1>7 DEF Next, Worker

\* Those of a migration speak of the machine that was moved.
LEMMA MigrationProgressStep ==
  ASSUME Shape, CopyProgress, MigrationProgress, [Next]_vars
  PROVE  MigrationProgress'
<1>. USE DEF Shape, TypeOK, MigrationProgress
<1>1. CASE \E k \in Jobs : ClientCall(k)
  <2>1. PICK k \in Jobs : ClientCall(k)
    BY <1>1
  <2>2. UNCHANGED <<pc, rc, current, error, moved>>
    BY <2>1 DEF ClientCall, CopySystem, MigrateVirtualSystem, Connect, Disconnect, Submit,
                Service!Accept, migrationVars
  <2>3. pc # "idle" => kind'[current] = kind[current]
    BY <1>1, TaskStep DEF Queued, Next
  <2>. QED  BY <2>2, <2>3
<1>2. CASE /\ TakeJob \/ Announce \/ Report \/ FreeJob
           /\ UNCHANGED <<copyVars, migrationVars, transferVars>>
  BY <1>2 DEF TakeJob, Announce, Report, FreeJob, Queued, Kinds
<1>3. CASE CopyStep /\ UNCHANGED <<migrationVars, transferVars>>
  BY <1>3 DEF CopyStep, ReadSource, CloneTemplate, GetNewRecord, ProvisionDisks, FullCopy,
              ModifyCopy, RemoveCopyOnError, Step, jobs, Places
<1>4. CASE MigrationStep /\ UNCHANGED <<copyVars, transferVars>>
  <2>. USE DEF Step, jobs
  <2>1. CASE ReadChannel \/ PrepareChannel
    BY <2>1 DEF ReadChannel, PrepareChannel
  <2>2. CASE PoolMigrate
    BY <2>2 DEF PoolMigrate, Fails
  <2>3. CASE FinishChannel
    BY <2>3 DEF FinishChannel
  <2>. QED  BY <1>4, <2>1, <2>2, <2>3 DEF MigrationStep
<1>5. CASE TransferStep /\ UNCHANGED <<copyVars, migrationVars>>
  BY <1>5 DEF TransferStep, Expose, Exposes, GetTransferRecord, StoreHandle, Unexpose,
              OpenExportSession, ExposeForest, GetForestRecord, StoreHandles, Logout,
              UnexposeNext, Step, jobs, Places
<1>6. CASE Others
  BY <1>6 DEF Others, KillJob, SetupChannel, TimeOut, workerVars, jobs, copyVars,
              migrationVars, transferVars
<1>7. CASE UNCHANGED vars
  BY <1>7 DEF vars, workerVars, jobs, migrationVars
<1>. QED  BY <1>1, <1>2, <1>3, <1>4, <1>5, <1>6, <1>7 DEF Next, Worker

\* Those of a disconnect speak of the machine it stops.
LEMMA DisconnectProgressStep ==
  ASSUME Shape, CopyProgress, DisconnectProgress, [Next]_vars
  PROVE  DisconnectProgress'
<1>. USE DEF Shape, TypeOK, DisconnectProgress
<1>1. CASE \E k \in Jobs : ClientCall(k)
  <2>1. PICK k \in Jobs : ClientCall(k)
    BY <1>1
  <2>2. UNCHANGED <<pc, rc, current, exposed>>
    BY <2>1 DEF ClientCall, CopySystem, MigrateVirtualSystem, Connect, Disconnect, Submit,
                Service!Accept, transferVars
  <2>3. pc # "idle" => kind'[current] = kind[current] /\ target'[current] = target[current]
    BY <1>1, TaskStep DEF Queued, Next
  <2>. QED  BY <2>2, <2>3
<1>2. CASE /\ TakeJob \/ Announce \/ Report \/ FreeJob
           /\ UNCHANGED <<copyVars, migrationVars, transferVars>>
  BY <1>2 DEF TakeJob, Announce, Report, FreeJob, Queued, Kinds
<1>3. CASE CopyStep /\ UNCHANGED <<migrationVars, transferVars>>
  BY <1>3 DEF CopyStep, ReadSource, CloneTemplate, GetNewRecord, ProvisionDisks, FullCopy,
              ModifyCopy, RemoveCopyOnError, Step, jobs, Places
<1>4. CASE MigrationStep /\ UNCHANGED <<copyVars, transferVars>>
  BY <1>4 DEF MigrationStep, ReadChannel, PrepareChannel, PoolMigrate, FinishChannel, Step,
              jobs, Places
<1>5. CASE TransferStep /\ UNCHANGED <<copyVars, migrationVars>>
  <2>1. CASE Unexpose
    BY <2>1 DEF Unexpose, Unexposes, Step, jobs
  <2>2. CASE TransferStep /\ ~Unexpose
    BY <2>2 DEF TransferStep, Expose, Exposes, GetTransferRecord, StoreHandle,
                OpenExportSession, ExposeForest, GetForestRecord, StoreHandles, Logout,
                UnexposeNext, Step, jobs, Places
  <2>. QED  BY <1>5, <2>1, <2>2
<1>6. CASE Others
  BY <1>6 DEF Others, KillJob, SetupChannel, TimeOut, workerVars, jobs, copyVars,
              migrationVars, transferVars
<1>7. CASE UNCHANGED vars
  BY <1>7 DEF vars, workerVars, jobs, transferVars
<1>. QED  BY <1>1, <1>2, <1>3, <1>4, <1>5, <1>6, <1>7 DEF Next, Worker

\* What is reported as done was done, and what was reported is not undone.
LEMMA CompletedStep ==
  ASSUME Shape, WorkDone, [Next]_vars
  PROVE  CompletedMeansDone'
<1>. USE DEF Shape, TypeOK, WorkDone
<1>. SUFFICES ASSUME NEW j \in Jobs
              PROVE  /\ Completed(j, "copy")' /\ ~template'[j] => copy'[j] = "whole"
                     /\ Completed(j, "migrate")' => j \in moved'
                     /\ Completed(j, "disconnect")' => <<target'[j], 1>> \notin exposed'
  BY DEF CompletedMeansDone
<1>. SUFFICES ASSUME Is(task'[j], "Completed")
              PROVE  /\ kind'[j] = "copy" /\ ~template'[j] => copy'[j] = "whole"
                     /\ kind'[j] = "migrate" => j \in moved'
                     /\ kind'[j] = "disconnect" => <<target'[j], 1>> \notin exposed'
  BY DEF Completed
<1>1. Is(task[j], "Completed") \/ (pc = "report" /\ rc = "NoError" /\ j = current)
  BY TaskStep
<1>2. /\ task[j] # Absent
      /\ kind'[j] = kind[j] /\ target'[j] = target[j] /\ template'[j] = template[j]
  <2>1. task[j] # Absent
    BY <1>1, RecordedHere DEF Is, Queued
  <2>. QED  BY <2>1, TaskStep
<1>3. /\ kind[j] = "copy" /\ ~template[j] => copy[j] = "whole"
      /\ kind[j] = "migrate" => j \in moved
      /\ kind[j] = "disconnect" => <<target[j], 1>> \notin exposed
  BY <1>1 DEF CompletedMeansDone, Completed, CopyProgress, MigrationProgress,
              DisconnectProgress
<1>4. kind[j] = "disconnect" => <<target[j], 1>> \notin exposed'
  <2>1. kind[j] = "disconnect" => target[j] \in known
    BY DEF Handles
  <2>2. \A h \in exposed' : h \in exposed \/ (h[1] = current /\ current \notin known)
    BY WorkStep
  <2>. QED  BY <1>3, <2>1, <2>2
<1>. QED  BY <1>2, <1>3, <1>4, WorkStep

\* It is an invariant.
THEOREM WorkInvariant == Spec => []WorkDone
<1>1. Init => WorkDone
  BY DEF Init, WorkerInit, WorkDone, CopyProgress, MigrationProgress, DisconnectProgress,
         CompletedMeansDone, Completed
<1>2. Shape /\ WorkDone /\ [Next]_vars => WorkDone'
  BY CopyProgressStep, MigrationProgressStep, DisconnectProgressStep, CompletedStep
     DEF WorkDone
<1>. QED  BY <1>1, <1>2, ShapeInvariant, PTL DEF Spec

-----------------------------------------------------------------------------
(* The channel of a machine that was moved                                 *)

\* Without faults the answer to the command that puts the channel back is the key.
LEMMA KeyBack == \A d \in FinishMigration : ~faults /\ d.answer = TRUE => d.keys = {"kvp_enabled"}
<1>. SUFFICES ASSUME NEW d \in FinishMigration, ~faults, d.answer = TRUE
              PROVE  d.keys = {"kvp_enabled"}
  OBVIOUS
<1>1. d = Done(channel, FALSE) \/ d = Done({"kvp_enabled"}, TRUE)
  BY DEF FinishMigration
<1>. QED  BY <1>1, AnswerOf

\* Only the job itself comes to its report, and only a setup touches the channel then.
LEMMA ChannelStep ==
  ASSUME Shape, MigrationKeepsChannel, [Next]_vars
  PROVE  MigrationKeepsChannel'
<1>. USE DEF Shape, TypeOK, MigrationKeepsChannel
<1>1. CASE \E k \in Jobs : ClientCall(k)
  <2>1. PICK k \in Jobs : ClientCall(k)
    BY <1>1
  <2>2. UNCHANGED <<pc, rc, current, kvpNeedsReenabling, channel, faults>>
    BY <2>1 DEF ClientCall, CopySystem, MigrateVirtualSystem, Connect, Disconnect, Submit,
                Service!Accept, migrationVars
  <2>3. pc # "idle" => kind'[current] = kind[current]
    BY <1>1, TaskStep DEF Queued, Next
  <2>. QED  BY <2>2, <2>3
<1>2. CASE /\ TakeJob \/ Announce \/ Report \/ FreeJob
           /\ UNCHANGED <<copyVars, migrationVars, transferVars>>
  BY <1>2 DEF TakeJob, Announce, Report, FreeJob, Queued, Kinds
<1>3. CASE CopyStep /\ UNCHANGED <<migrationVars, transferVars>>
  BY <1>3 DEF CopyStep, ReadSource, CloneTemplate, GetNewRecord, ProvisionDisks, FullCopy,
              ModifyCopy, RemoveCopyOnError, Step, jobs, Places
<1>4. CASE MigrationStep /\ UNCHANGED <<copyVars, transferVars>>
  <2>. USE DEF Step, jobs
  <2>1. CASE ReadChannel \/ PrepareChannel \/ PoolMigrate
    BY <2>1 DEF ReadChannel, PrepareChannel, PoolMigrate
  <2>2. CASE FinishChannel
    <3>1. ASSUME ~faults', rc' = "NoError", kvpNeedsReenabling'
          PROVE  "kvp_enabled" \in channel'
      <4>1. kvpNeedsReenabling /\ ~faults
        BY <2>2, <3>1 DEF FinishChannel
      <4>2. PICK answer \in BOOLEAN :
              /\ Command(FinishMigration, answer)
              /\ rc' = IF error \/ ~answer THEN "Failed" ELSE "NoError"
        BY <2>2, <4>1 DEF FinishChannel
      <4>3. answer = TRUE
        BY <3>1, <4>2
      <4>4. PICK d \in FinishMigration : channel' = d.keys /\ d.answer = TRUE
        BY <4>2, <4>3 DEF Command
      <4>. QED  BY <4>1, <4>4, KeyBack
    <3>. QED  BY <3>1
  <2>. QED  BY <1>4, <2>1, <2>2 DEF MigrationStep
<1>5. CASE TransferStep /\ UNCHANGED <<copyVars, migrationVars>>
  BY <1>5 DEF TransferStep, Expose, Exposes, GetTransferRecord, StoreHandle, Unexpose,
              OpenExportSession, ExposeForest, GetForestRecord, StoreHandles, Logout,
              UnexposeNext, Step, jobs, Places
<1>6. CASE Others
  <2>1. UNCHANGED <<pc, rc, current, kind, kvpNeedsReenabling, faults>>
    BY <1>6 DEF Others, KillJob, SetupChannel, TimeOut, workerVars, jobs, migrationVars
  <2>2. ~faults /\ "kvp_enabled" \in channel => "kvp_enabled" \in channel'
    BY <1>6 DEF Others, SetupChannel, migrationVars
  <2>. QED  BY <2>1, <2>2
<1>7. CASE UNCHANGED vars
  BY <1>7 DEF vars, workerVars, jobs, migrationVars
<1>. QED  BY <1>1, <1>2, <1>3, <1>4, <1>5, <1>6, <1>7 DEF Next, Worker

-----------------------------------------------------------------------------
(* Every transfer machine can be found                                     *)

\* Without faults a job that has exposed something goes on with its session in order.
LEMMA ExposesStep ==
  ASSUME NEW handles, NEW from, NEW then, Exposes(handles, from, then), ~faults,
         \A h \in handles : h[1] = current
  PROVE  \/ UNCHANGED exposed
         \/ /\ ok' /\ pc' = then
            /\ \A h \in exposed' : h \in exposed \/ h[1] = current
<1>1. Performs => ok' = TRUE
  BY DEF Performs
<1>. QED  BY <1>1 DEF Exposes, Step

\* A client sees the handle of what runs, unless its job was killed or is at work.
LEMMA ShownStep ==
  ASSUME Shape, Shown, [Next]_vars
  PROVE  Shown'
<1>. USE DEF Shape, TypeOK
<1>. SUFFICES ASSUME ~faults' PROVE Shown'
  BY DEF Shown
<1>0. /\ ~faults
      /\ \A j \in Jobs : task[j] = Gone => task'[j] = Gone
      /\ exposed \subseteq Jobs \X (1..Disks)
      /\ \A h \in exposed : h[1] \in Jobs
  <2>1. faults' = faults
    BY FaultsStep
  <2>. QED  BY <2>1, TaskStep DEF TransferTypeOK
<1>. DEFINE Storing == {"get_record", "store_handle", "forest_records", "store_handles"}
            Found(h) == h[1] \in known \/ task[h[1]] = Gone
            Now(h) == h[1] = current /\ pc \in Storing \cup {"crashed"}
<1>1. /\ pc \in Storing => ok
      /\ \A h \in exposed : Found(h) \/ Now(h)
  BY <1>0 DEF Shown
<1>. SUFFICES /\ pc' \in Storing => ok'
              /\ \A h \in exposed' : Found(h)' \/ Now(h)'
  BY DEF Shown
<1>2. CASE \E k \in Jobs : ClientCall(k)
  <2>1. PICK k \in Jobs : ClientCall(k)
    BY <1>2
  <2>2. UNCHANGED <<pc, ok, current, exposed, known>>
    BY <2>1 DEF ClientCall, CopySystem, MigrateVirtualSystem, Connect, Disconnect, Submit,
                Service!Accept, transferVars
  <2>. QED  BY <1>0, <1>1, <2>2
<1>3. CASE /\ TakeJob \/ Announce \/ Report \/ FreeJob
           /\ UNCHANGED <<copyVars, migrationVars, transferVars>>
  <2>1. pc \notin Storing \cup {"crashed"} /\ pc' \notin Storing
    BY <1>3 DEF TakeJob, Announce, Report, FreeJob, Queued, Kinds
  <2>. QED  BY <1>0, <1>1, <1>3, <2>1 DEF transferVars
<1>4. CASE CopyStep /\ UNCHANGED <<migrationVars, transferVars>>
  <2>1. pc \notin Storing \cup {"crashed"} /\ pc' \notin Storing
    BY <1>4 DEF CopyStep, ReadSource, CloneTemplate, GetNewRecord, ProvisionDisks, FullCopy,
                ModifyCopy, RemoveCopyOnError, Step
  <2>. QED  BY <1>0, <1>1, <1>4, <2>1 DEF transferVars
<1>5. CASE MigrationStep /\ UNCHANGED <<copyVars, transferVars>>
  <2>1. pc \notin Storing \cup {"crashed"} /\ pc' \notin Storing
    BY <1>5 DEF MigrationStep, ReadChannel, PrepareChannel, PoolMigrate, FinishChannel, Step
  <2>. QED  BY <1>0, <1>1, <1>5, <2>1 DEF transferVars
<1>6. CASE Others
  <2>1. UNCHANGED <<pc, ok, current, known>> /\ exposed' \subseteq exposed
    BY <1>6 DEF Others, KillJob, SetupChannel, TimeOut, workerVars, jobs, transferVars
  <2>. QED  BY <1>0, <1>1, <2>1
<1>7. CASE UNCHANGED vars
  BY <1>0, <1>1, <1>7 DEF vars, workerVars, jobs, transferVars
<1>8. CASE TransferStep /\ UNCHANGED <<copyVars, migrationVars>>
  <2>. USE DEF Step, jobs
  <2>1. CASE Expose \/ ExposeForest
    <3>1. pc' \in {"get_record", "forest_records"} => ok'
      BY <2>1 DEF Expose, ExposeForest, Exposes
    <3>2. \/ UNCHANGED exposed
          \/ /\ ok' /\ pc' \in {"get_record", "forest_records"}
             /\ \A h \in exposed' : h \in exposed \/ h[1] = current
      <4>1. /\ \A h \in {<<current, 1>>} : h[1] = current
            /\ \A h \in {<<current, d>> : d \in 1..Disks} : h[1] = current
        OBVIOUS
      <4>2. CASE Expose
        BY <1>0, <4>1, <4>2, ExposesStep DEF Expose
      <4>3. CASE ExposeForest
        BY <1>0, <4>1, <4>3, ExposesStep DEF ExposeForest
      <4>. QED  BY <2>1, <4>2, <4>3
    <3>3. UNCHANGED <<known, task, current>> /\ pc \notin Storing \cup {"crashed"}
          /\ pc' \in {"get_record", "forest_records", "report"}
      BY <2>1 DEF Expose, ExposeForest, Exposes
    <3>. QED  BY <1>1, <3>1, <3>2, <3>3
  <2>2. CASE GetTransferRecord \/ GetForestRecord
    <3>1. ok' /\ pc' \in Storing
      BY <1>0, <1>1, <2>2 DEF GetTransferRecord, GetForestRecord, Reads, Calls
    <3>2. UNCHANGED <<exposed, known, task, current>>
      BY <2>2 DEF GetTransferRecord, GetForestRecord, transferVars
    <3>. QED  BY <1>1, <3>1, <3>2
  <2>3. CASE StoreHandle \/ (StoreHandles /\ pc' = "report")
    <3>1. /\ UNCHANGED <<exposed, task, current>> /\ pc' = "report" /\ ok
          /\ StoresHandle
      BY <1>1, <2>3 DEF StoreHandle, StoreHandles
    <3>2. current \in known' \/ task[current] = Gone
      BY <1>0, <3>1 DEF StoresHandle
    <3>3. known \subseteq known'
      BY <3>1 DEF StoresHandle
    <3>. QED  BY <1>1, <3>1, <3>2, <3>3
  <2>4. CASE StoreHandles /\ pc' = "crashed"
    BY <1>1, <2>4 DEF StoreHandles
  <2>5. CASE Unexpose \/ OpenExportSession \/ Logout \/ UnexposeNext
    <3>1. /\ pc \notin Storing \cup {"crashed"} /\ pc' \notin Storing
          /\ UNCHANGED <<known, task, current>>
      BY <2>5 DEF Unexpose, OpenExportSession, Logout, UnexposeNext
    <3>2. exposed' \subseteq exposed
      BY <2>5 DEF Unexpose, OpenExportSession, Logout, UnexposeNext, Unexposes
    <3>. QED  BY <1>1, <3>1, <3>2
  <2>6. StoreHandles => pc' \in {"report", "crashed"}
    BY DEF StoreHandles
  <2>. QED  BY <1>8, <2>1, <2>2, <2>3, <2>4, <2>5, <2>6 DEF TransferStep
<1>. QED  BY <1>2, <1>3, <1>4, <1>5, <1>6, <1>7, <1>8 DEF Next, Worker

-----------------------------------------------------------------------------
(* The end of an export                                                    *)

\* Handles stay known and machines that timed out stay so; machines and sessions are
\* only added by a job whose handle nobody has.
LEMMA HandleStep ==
  ASSUME Shape, [Next]_vars
  PROVE  /\ known \subseteq known' /\ lapsed \subseteq lapsed'
         /\ \A h \in exposed' : h \in exposed \/ (h[1] = current /\ current \notin known)
         /\ \A t \in open' : t \in open \/ (t = current /\ current \notin known)
<1>. USE DEF Shape, TypeOK
<1>1. CASE TransferStep /\ UNCHANGED <<copyVars, migrationVars>>
  <2>1. CASE Expose \/ ExposeForest
    <3>1. current \notin known
      BY <2>1 DEF Expose, ExposeForest, Exposes, Handles, Exposing
    <3>2. \A h \in exposed' : h \in exposed \/ \E d \in Nat : h = <<current, d>>
      BY <2>1, TransferAssumption DEF Expose, ExposeForest, Exposes
    <3>3. UNCHANGED <<known, lapsed, open>>
      BY <2>1 DEF Expose, ExposeForest, Exposes
    <3>. QED  BY <3>1, <3>2, <3>3
  <2>2. CASE GetTransferRecord \/ StoreHandle \/ Unexpose
    BY <2>2 DEF GetTransferRecord, StoreHandle, StoresHandle, Unexpose, Unexposes,
                transferVars
  <2>3. CASE OpenExportSession
    BY <2>3 DEF OpenExportSession, Handles, Exposing
  <2>4. CASE GetForestRecord \/ StoreHandles \/ Logout \/ UnexposeNext
    BY <2>4 DEF GetForestRecord, StoreHandles, StoresHandle, Logout, UnexposeNext, Unexposes
  <2>. QED  BY <1>1, <2>1, <2>2, <2>3, <2>4 DEF TransferStep
<1>2. CASE TimeOut
  BY <1>2 DEF TimeOut
<1>3. CASE ~TransferStep /\ ~TimeOut
  BY <1>3 DEF Next, ClientCall, CopySystem, MigrateVirtualSystem, Connect, Disconnect, Worker,
              Others, SetupChannel, vars, copyVars, transferVars
<1>. QED
  BY <1>1, <1>2, <1>3 DEF Next, Worker, vars, transferVars, ClientCall, CopySystem,
     MigrateVirtualSystem, Connect, Disconnect, Others, SetupChannel

\* The steps that neither start, stop nor lose a transfer machine.
Quiet ==
    /\ UNCHANGED <<exposed, open, known, lapsed, i>>
    /\ \A j \in Jobs : task[j] # Absent => target'[j] = target[j] /\ kind'[j] = kind[j]
    /\ \/ UNCHANGED <<pc, ok, rc, current>>
       \/ /\ pc' \notin {"forest_records", "store_handles", "unexpose"}
          /\ pc' = "report" => kind'[current'] # "end_export"
          /\ pc' \in {"announce", "end_export"} => rc' = "Failed"

\* They are those of clients, of the worker itself and of the other callbacks.
LEMMA QuietStep ==
  ASSUME Shape, pc = "announce" => rc = "Failed", [Next]_vars, ~TransferStep, ~TimeOut
  PROVE  Quiet
<1>. USE DEF Shape, TypeOK
<1>1. \A j \in Jobs : task[j] # Absent => target'[j] = target[j] /\ kind'[j] = kind[j]
  BY TaskStep
<1>2. UNCHANGED <<exposed, open, known, lapsed, i>>
  BY DEF Next, ClientCall, CopySystem, MigrateVirtualSystem, Connect, Disconnect, Worker,
         Others, SetupChannel, vars, copyVars, transferVars
<1>3. CASE (\E j \in Jobs : ClientCall(j)) \/ Others \/ UNCHANGED vars
  <2>1. UNCHANGED <<pc, ok, rc, current>>
    BY <1>3 DEF ClientCall, CopySystem, MigrateVirtualSystem, Connect, Disconnect, Submit,
                Service!Accept, Others, KillJob, SetupChannel, vars, workerVars, jobs
  <2>. QED  BY <1>1, <1>2, <2>1 DEF Quiet
<1>4. CASE TakeJob \/ Announce \/ Report \/ FreeJob
  <2>1. /\ pc' \notin {"forest_records", "store_handles", "unexpose", "report"}
        /\ pc' \in {"announce", "end_export"} => rc' = "Failed"
    BY <1>4 DEF TakeJob, Announce, Report, FreeJob, Queued, Kinds
  <2>. QED  BY <1>1, <1>2, <2>1 DEF Quiet
<1>5. CASE CopyStep \/ MigrationStep
  <2>1. /\ pc' \notin {"forest_records", "store_handles", "unexpose", "announce", "end_export"}
        /\ kind' = kind /\ current' = current /\ kind[current] # "end_export"
    BY <1>5 DEF CopyStep, ReadSource, CloneTemplate, GetNewRecord, ProvisionDisks, FullCopy,
        ModifyCopy, RemoveCopyOnError, MigrationStep, ReadChannel, PrepareChannel, PoolMigrate,
        FinishChannel, Step, jobs, Places
  <2>. QED  BY <1>1, <1>2, <2>1 DEF Quiet
<1>. QED  BY <1>3, <1>4, <1>5 DEF Next, Worker

\* Without faults the plugin stops the machine if it can, and else leaves the others
\* alone; it answers OK only if it did.
LEMMA UnexposesStep ==
  ASSUME NEW h, NEW isOK \in BOOLEAN, Unexposes(h, isOK), ~faults, ok \in BOOLEAN
  PROVE  \/ h \in exposed /\ ok /\ ok' /\ exposed' = exposed \ {h} /\ isOK
         \/ /\ h \notin exposed \/ ~ok
            /\ exposed' = exposed /\ ~isOK /\ ok' \in BOOLEAN /\ (ok' => ok)
<1>1. Performs => ok /\ ok' = TRUE
  BY DEF Performs
<1>2. Fails => ok' = FALSE
  BY DEF Fails
<1>3. CASE h \in exposed /\ Performs /\ exposed' = exposed \ {h} /\ isOK = ok'
  BY <1>1, <1>3
<1>4. CASE /\ h \notin exposed \/ ~ok \/ faults
           /\ Fails \/ UNCHANGED ok
           /\ isOK = FALSE /\ UNCHANGED exposed
  BY <1>2, <1>4
<1>. QED  BY <1>3, <1>4 DEF Unexposes

\* What is stopped stays stopped, or stopping is done in order.
LEMMA InOrderStep ==
  ASSUME Shape, ~faults, InOrder, Ending, [Next]_vars
  PROVE  InOrder'
<1>. USE DEF Shape, TypeOK
<1>. DEFINE Ordered(t) ==
       \A d \in 1..Disks : Stopped(t, d) => \A e \in 1..d : <<t, e>> \notin exposed
<1>1. \A t \in known : /\ t \in Jobs /\ task[t] # Absent /\ kind'[t] = kind[t]
                       /\ \A d : <<t, d>> \in exposed' => <<t, d>> \in exposed
  <2>1. \A t, d : <<t, d>>[1] = t
    OBVIOUS
  <2>. QED  BY <2>1, TaskStep, HandleStep DEF Handles, TransferTypeOK
<1>2. CASE ~TransferStep /\ ~TimeOut
  <2>1. Quiet
    BY <1>2, QuietStep DEF Ending
  <2>. QED  BY <1>1, <2>1 DEF Quiet, InOrder, Stopped
<1>3. CASE TimeOut /\ ~TransferStep
  <2>1. PICK h \in exposed : exposed' = exposed \ {h} /\ lapsed' = lapsed \cup {h}
    BY <1>3 DEF TimeOut
  <2>2. \A t, d : Stopped(t, d)' => Stopped(t, d)
    BY <2>1 DEF Stopped
  <2>3. UNCHANGED <<pc, current, known, kind>>
    BY <1>3 DEF TimeOut, workerVars, jobs
  <2>. QED  BY <1>1, <2>2, <2>3 DEF InOrder
<1>4. CASE TransferStep
  <2>. USE DEF Step, jobs
  <2>1. CASE Expose \/ GetTransferRecord \/ StoreHandle \/ OpenExportSession \/ Logout
    <3>1. lapsed' = lapsed /\ current' = current /\ kind' = kind
      BY <2>1 DEF Expose, Exposes, GetTransferRecord, StoreHandle, OpenExportSession, Logout,
                  transferVars
    <3>2. pc' \notin {"forest_records", "store_handles"}
      BY <2>1 DEF Expose, Exposes, GetTransferRecord, StoreHandle, OpenExportSession, Logout
    <3>3. exposed \subseteq exposed'
      BY <2>1 DEF Expose, Exposes, GetTransferRecord, StoreHandle, OpenExportSession, Logout,
                  transferVars
    <3>4. \A t \in known' : kind'[t] = "start_export" => t \in known
      BY <2>1 DEF Expose, Exposes, GetTransferRecord, StoreHandle, StoresHandle,
                  OpenExportSession, Logout, transferVars, Places
    <3>5. \A t, d : Stopped(t, d)' => Stopped(t, d)
      BY <3>1, <3>3 DEF Stopped
    <3>. QED  BY <1>1, <3>1, <3>2, <3>4, <3>5 DEF InOrder
  <2>2. CASE ExposeForest
    <3>1. /\ lapsed' = lapsed /\ current' = current /\ kind' = kind /\ known' = known
          /\ pc' # "store_handles" /\ exposed \subseteq exposed'
          /\ pc' = "forest_records" => \A d \in 1..Disks : <<current, d>> \in exposed'
      <4>1. Performs \/ Fails
        BY <2>2 DEF ExposeForest, Exposes
      <4>. QED  BY <2>2, <4>1 DEF ExposeForest, Exposes, Fails
    <3>2. \A t, d : Stopped(t, d)' => Stopped(t, d)
      BY <3>1 DEF Stopped
    <3>3. pc' = "forest_records" => \A d \in 1..Disks : ~Stopped(current, d)'
      BY <3>1 DEF Stopped
    <3>. QED  BY <1>1, <3>1, <3>2, <3>3 DEF InOrder
  <2>3. CASE GetForestRecord
    BY <1>1, <2>3 DEF GetForestRecord, InOrder, Stopped
  <2>4. CASE StoreHandles
    <3>1. /\ UNCHANGED <<exposed, lapsed, current, kind>> /\ known' \subseteq known \cup {current}
          /\ pc = "store_handles" /\ pc' \notin {"forest_records", "store_handles"}
      BY <2>4 DEF StoreHandles, StoresHandle
    <3>. QED  BY <1>1, <3>1 DEF InOrder, Stopped
  <2>5. CASE Unexpose
    <3>1. /\ UNCHANGED <<lapsed, current, kind, known>>
          /\ pc' \notin {"forest_records", "store_handles"}
          /\ kind[target[current]] = "connect"
      BY <2>5 DEF Unexpose, Places, Handles, Queued
    <3>2. \A h \in exposed : h \in exposed' \/ h = <<target[current], 1>>
      BY <2>5 DEF Unexpose, Unexposes
    <3>3. \A t, d : t # target[current] => (Stopped(t, d)' => Stopped(t, d))
      BY <3>1, <3>2 DEF Stopped
    <3>. QED  BY <1>1, <3>1, <3>3 DEF InOrder
  <2>6. CASE UnexposeNext
    <3>. DEFINE t == target[current]
    <3>1. /\ UNCHANGED <<lapsed, current, kind, known>> /\ pc = "unexpose"
          /\ pc' \notin {"forest_records", "store_handles"}
      BY <2>6 DEF UnexposeNext
    <3>2. PICK isOK \in BOOLEAN : Unexposes(<<t, i>>, isOK)
      BY <2>6 DEF UnexposeNext
    <3>3. \/ <<t, i>> \in exposed /\ ok /\ exposed' = exposed \ {<<t, i>>}
          \/ exposed' = exposed
      BY <3>2, UnexposesStep DEF WorkerTypeOK
    <3>4. CASE exposed' = exposed
      BY <1>1, <3>1, <3>4 DEF InOrder, Stopped
    <3>5. CASE <<t, i>> \in exposed /\ ok /\ exposed' = exposed \ {<<t, i>>}
      <4>1. i \in 1..(Disks + 1) /\ \A d \in 1..(i - 1) : <<t, d>> \notin exposed
        BY <3>1, <3>5 DEF Ending, TransferTypeOK
      <4>2. ASSUME NEW k \in known, kind[k] = "start_export", NEW d \in 1..Disks,
                   Stopped(k, d)', NEW e \in 1..d
            PROVE  <<k, e>> \notin exposed'
        <5>1. Stopped(k, d) \/ (k = t /\ d = i)
          BY <3>1, <3>5, <4>2 DEF Stopped
        <5>2. CASE Stopped(k, d)
          BY <1>1, <4>2, <5>2 DEF InOrder
        <5>3. CASE k = t /\ d = i
          <6>1. e = i \/ e \in 1..(i - 1)
            BY <4>1, <5>3
          <6>. QED  BY <3>5, <4>1, <5>3, <6>1
        <5>. QED  BY <5>1, <5>2, <5>3
      <4>. QED  BY <3>1, <4>2 DEF InOrder
    <3>. QED  BY <3>3, <3>4, <3>5
  <2>. QED  BY <1>4, <2>1, <2>2, <2>3, <2>4, <2>5, <2>6 DEF TransferStep
<1>. QED  BY <1>2, <1>3, <1>4

\* The end of an export goes on, or is over.
LEMMA EndingStep ==
  ASSUME Shape, ~faults, InOrder, Ending, [Next]_vars
  PROVE  Ending'
<1>. USE DEF Shape, TypeOK
<1>. DEFINE t == target[current]
<1>1. Disks \in Nat
  BY TransferAssumption
<1>2. ASSUME pc # "idle"
      PROVE  /\ current \in Jobs /\ kind'[current] = kind[current] /\ target'[current] = t
             /\ kind[current] = "end_export" => t \in known
  BY <1>2, TaskStep DEF Queued, Handles
<1>3. CASE ~TransferStep /\ ~TimeOut
  <2>1. Quiet
    BY <1>3, QuietStep DEF Ending
  <2>2. CASE UNCHANGED <<pc, ok, rc, current>>
    <3>1. /\ UNCHANGED <<exposed, open, known, lapsed, i, pc, ok, rc, current>>
          /\ pc # "idle" => kind'[current] = kind[current] /\ target'[current] = t
      BY <1>2, <2>1, <2>2 DEF Quiet
    <3>. QED  BY <3>1 DEF Ending, Lapsed, Left, Stopped
  <2>3. CASE /\ pc' \notin {"forest_records", "store_handles", "unexpose"}
             /\ pc' = "report" => kind'[current'] # "end_export"
             /\ pc' \in {"announce", "end_export"} => rc' = "Failed"
    BY <2>3 DEF Ending
  <2>. QED  BY <2>1, <2>2, <2>3 DEF Quiet
<1>4. CASE TimeOut /\ ~TransferStep
  <2>1. PICK h \in exposed : exposed' = exposed \ {h} /\ lapsed' = lapsed \cup {h}
    BY <1>4 DEF TimeOut
  <2>2. UNCHANGED <<open, known, target, i, pc, ok, rc, current, kind>>
    BY <1>4 DEF TimeOut, workerVars, jobs
  <2>3. /\ \A d : <<t, d>> \in exposed' => <<t, d>> \in exposed
        /\ \A d : ~Stopped(t, d) => ~Stopped(t, d)'
        /\ \A n : Lapsed(t, n) => Lapsed(t, n)'
        /\ Left(t) => Left(t)'
    BY <2>1, <2>2 DEF Stopped, Lapsed, Left
  <2>. QED  BY <2>2, <2>3 DEF Ending
<1>5. CASE TransferStep
  <2>. USE DEF Step, jobs
  <2>1. CASE Expose \/ GetTransferRecord \/ StoreHandle \/ Unexpose \/ OpenExportSession
    <3>1. /\ pc' \notin {"announce", "end_export", "unexpose"}
          /\ pc' = "report" => kind'[current'] # "end_export"
      BY <2>1 DEF Expose, Exposes, GetTransferRecord, StoreHandle, Unexpose,
                  OpenExportSession, Places
    <3>. QED  BY <3>1 DEF Ending
  <2>2. CASE ExposeForest \/ GetForestRecord \/ StoreHandles
    <3>1. /\ pc' \notin {"announce", "end_export", "unexpose"}
          /\ pc' = "report" => kind'[current'] # "end_export"
      BY <2>2 DEF ExposeForest, Exposes, GetForestRecord, StoreHandles, Places
    <3>. QED  BY <3>1 DEF Ending
  <2>3. CASE Logout
    <3>1. /\ pc = "end_export" /\ pc' = "unexpose" /\ rc' = "Failed" /\ i' = 1
          /\ current' = current /\ target' = target /\ open' = open \ {t}
      BY <2>3 DEF Logout, Ending
    <3>2. 1..(i' - 1) = {}
      BY <3>1
    <3>. QED  BY <3>1, <3>2 DEF Ending
  <2>4. CASE UnexposeNext
    <3>1. /\ UNCHANGED <<open, lapsed, current, target, kind, known>>
          /\ pc = "unexpose" /\ pc' = (IF i < Disks THEN "unexpose" ELSE "report")
          /\ i' = i + 1 /\ i \in 1..Disks
          /\ kind[current] = "end_export" /\ t \in known /\ kind[t] = "start_export"
      <4>1. i \in 1..(Disks + 1) /\ i <= Disks
        BY <2>4 DEF UnexposeNext, TransferTypeOK, Places
      <4>. QED  BY <1>1, <2>4, <4>1 DEF UnexposeNext, Places, Handles, Queued
    <3>2. t \notin open /\ (ok => \A d \in 1..(i - 1) : <<t, d>> \notin exposed)
      BY <3>1 DEF Ending
    <3>3. PICK isOK \in BOOLEAN : /\ Unexposes(<<t, i>>, isOK)
                                  /\ rc' = IF isOK THEN "NoError" ELSE rc
      BY <2>4 DEF UnexposeNext
    <3>4. CASE /\ <<t, i>> \in exposed /\ ok /\ ok' /\ exposed' = exposed \ {<<t, i>>}
               /\ rc' = "NoError"
      <4>1. \A d \in 1..i : <<t, d>> \notin exposed'
        BY <3>1, <3>2, <3>4
      <4>2. \A d \in (i + 1)..Disks : ~Stopped(t, d)'
        <5>1. SUFFICES ASSUME NEW d \in (i + 1)..Disks PROVE ~Stopped(t, d)'
          OBVIOUS
        <5>2. ~Stopped(t, d)
          BY <1>1, <3>1, <3>4 DEF InOrder
        <5>3. <<t, d>> # <<t, i>>
          BY <3>1
        <5>. QED  BY <3>1, <3>4, <5>2, <5>3 DEF Stopped
      <4>3. i' - 1 = i /\ i' > 1
        BY <3>1
      <4>4. CASE i < Disks
        BY <3>1, <3>2, <3>4, <4>1, <4>2, <4>3, <4>4 DEF Ending
      <4>5. CASE i = Disks
        BY <3>1, <3>2, <4>1, <4>5 DEF Ending, Left
      <4>. QED  BY <1>1, <3>1, <4>4, <4>5
    <3>5. CASE /\ <<t, i>> \notin exposed \/ ~ok
               /\ exposed' = exposed /\ ok' \in BOOLEAN /\ (ok' => ok) /\ rc' = rc
      <4>1. ok => \A d \in 1..i : <<t, d>> \notin exposed
        BY <3>1, <3>2, <3>5
      <4>2. ok /\ rc = "NoError" => i > 1 /\ \A d \in i..Disks : ~Stopped(t, d)
        BY <3>1 DEF Ending
      <4>3. ~ok /\ rc = "NoError" => Lapsed(t, i - 1)
        BY <3>1 DEF Ending
      <4>4. rc = "NoError" => Lapsed(t, i)
        <5>1. CASE ok
          BY <1>1, <3>1, <4>1, <4>2, <5>1 DEF Lapsed, Stopped
        <5>2. CASE ~ok
          BY <3>1, <4>3, <5>2 DEF Lapsed
        <5>. QED  BY <5>1, <5>2
      <4>5. UNCHANGED <<exposed, lapsed>> /\ i' - 1 = i /\ i' > 1
        BY <3>1, <3>5
      <4>6. CASE i < Disks
        <5>1. pc' = "unexpose" /\ current' = current /\ target' = target /\ open' = open
              /\ rc' = rc /\ (ok' => ok)
          BY <3>1, <3>5, <4>6
        <5>2. rc = "NoError" => Lapsed(t, i - 1)'
          BY <4>4, <4>5, <5>1 DEF Lapsed
        <5>3. ok' /\ rc = "NoError" => \A d \in i'..Disks : ~Stopped(t, d)'
          BY <1>1, <3>1, <4>2, <4>5, <5>1 DEF Stopped
        <5>. QED  BY <3>2, <4>1, <4>5, <5>1, <5>2, <5>3 DEF Ending
      <4>7. CASE i = Disks
        <5>1. pc' = "report" /\ current' = current /\ target' = target /\ open' = open
              /\ rc' = rc
          BY <3>1, <3>5, <4>7
        <5>2. rc = "NoError" => Left(t)'
          BY <4>4, <4>5, <4>7, <5>1 DEF Left, Lapsed
        <5>. QED  BY <3>2, <5>1, <5>2 DEF Ending
      <4>. QED  BY <1>1, <3>1, <4>6, <4>7
    <3>. QED
      <4>1. ok \in BOOLEAN
        BY DEF WorkerTypeOK
      <4>. QED  BY <3>3, <3>4, <3>5, <4>1, UnexposesStep
  <2>. QED  BY <1>5, <2>1, <2>2, <2>3, <2>4 DEF TransferStep
<1>. QED  BY <1>3, <1>4, <1>5

\* An export that was reported as ended has left no more than it had.
LEMMA EndedStep ==
  ASSUME Shape, Exports, EndLeavesNothing, [Next]_vars
  PROVE  EndLeavesNothing'
<1>. USE DEF Shape, TypeOK
<1>. SUFFICES ASSUME ~faults', NEW j \in Jobs, Completed(j, "end_export")'
              PROVE  /\ target'[j] \notin open'
                     /\ \A d \in 1..Disks : <<target'[j], d>> \in exposed' =>
                          \E e \in 2..(d - 1) : <<target'[j], e>> \in lapsed'
  BY DEF EndLeavesNothing
<1>. DEFINE t == target[j]
<1>1. Is(task[j], "Completed") \/ (pc = "report" /\ rc = "NoError" /\ j = current)
  BY TaskStep DEF Completed
<1>2. /\ task[j] # Absent /\ ~faults
      /\ kind[j] = "end_export" /\ target'[j] = t
  <2>1. task[j] # Absent
    BY <1>1, RecordedHere DEF Is, Queued
  <2>. QED  BY <2>1, TaskStep DEF Completed
<1>3. /\ t \notin open
      /\ \A d \in 1..Disks : <<t, d>> \in exposed => \E e \in 2..(d - 1) : <<t, e>> \in lapsed
  <2>1. CASE Is(task[j], "Completed")
    BY <1>2, <2>1 DEF EndLeavesNothing, Completed
  <2>2. CASE pc = "report" /\ rc = "NoError" /\ j = current
    <3>1. t \notin open /\ Left(t)
      BY <1>2, <2>2 DEF Exports, Ending
    <3>2. ASSUME NEW e \in 2..Disks, <<t, e>> \in lapsed,
                 \A d \in 1..e : <<t, d>> \notin exposed,
                 NEW d \in 1..Disks, <<t, d>> \in exposed
          PROVE  e \in 2..(d - 1)
      BY <3>2, TransferAssumption
    <3>. QED  BY <3>1, <3>2 DEF Left, Lapsed
  <2>. QED  BY <1>1, <2>1, <2>2
<1>4. /\ t \in known /\ lapsed \subseteq lapsed'
      /\ t \notin open'
      /\ \A d : <<t, d>> \in exposed' => <<t, d>> \in exposed
  <2>1. t \in known
    BY <1>2 DEF Handles
  <2>2. \A d : <<t, d>>[1] = t
    OBVIOUS
  <2>. QED  BY <1>3, <2>1, <2>2, HandleStep
<1>. QED  BY <1>2, <1>3, <1>4

-----------------------------------------------------------------------------
(* A job never goes back                                                   *)

\* A task that has been destroyed, or whose job has not been announced yet; and one
\* whose job has not ended.
Waits(t) == t = Gone \/ Is(t, "New")
Lasts(t) == Waits(t) \/ Is(t, "Running")

\* Up to its turn a job is not announced, and up to its report it has not ended.
Unended ==
    /\ \A n \in DOMAIN pending : Waits(task[pending[n]])
    /\ pc = "announce" => Waits(task[current])
    /\ pc \notin {"idle", "announce", "cleanup", "free", "crashed"} => Lasts(task[current])

\* The announcement takes a task forward, or leaves it as it is.
LEMMA AnnounceTask ==
  ASSUME NEW t, Waits(t), NEW f \in BOOLEAN, NEW o \in ChangeState(t, "Running", FALSE, f)
  PROVE  Proceeds(t, o.task) /\ Lasts(o.task)
<1>1. CASE t = Gone
  BY <1>1 DEF ChangeState, Proceeds, Lasts, Waits
<1>2. CASE t # Gone
  <2>1. Is(t, "New") /\ t \in Tasks /\ t # Absent
    BY <1>2, RecordedHere DEF Waits, Is
  <2>2. o.task = t \/ o.task = [state |-> "Running", error |-> FALSE]
    BY <2>1, ChangeStateResult DEF States
  <2>3. Is([state |-> "Running", error |-> FALSE], "Running")
    BY RecordOf DEF Is, States
  <2>. QED  BY <2>1, <2>2, <2>3 DEF Proceeds, Lasts, Waits
<1>. QED  BY <1>1, <1>2

\* So does the report of a success or of a failure.
LEMMA ReportTask ==
  ASSUME NEW t, Lasts(t), NEW failed \in BOOLEAN, NEW f \in BOOLEAN,
         NEW o \in ChangeState(t, IF failed THEN "Exception" ELSE "Completed", failed, f)
  PROVE  Proceeds(t, o.task)
<1>1. CASE t = Gone
  BY <1>1 DEF ChangeState, Proceeds
<1>2. CASE t # Gone
  <2>1. (Is(t, "New") \/ Is(t, "Running")) /\ t \in Tasks /\ t # Absent
    BY <1>2, RecordedHere DEF Waits, Lasts, Is
  <2>2. (IF failed THEN "Exception" ELSE "Completed") \in States
    BY DEF States
  <2>3. \/ o.task = t
        \/ o.task = [state |-> IF failed THEN "Exception" ELSE "Completed", error |-> failed]
    BY <2>1, <2>2, ChangeStateResult
  <2>. QED  BY <2>1, <2>3 DEF Proceeds
<1>. QED  BY <1>1, <1>2

\* Each step takes every task forward, and what is said of the jobs stays.
LEMMA StepProceeds ==
  ASSUME Shape, Unended, Next
  PROVE  Unended' /\ \A j \in Jobs : Proceeds(task[j], task'[j])
<1>0. /\ \A n \in DOMAIN pending : pending[n] \in Jobs /\ pending[n] # current
      /\ pc # "idle" => current \in Jobs /\ kind[current] \in Kinds
      /\ task \in [Jobs -> Tasks] /\ pending \in Seq(Jobs) /\ faults \in BOOLEAN
  BY DEF Shape, TypeOK, WorkerTypeOK, Queued
<1>1. ASSUME NEW j \in Jobs, NEW c \in Kinds, Submit(j, c)
      PROVE  Unended' /\ \A k \in Jobs : Proceeds(task[k], task'[k])
  <2>. USE <1>1 DEF Submit, Service!Accept
  <2>1. \A n \in DOMAIN pending' :
          pending'[n] = j \/ (n \in DOMAIN pending /\ pending'[n] = pending[n])
    BY <1>0
  <2>2. Waits(NewTask)
    BY RecordOf DEF Waits, Is, NewTask, States
  <2>3. (\A n \in DOMAIN pending : pending[n] # j) /\ (pc # "idle" => current # j)
    BY DEF Shape, Queued
  <2>4. Unended'
    BY <1>0, <2>1, <2>2, <2>3 DEF Unended
  <2>5. \A k \in Jobs : Proceeds(task[k], task'[k])
    BY <1>0 DEF Proceeds
  <2>. QED  BY <2>4, <2>5
<1>2. CASE \E j \in Jobs : ClientCall(j)
  <2>1. PICK j \in Jobs : \E c \in Kinds : Submit(j, c)
    BY <1>2 DEF ClientCall, CopySystem, MigrateVirtualSystem, Connect, Disconnect, Kinds
  <2>. QED  BY <1>1, <2>1
<1>3. CASE TakeJob
  <2>. USE <1>3 DEF TakeJob, Service!Take
  <2>1. /\ current' = pending[1] /\ 1 \in DOMAIN pending
        /\ \A n \in DOMAIN pending' : n + 1 \in DOMAIN pending /\ pending'[n] = pending[n + 1]
    BY <1>0
  <2>2. Unended'
    BY <2>1 DEF Unended
  <2>. QED  BY <2>2 DEF Proceeds
<1>4. CASE Announce
  <2>. USE <1>4 DEF Announce
  <2>1. Waits(task[current]) /\ current \in Jobs
    BY <1>0 DEF Unended
  <2>2. PICK o \in ChangeState(task[current], "Running", FALSE, faults) :
          task' = [task EXCEPT ![current] = o.task]
    OBVIOUS
  <2>3. Proceeds(task[current], o.task) /\ Lasts(o.task)
    BY <1>0, <2>1, <2>2, AnnounceTask
  <2>4. Unended'
    <3>1. pc' \notin {"announce", "cleanup", "free", "crashed"}
      BY <1>0 DEF Kinds
    <3>. QED  BY <1>0, <2>1, <2>2, <2>3, <3>1 DEF Unended
  <2>5. \A j \in Jobs : Proceeds(task[j], task'[j])
    <3>1. \A j \in Jobs \ {current} : task'[j] = task[j]
      BY <1>0, <2>2
    <3>2. task'[current] = o.task
      BY <1>0, <2>1, <2>2
    <3>. QED  BY <2>3, <3>1, <3>2 DEF Proceeds
  <2>. QED  BY <2>4, <2>5
<1>5. CASE Report
  <2>. USE <1>5 DEF Report
  <2>. DEFINE failed == rc # "NoError"
  <2>1. Lasts(task[current]) /\ current \in Jobs
    BY <1>0 DEF Unended
  <2>2. PICK o \in ChangeState(task[current],
                               IF failed THEN "Exception" ELSE "Completed", failed, faults) :
          task' = [task EXCEPT ![current] = o.task]
    <3>1. (IF rc = "NoError" THEN "Completed" ELSE "Exception")
             = (IF failed THEN "Exception" ELSE "Completed")
      OBVIOUS
    <3>. QED  BY <3>1
  <2>3. Proceeds(task[current], o.task)
    <3>1. failed \in BOOLEAN
      OBVIOUS
    <3>. HIDE DEF failed
    <3>. QED  BY <1>0, <2>1, <2>2, <3>1, ReportTask
  <2>4. Unended'
    BY <1>0, <2>1, <2>2 DEF Unended
  <2>5. \A j \in Jobs : Proceeds(task[j], task'[j])
    <3>1. \A j \in Jobs \ {current} : task'[j] = task[j]
      BY <1>0, <2>2
    <3>2. task'[current] = o.task
      BY <1>0, <2>1, <2>2
    <3>. QED  BY <2>3, <3>1, <3>2 DEF Proceeds
  <2>. QED  BY <2>4, <2>5
<1>6. CASE FreeJob
  BY <1>6 DEF FreeJob, Service!Finish, Unended, Proceeds
<1>7. CASE CopyStep \/ MigrationStep \/ TransferStep
  <2>1. /\ UNCHANGED jobs /\ pc' # "announce"
        /\ pc \notin {"idle", "announce", "cleanup", "free", "crashed"}
             \/ pc' \in {"free"}
    BY <1>7 DEF CopyStep, ReadSource, CloneTemplate, GetNewRecord, ProvisionDisks, FullCopy,
         ModifyCopy, RemoveCopyOnError, MigrationStep, ReadChannel, PrepareChannel, PoolMigrate,
         FinishChannel, TransferStep, Expose, Exposes, GetTransferRecord, StoreHandle, Unexpose,
         OpenExportSession, ExposeForest, GetForestRecord, StoreHandles, Logout, UnexposeNext,
         Step
  <2>2. UNCHANGED <<pending, current, task>>
    BY <2>1 DEF jobs
  <2>3. Unended'
    BY <2>1, <2>2 DEF Unended
  <2>. QED  BY <2>2, <2>3 DEF Proceeds
<1>8. ASSUME NEW j \in Jobs, KillJob(j)
      PROVE  Unended' /\ \A k \in Jobs : Proceeds(task[k], task'[k])
  <2>. USE <1>8 DEF KillJob
  <2>1. task' = [task EXCEPT ![j] = Gone] /\ task[j] \in Recorded
    BY DEF Destroy
  <2>2. Waits(Gone) /\ Lasts(Gone)
    BY DEF Waits, Lasts
  <2>3. Unended'
    BY <1>0, <2>1, <2>2 DEF Unended
  <2>4. \A k \in Jobs : Proceeds(task[k], task'[k])
    BY <1>0, <2>1 DEF Proceeds
  <2>. QED  BY <2>3, <2>4
<1>9. CASE SetupChannel \/ TimeOut
  BY <1>9 DEF SetupChannel, TimeOut, workerVars, jobs, Unended, Proceeds
<1>. QED  BY <1>2, <1>3, <1>4, <1>5, <1>6, <1>7, <1>8, <1>9 DEF Next, Worker, Others

\* No task goes back, and none that has ended is written again except to be destroyed,
\* whatever the callback, whatever replies are lost and whoever is killed.
THEOREM NeverBack == Spec => JobsProceed
<1>1. Init => Unended
  BY DEF Init, WorkerInit, Service!Init, Unended
<1>2. Shape /\ Unended /\ [Next]_vars =>
        Unended' /\ [\A j \in Jobs : Proceeds(task[j], task'[j])]_vars
  <2>. SUFFICES ASSUME Shape, Unended, [Next]_vars
                PROVE  Unended' /\ [\A j \in Jobs : Proceeds(task[j], task'[j])]_vars
    OBVIOUS
  <2>1. CASE Next
    BY <2>1, StepProceeds
  <2>2. CASE UNCHANGED vars
    BY <2>2 DEF vars, workerVars, jobs, Unended
  <2>. QED  BY <2>1, <2>2
<1>. QED  BY <1>1, <1>2, ShapeInvariant, PTL DEF Spec, JobsProceed

-----------------------------------------------------------------------------
(* The theorems                                                            *)

\* Type correctness of the jobs of the services.
THEOREM TypeCorrect == Spec => []TypeOK
  BY ShapeInvariant, PTL DEF Shape

\* Completed means done: whatever fails, is lost or killed, a Completed copy is a
\* whole machine, a Completed migration has moved it, and a Completed disconnect has
\* left nothing exposed.
THEOREM CompletedCorrect == Spec => []CompletedMeansDone
  BY WorkInvariant, PTL DEF WorkDone

\* Without faults the channel of a machine that was moved is as it was.
THEOREM ChannelKept == Spec => []MigrationKeepsChannel
<1>1. Init => MigrationKeepsChannel
  BY DEF Init, WorkerInit, MigrationKeepsChannel
<1>2. Shape /\ MigrationKeepsChannel /\ [Next]_vars => MigrationKeepsChannel'
  BY ChannelStep
<1>. QED  BY <1>1, <1>2, ShapeInvariant, PTL DEF Spec

\* Without faults no transfer machine runs that no client can find, unless its job
\* was killed or is at work.
THEOREM ExposedCorrect == Spec => []ExposedIsKnown
<1>1. Init => Shown
  BY DEF Init, WorkerInit, TransferInit, Shown
<1>2. Shape /\ Shown /\ [Next]_vars => Shown'
  BY ShownStep
<1>3. Shown => ExposedIsKnown
  BY DEF Shown, ExposedIsKnown
<1>. QED  BY <1>1, <1>2, <1>3, ShapeInvariant, PTL DEF Spec

\* Without faults a Completed end of an export has closed its session and stopped its
\* machines, but for those after one that had timed out.
THEOREM EndCorrect == Spec => []EndLeavesNothing
<1>1. Init => Exports /\ EndLeavesNothing
  BY DEF Init, WorkerInit, TransferInit, Exports, InOrder, Ending, EndLeavesNothing,
         Completed
<1>2. Shape /\ Exports /\ EndLeavesNothing /\ [Next]_vars
        => Exports' /\ EndLeavesNothing'
  <2>. SUFFICES ASSUME Shape, Exports, EndLeavesNothing, [Next]_vars
                PROVE  Exports' /\ EndLeavesNothing'
    OBVIOUS
  <2>1. faults' = faults
    BY FaultsStep
  <2>. QED  BY <2>1, InOrderStep, EndingStep, EndedStep DEF Exports
<1>. QED  BY <1>1, <1>2, ShapeInvariant, PTL DEF Spec
=============================================================================
