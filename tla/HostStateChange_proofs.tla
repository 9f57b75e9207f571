----------------------- MODULE HostStateChange_proofs -----------------------
(***************************************************************************)
(* Theorems about HostStateChange, for any number of jobs and requests, and*)
(* whatever fails, is killed, or goes off.                                 *)
(***************************************************************************)
EXTENDS HostStateChange, Naturals, TLAPS

\* A job that waits or is served has a task, and the worker a job unless idle.
Queued ==
    /\ \A i \in DOMAIN pending : task[pending[i]] # Absent
    /\ current # NoJob => task[current] # Absent
    /\ pc \notin {"idle", "dead"} => current # NoJob

CallPCs == {"get_enabled", "get_allowed_operations", "host_disable", "remove_key", "add_key",
            "shutdown", "leave", "host_enable", "host_power_on"}

\* Among the calls a session in order means that the Running state was
\* recorded, and so does an error that may be overridden.
Sessions ==
    /\ pc \in CallPCs /\ (ok \/ entered) => current \in announced
    /\ pc = "announce" => ~entered

\* The requests that lead to the calls whose success is the result of the job.
Places ==
    /\ pc = "get_enabled" => request[current] \in {"ShutDown", "Reboot"}
    /\ pc \in {"host_disable", "remove_key", "add_key"}
         => request[current] \in {"Disabled", "ShutDown", "Reboot"}
    /\ pc = "shutdown" => request[current] \in {"ShutDown", "Reboot"}
    /\ pc \in {"get_allowed_operations", "host_power_on"} => request[current] = "Enabled"

\* A result without error is that of a call that was carried out.
Result ==
    pc \notin {"idle", "dead"} /\ rc = "NoError" => effect[current] \cap Goal(request[current]) # {}

\* The key is added to a disabled host, and removed from one to be enabled.
Mode ==
    /\ pc \in {"remove_key", "add_key"} => ~host.enabled
    /\ pc = "host_enable" /\ ok => ~host.mode

IInv == /\ TypeOK /\ Queued /\ Sessions /\ Places /\ Result /\ Mode
        /\ CompletedMeansDone /\ OnlyAnnouncedJobsAct /\ ModeMeansDisabled

-----------------------------------------------------------------------------
(* Lemmas about tasks and calls                                            *)

\* The empty list is a list of jobs, with no item.
LEMMA EmptyList == <<>> \in Seq(Jobs) /\ DOMAIN <<>> = {}
  OBVIOUS

\* A record of a known state is a task that is there.
LEMMA RecordOf ==
  ASSUME NEW st \in States, NEW err \in BOOLEAN
  PROVE  /\ [state |-> st, error |-> err] \in Tasks
         /\ [state |-> st, error |-> err] # Absent
         /\ Is([state |-> st, error |-> err], st)
<1>1. [state |-> st, error |-> err] \in Recorded
  BY DEF Recorded
<1>. QED  BY <1>1, JobTaskAssumption DEF Tasks, Is

\* What job_change_state returns: the task keeps its value or has the new one,
\* the latter whenever the session is in order, and is never absent.
LEMMA ChangeStateResult ==
  ASSUME NEW t \in Tasks, t # Absent, NEW st \in States, NEW err \in BOOLEAN,
         NEW f \in BOOLEAN, NEW o \in ChangeState(t, st, err, f)
  PROVE  /\ o.ok \in BOOLEAN /\ o.task \in Tasks /\ o.task # Absent
         /\ \/ o.task = t /\ o.ok = FALSE
            \/ o.task = [state |-> st, error |-> err]
<1>1. \/ o.task = t /\ o.ok = FALSE
      \/ o.task = [state |-> st, error |-> err] /\ o.ok \in BOOLEAN
  <2>. DEFINE w(k) == [ok |-> k, task |-> [state |-> st, error |-> err]]
  <2>1. o = w(TRUE) \/ o = w(FALSE) \/ o = [ok |-> FALSE, task |-> t]
    BY DEF ChangeState, Written
  <2>2. \A k \in BOOLEAN : w(k).ok = k /\ w(k).task = [state |-> st, error |-> err]
    OBVIOUS
  <2>3. CASE o = [ok |-> FALSE, task |-> t]
    BY <2>3
  <2>. HIDE DEF w
  <2>. QED  BY <2>1, <2>2, <2>3
<1>. QED  BY <1>1, RecordOf

\* A call leaves a host, and changes the fields it is about.
LEMMA Performs ==
  ASSUME NEW h \in Hosts, NEW call \in HostCalls
  PROVE  /\ Perform(call, h) \in Hosts
         /\ call = "host_disable" => ~Perform(call, h).enabled
         /\ call = "host_enable" => Perform(call, h).enabled
         /\ call \notin {"host_disable", "host_enable"} => Perform(call, h).enabled = h.enabled
         /\ call = "remove_key" => ~Perform(call, h).mode
         /\ call = "add_key" => Perform(call, h).mode
         /\ call \notin {"remove_key", "add_key"} => Perform(call, h).mode = h.mode
  BY DEF Perform, Hosts, HostCalls

\* What the worker's step changes by a call.
LEMMA CallResult ==
  ASSUME NEW call \in HostCalls, NEW c \in BOOLEAN, Call(call, c), IInv, current \in Jobs
  PROVE  /\ host' \in Hosts
         /\ effect' \in [Jobs -> SUBSET HostCalls]
         /\ \A j \in Jobs \ {current} : effect'[j] = effect[j]
         /\ effect[current] \subseteq effect'[current]
         /\ c => ok /\ call \in effect'[current]
         /\ effect' # effect => ok
         /\ \/ UNCHANGED host /\ c = FALSE
            \/ ok /\ host' = Perform(call, host)
<1>1. host \in Hosts /\ effect \in [Jobs -> SUBSET HostCalls]
  BY DEF IInv, TypeOK
<1>2. CASE UNCHANGED <<host, effect>> /\ c = FALSE
  BY <1>1, <1>2
<1>3. CASE ok /\ host' = Perform(call, host)
           /\ effect' = [effect EXCEPT ![current] = @ \cup {call}]
  BY <1>1, <1>3, Performs
<1>. QED  BY <1>2, <1>3 DEF Call

\* A call disturbs neither what is said of Completed jobs nor of announced ones.
LEMMA CallKeeps ==
  ASSUME NEW call \in HostCalls, NEW c \in BOOLEAN, Call(call, c), IInv, pc \in CallPCs,
         UNCHANGED <<service, request, task, announced>>
  PROVE  /\ current \in Jobs
         /\ CompletedMeansDone' /\ OnlyAnnouncedJobsAct'
<1>1. current \in Jobs
  BY DEF IInv, TypeOK, Queued, CallPCs
<1>2. /\ effect' \in [Jobs -> SUBSET HostCalls]
      /\ \A j \in Jobs \ {current} : effect'[j] = effect[j]
      /\ effect[current] \subseteq effect'[current]
      /\ effect' # effect => ok
  BY <1>1, CallResult
<1>3. \A j \in Jobs : effect[j] \subseteq effect'[j]
  BY <1>2
<1>4. CompletedMeansDone'
  BY <1>3 DEF IInv, CompletedMeansDone
<1>5. OnlyAnnouncedJobsAct'
  BY <1>2 DEF IInv, OnlyAnnouncedJobsAct, Sessions
<1>. QED  BY <1>1, <1>4, <1>5

-----------------------------------------------------------------------------
(* Every step preserves the invariant                                      *)

\* The inductive invariant holds in the initial state.
LEMMA InitIInv == Init => IInv
<1>. SUFFICES ASSUME Init PROVE IInv
  OBVIOUS
<1>. USE HostStateChangeAssumption, JobTaskAssumption DEF Init, Service!Init
<1>1. pending \in Seq(Jobs) /\ DOMAIN pending = {}
  BY EmptyList
<1>2. TypeOK
  BY <1>1 DEF TypeOK, Tasks, PCs
<1>3. Queued /\ Sessions /\ Places /\ Result /\ Mode
  BY <1>1 DEF Queued, Sessions, Places, Result, Mode, CallPCs
<1>4. CompletedMeansDone /\ OnlyAnnouncedJobsAct
  BY DEF CompletedMeansDone, OnlyAnnouncedJobsAct, Is
<1>5. ModeMeansDisabled
  BY DEF ModeMeansDisabled
<1>. QED  BY <1>2, <1>3, <1>4, <1>5 DEF IInv

\* A request preserves it: the new job is neither served nor Completed.
LEMMA RequestIInv ==
  ASSUME IInv, NEW j \in Jobs, NEW r \in Requests, RequestStateChange(j, r)
  PROVE  IInv'
<1>. USE HostStateChangeAssumption, JobTaskAssumption
     DEF IInv, TypeOK, RequestStateChange, Service!Accept, locals, history
<1>1. pending' \in Seq(Jobs) /\ \A i \in DOMAIN pending' :
         pending'[i] = j \/ (i \in DOMAIN pending /\ pending'[i] = pending[i])
  OBVIOUS
<1>2. NewTask \in Tasks /\ NewTask # Absent /\ ~Is(NewTask, "Completed")
  <2>1. NewTask \in Tasks /\ NewTask # Absent
    BY RecordOf DEF NewTask, States
  <2>. QED  BY <2>1 DEF NewTask, Is
<1>3. TypeOK'
  BY <1>1, <1>2
<1>4. \A i \in DOMAIN pending : pending[i] \in Jobs
  OBVIOUS
<1>5. Queued'
  BY <1>1, <1>2, <1>4 DEF Queued
<1>6. current # j
  BY DEF Queued
<1>7. request'[current] = request[current]
  BY <1>6
<1>8. Sessions' /\ Places' /\ Result' /\ Mode'
  BY <1>7 DEF Sessions, Places, Result, Mode
<1>9. CompletedMeansDone'
  BY <1>2 DEF CompletedMeansDone
<1>10. OnlyAnnouncedJobsAct' /\ ModeMeansDisabled'
  BY DEF OnlyAnnouncedJobsAct, ModeMeansDisabled
<1>. QED  BY <1>3, <1>5, <1>8, <1>9, <1>10

\* The steps of the worker that make no call about the host preserve it.
LEMMA QuietIInv ==
  ASSUME IInv, TakeJob \/ GetEnabled \/ GetAllowedOperations \/ FreeJob
  PROVE  IInv'
<1>. USE HostStateChangeAssumption DEF IInv, TypeOK, history
<1>1. CASE TakeJob
  <2>. USE <1>1 DEF TakeJob, Service!Take
  <2>1. Head(pending) \in Jobs /\ Tail(pending) \in Seq(Jobs)
    OBVIOUS
  <2>2. /\ task[Head(pending)] # Absent
        /\ \A i \in DOMAIN pending' : task[pending'[i]] # Absent
    BY DEF Queued
  <2>3. TypeOK'
    BY <2>1 DEF PCs, Hosts
  <2>4. Queued'
    BY <2>1, <2>2 DEF Queued
  <2>5. Sessions' /\ Places' /\ Result' /\ Mode'
    BY DEF Sessions, Places, Result, Mode, CallPCs
  <2>6. CompletedMeansDone' /\ OnlyAnnouncedJobsAct' /\ ModeMeansDisabled'
    BY DEF CompletedMeansDone, OnlyAnnouncedJobsAct, ModeMeansDisabled
  <2>. QED  BY <2>3, <2>4, <2>5, <2>6
<1>2. CASE GetEnabled
  <2>. USE <1>2 DEF GetEnabled, service
  <2>1. TypeOK'
    BY DEF PCs, Calls, Hosts
  <2>2. Queued' /\ Result' /\ Mode'
    BY DEF Queued, Result, Mode
  <2>3. Sessions'
    BY DEF Sessions, Calls, CallPCs
  <2>4. Places'
    BY DEF Places
  <2>5. CompletedMeansDone' /\ OnlyAnnouncedJobsAct' /\ ModeMeansDisabled'
    BY DEF CompletedMeansDone, OnlyAnnouncedJobsAct, ModeMeansDisabled
  <2>. QED  BY <2>1, <2>2, <2>3, <2>4, <2>5
<1>3. CASE GetAllowedOperations
  <2>. USE <1>3 DEF GetAllowedOperations, service
  <2>1. TypeOK'
    BY DEF PCs, Calls
  <2>2. Queued' /\ Result' /\ Mode'
    BY DEF Queued, Result, Mode
  <2>3. Sessions'
    BY DEF Sessions, Calls, CallPCs
  <2>4. Places'
    BY DEF Places
  <2>5. CompletedMeansDone' /\ OnlyAnnouncedJobsAct' /\ ModeMeansDisabled'
    BY DEF CompletedMeansDone, OnlyAnnouncedJobsAct, ModeMeansDisabled
  <2>. QED  BY <2>1, <2>2, <2>3, <2>4, <2>5
<1>4. CASE FreeJob
  <2>. USE <1>4 DEF FreeJob, Service!Finish
  <2>1. TypeOK'
    BY DEF PCs
  <2>2. Queued' /\ Sessions' /\ Places' /\ Result' /\ Mode'
    BY DEF Queued, Sessions, Places, Result, Mode, CallPCs
  <2>3. CompletedMeansDone' /\ OnlyAnnouncedJobsAct' /\ ModeMeansDisabled'
    BY DEF CompletedMeansDone, OnlyAnnouncedJobsAct, ModeMeansDisabled
  <2>. QED  BY <2>1, <2>2, <2>3
<1>. QED  BY <1>1, <1>2, <1>3, <1>4

\* The update to Running preserves it: in order is only the session of a job
\* whose task is there.
LEMMA AnnounceIInv == ASSUME IInv, Announce PROVE IInv'
<1>. USE DEF IInv, TypeOK, Announce, service
<1>1. current \in Jobs /\ task[current] \in Tasks /\ task[current] # Absent
  BY DEF Queued
<1>2. PICK o \in ChangeState(task[current], "Running", FALSE, faults) :
        /\ ok' = o.ok
        /\ task' = [task EXCEPT ![current] = o.task]
        /\ announced' = IF Is(o.task, "Running") THEN announced \cup {current} ELSE announced
  OBVIOUS
<1>3. /\ o.ok \in BOOLEAN /\ o.task \in Tasks /\ o.task # Absent
      /\ \/ o.task = task[current] /\ o.ok = FALSE
         \/ o.task = [state |-> "Running", error |-> FALSE]
  BY <1>1, ChangeStateResult DEF States
<1>4. /\ Is([state |-> "Running", error |-> FALSE], "Running")
      /\ ~Is([state |-> "Running", error |-> FALSE], "Completed")
  <2>1. Is([state |-> "Running", error |-> FALSE], "Running")
    BY RecordOf DEF States
  <2>. QED  BY <2>1 DEF Is
<1>5. TypeOK'
  BY <1>1, <1>2, <1>3 DEF PCs
<1>6. Queued'
  BY <1>1, <1>2, <1>3 DEF Queued
<1>7. Sessions'
  BY <1>2, <1>3, <1>4 DEF Sessions
<1>8. Places' /\ Result' /\ Mode'
  BY DEF Places, Result, Mode
<1>9. CompletedMeansDone'
  BY <1>1, <1>2, <1>3, <1>4 DEF CompletedMeansDone
<1>10. OnlyAnnouncedJobsAct' /\ ModeMeansDisabled'
  BY <1>2 DEF OnlyAnnouncedJobsAct, ModeMeansDisabled
<1>. QED  BY <1>5, <1>6, <1>7, <1>8, <1>9, <1>10

\* The report preserves it: it is Completed for a result without error only.
LEMMA ReportIInv == ASSUME IInv, Report PROVE IInv'
<1>. USE DEF IInv, TypeOK, Report, service, history
<1>1. current \in Jobs /\ task[current] \in Tasks /\ task[current] # Absent
  BY DEF Queued
<1>. DEFINE SomeTask ==
      \E t \in Tasks :
        /\ t # Absent /\ task' = [task EXCEPT ![current] = t] /\ ok' \in BOOLEAN
        /\ Is(t, "Completed") => t = task[current] \/ rc = "NoError"
<1>2. ASSUME rc = "NoError" PROVE SomeTask
  <2>1. PICK o \in ChangeState(task[current], "Completed", FALSE, faults) :
          ok' = o.ok /\ task' = [task EXCEPT ![current] = o.task]
    <3>1. (IF rc = "NoError" THEN "Completed" ELSE "Exception") = "Completed"
          /\ (rc # "NoError") = FALSE
      BY <1>2
    <3>. QED  BY <1>2, <3>1
  <2>2. o.ok \in BOOLEAN /\ o.task \in Tasks /\ o.task # Absent
    BY <1>1, <2>1, ChangeStateResult DEF States
  <2>. QED  BY <1>2, <2>1, <2>2
<1>3. ASSUME rc # "NoError" PROVE SomeTask
  <2>1. PICK o \in ChangeState(task[current], "Exception", TRUE, faults) :
          ok' = o.ok /\ task' = [task EXCEPT ![current] = o.task]
    <3>1. (IF rc = "NoError" THEN "Completed" ELSE "Exception") = "Exception"
          /\ (rc # "NoError") = TRUE
      BY <1>3
    <3>. QED  BY <1>3, <3>1
  <2>2. /\ o.ok \in BOOLEAN /\ o.task \in Tasks /\ o.task # Absent
        /\ \/ o.task = task[current] /\ o.ok = FALSE
           \/ o.task = [state |-> "Exception", error |-> TRUE]
    BY <1>1, <2>1, ChangeStateResult DEF States
  <2>. QED  BY <1>3, <2>1, <2>2 DEF Is
<1>4. PICK t \in Tasks :
        /\ t # Absent /\ task' = [task EXCEPT ![current] = t] /\ ok' \in BOOLEAN
        /\ Is(t, "Completed") => t = task[current] \/ rc = "NoError"
  BY <1>2, <1>3
<1>5. TypeOK'
  BY <1>1, <1>4 DEF PCs
<1>6. Queued'
  BY <1>1, <1>4 DEF Queued
<1>7. Sessions' /\ Places' /\ Result' /\ Mode'
  BY <1>4 DEF Sessions, Places, Result, Mode, CallPCs
<1>8. CompletedMeansDone'
  BY <1>1, <1>4 DEF CompletedMeansDone, Result
<1>9. OnlyAnnouncedJobsAct' /\ ModeMeansDisabled'
  BY DEF OnlyAnnouncedJobsAct, ModeMeansDisabled
<1>. QED  BY <1>5, <1>6, <1>7, <1>8, <1>9

\* The calls about the host preserve it.
LEMMA CallsIInv ==
  ASSUME IInv,
         DisableHost \/ RemoveOldKey \/ AddKey \/ ShutDown \/ RemoveKey \/ EnableHost \/ PowerOn
  PROVE  IInv'
<1>. USE DEF CallPCs, service
<1>1. CASE DisableHost
  <2>. USE <1>1 DEF DisableHost
  <2>1. PICK c \in BOOLEAN :
          /\ Call("host_disable", c)
          /\ ok' = c
          /\ rc' = IF c /\ request[current] = "Disabled" THEN "NoError" ELSE rc
          /\ pc' = IF c THEN "remove_key" ELSE IF request[current] = "Disabled"
                                                THEN "report" ELSE "shutdown"
    OBVIOUS
  <2>2. /\ current \in Jobs /\ CompletedMeansDone' /\ OnlyAnnouncedJobsAct'
    BY <2>1, CallKeeps DEF HostCalls
  <2>3. /\ host' \in Hosts /\ effect' \in [Jobs -> SUBSET HostCalls]
        /\ effect[current] \subseteq effect'[current]
        /\ c => ok /\ "host_disable" \in effect'[current]
        /\ \/ UNCHANGED host /\ c = FALSE
           \/ ok /\ host' = Perform("host_disable", host)
    BY <2>1, <2>2, CallResult DEF HostCalls
  <2>4. \/ UNCHANGED host /\ c = FALSE
        \/ ~host'.enabled /\ host'.mode = host.mode
    <3>1. ~Perform("host_disable", host).enabled /\ Perform("host_disable", host).mode = host.mode
      BY Performs DEF HostCalls, IInv, TypeOK
    <3>. QED  BY <2>3, <3>1
  <2>5. TypeOK'
    BY <2>1, <2>3 DEF IInv, TypeOK, PCs
  <2>6. Queued' /\ Sessions'
    BY <2>1, <2>3 DEF IInv, Queued, Sessions
  <2>7. Places' /\ Mode' /\ ModeMeansDisabled'
    BY <2>1, <2>4 DEF IInv, Places, Mode, ModeMeansDisabled
  <2>8. Result'
    BY <2>1, <2>3 DEF IInv, Result, Goal
  <2>. QED  BY <2>2, <2>5, <2>6, <2>7, <2>8 DEF IInv
<1>2. CASE RemoveOldKey
  <2>. USE <1>2 DEF RemoveOldKey
  <2>1. PICK c \in BOOLEAN :
          Call("remove_key", c) /\ ok' = c
    OBVIOUS
  <2>2. /\ current \in Jobs /\ CompletedMeansDone' /\ OnlyAnnouncedJobsAct'
    BY <2>1, CallKeeps DEF HostCalls
  <2>3. /\ host' \in Hosts /\ effect' \in [Jobs -> SUBSET HostCalls]
        /\ effect[current] \subseteq effect'[current]
        /\ c => ok /\ "remove_key" \in effect'[current]
        /\ \/ UNCHANGED host /\ c = FALSE
           \/ ok /\ host' = Perform("remove_key", host)
    BY <2>1, <2>2, CallResult DEF HostCalls
  <2>4. \/ UNCHANGED host /\ c = FALSE
        \/ ok /\ ~host'.mode /\ host'.enabled = host.enabled
    <3>1. ~Perform("remove_key", host).mode /\ Perform("remove_key", host).enabled = host.enabled
      BY Performs DEF HostCalls, IInv, TypeOK
    <3>. QED  BY <2>3, <3>1
  <2>5. TypeOK'
    BY <2>1, <2>3 DEF IInv, TypeOK, PCs
  <2>6. Queued' /\ Sessions'
    BY <2>1, <2>3 DEF IInv, Queued, Sessions
  <2>7. Places' /\ Mode' /\ ModeMeansDisabled'
    BY <2>1, <2>4 DEF IInv, Places, Mode, ModeMeansDisabled
  <2>8. Result'
    BY <2>1, <2>3 DEF IInv, Result
  <2>. QED  BY <2>2, <2>5, <2>6, <2>7, <2>8 DEF IInv
<1>3. CASE AddKey
  <2>. USE <1>3 DEF AddKey
  <2>1. PICK c \in BOOLEAN :
          Call("add_key", c) /\ ok' = c
    OBVIOUS
  <2>2. /\ current \in Jobs /\ CompletedMeansDone' /\ OnlyAnnouncedJobsAct'
    BY <2>1, CallKeeps DEF HostCalls
  <2>3. /\ host' \in Hosts /\ effect' \in [Jobs -> SUBSET HostCalls]
        /\ effect[current] \subseteq effect'[current]
        /\ c => ok /\ "add_key" \in effect'[current]
        /\ \/ UNCHANGED host /\ c = FALSE
           \/ ok /\ host' = Perform("add_key", host)
    BY <2>1, <2>2, CallResult DEF HostCalls
  <2>4. \/ UNCHANGED host /\ c = FALSE
        \/ ok /\ host'.mode /\ host'.enabled = host.enabled
    <3>1. Perform("add_key", host).mode /\ Perform("add_key", host).enabled = host.enabled
      BY Performs DEF HostCalls, IInv, TypeOK
    <3>. QED  BY <2>3, <3>1
  <2>5. TypeOK'
    BY <2>1, <2>3 DEF IInv, TypeOK, PCs
  <2>6. Queued' /\ Sessions'
    BY <2>1, <2>3 DEF IInv, Queued, Sessions
  <2>7. Places' /\ Mode' /\ ModeMeansDisabled'
    BY <2>1, <2>4 DEF IInv, Places, Mode, ModeMeansDisabled
  <2>8. Result'
    BY <2>1, <2>3 DEF IInv, Result
  <2>. QED  BY <2>2, <2>5, <2>6, <2>7, <2>8 DEF IInv
<1>5. CASE RemoveKey
  <2>. USE <1>5 DEF RemoveKey
  <2>1. PICK c \in BOOLEAN :
          Call("remove_key", c) /\ ok' = c
    OBVIOUS
  <2>2. /\ current \in Jobs /\ CompletedMeansDone' /\ OnlyAnnouncedJobsAct'
    BY <2>1, CallKeeps DEF HostCalls
  <2>3. /\ host' \in Hosts /\ effect' \in [Jobs -> SUBSET HostCalls]
        /\ effect[current] \subseteq effect'[current]
        /\ c => ok /\ "remove_key" \in effect'[current]
        /\ \/ UNCHANGED host /\ c = FALSE
           \/ ok /\ host' = Perform("remove_key", host)
    BY <2>1, <2>2, CallResult DEF HostCalls
  <2>4. \/ UNCHANGED host /\ c = FALSE
        \/ ok /\ ~host'.mode /\ host'.enabled = host.enabled
    <3>1. ~Perform("remove_key", host).mode /\ Perform("remove_key", host).enabled = host.enabled
      BY Performs DEF HostCalls, IInv, TypeOK
    <3>. QED  BY <2>3, <3>1
  <2>5. TypeOK'
    BY <2>1, <2>3 DEF IInv, TypeOK, PCs
  <2>6. Queued' /\ Sessions'
    BY <2>1, <2>3 DEF IInv, Queued, Sessions
  <2>7. Places' /\ Mode' /\ ModeMeansDisabled'
    BY <2>1, <2>4 DEF IInv, Places, Mode, ModeMeansDisabled
  <2>8. Result'
    BY <2>1, <2>3 DEF IInv, Result
  <2>. QED  BY <2>2, <2>5, <2>6, <2>7, <2>8 DEF IInv
<1>6. CASE EnableHost
  <2>. USE <1>6 DEF EnableHost
  <2>1. PICK c \in BOOLEAN :
          /\ Call("host_enable", c)
          /\ rc' = IF c /\ request[current] = "Enabled" THEN "NoError" ELSE rc
          /\ ok' = (c /\ ~(entered /\ rc = "Failed"))
    OBVIOUS
  <2>2. /\ current \in Jobs /\ CompletedMeansDone' /\ OnlyAnnouncedJobsAct'
    BY <2>1, CallKeeps DEF HostCalls
  <2>3. /\ host' \in Hosts /\ effect' \in [Jobs -> SUBSET HostCalls]
        /\ effect[current] \subseteq effect'[current]
        /\ c => ok /\ "host_enable" \in effect'[current]
        /\ \/ UNCHANGED host /\ c = FALSE
           \/ ok /\ host' = Perform("host_enable", host)
    BY <2>1, <2>2, CallResult DEF HostCalls
  <2>4. \/ UNCHANGED host /\ c = FALSE
        \/ ok /\ host'.enabled /\ host'.mode = host.mode
    <3>1. Perform("host_enable", host).enabled /\ Perform("host_enable", host).mode = host.mode
      BY Performs DEF HostCalls, IInv, TypeOK
    <3>. QED  BY <2>3, <3>1
  <2>5. TypeOK'
    BY <2>1, <2>3 DEF IInv, TypeOK, PCs
  <2>6. Queued' /\ Sessions'
    BY <2>1, <2>3 DEF IInv, Queued, Sessions
  <2>7. Places' /\ Mode' /\ ModeMeansDisabled'
    BY <2>1, <2>4 DEF IInv, Places, Mode, ModeMeansDisabled
  <2>8. Result'
    BY <2>1, <2>3 DEF IInv, Result, Goal
  <2>. QED  BY <2>2, <2>5, <2>6, <2>7, <2>8 DEF IInv
<1>7. CASE PowerOn
  <2>. USE <1>7 DEF PowerOn
  <2>1. PICK c \in BOOLEAN :
          /\ Call("host_power_on", c)
          /\ rc' = IF c THEN "NoError" ELSE rc
          /\ ok' = c
    OBVIOUS
  <2>2. /\ current \in Jobs /\ CompletedMeansDone' /\ OnlyAnnouncedJobsAct'
    BY <2>1, CallKeeps DEF HostCalls
  <2>3. /\ host' \in Hosts /\ effect' \in [Jobs -> SUBSET HostCalls]
        /\ effect[current] \subseteq effect'[current]
        /\ c => ok /\ "host_power_on" \in effect'[current]
        /\ \/ UNCHANGED host /\ c = FALSE
           \/ ok /\ host' = Perform("host_power_on", host)
    BY <2>1, <2>2, CallResult DEF HostCalls
  <2>4. \/ UNCHANGED host /\ c = FALSE
        \/ ok /\ host'.enabled = host.enabled /\ host'.mode = host.mode
    <3>1. /\ Perform("host_power_on", host).enabled = host.enabled
          /\ Perform("host_power_on", host).mode = host.mode
      BY Performs DEF HostCalls, IInv, TypeOK
    <3>. QED  BY <2>3, <3>1
  <2>5. TypeOK'
    BY <2>1, <2>3 DEF IInv, TypeOK, PCs
  <2>6. Queued' /\ Sessions'
    BY <2>1, <2>3 DEF IInv, Queued, Sessions
  <2>7. Places' /\ Mode' /\ ModeMeansDisabled'
    BY <2>1, <2>4 DEF IInv, Places, Mode, ModeMeansDisabled
  <2>8. Result'
    BY <2>1, <2>3 DEF IInv, Result, Goal, Places
  <2>. QED  BY <2>2, <2>5, <2>6, <2>7, <2>8 DEF IInv
<1>4. CASE ShutDown
  <2>. USE <1>4 DEF ShutDown
  <2>1. PICK c \in BOOLEAN :
          /\ Call(ShutdownCall, c)
          /\ rc' = IF c THEN "NoError" ELSE rc
          /\ ok' = (c \/ entered)
    OBVIOUS
  <2>2. /\ ShutdownCall \in {"host_shutdown", "host_reboot"}
        /\ request[current] = "Reboot" <=> ShutdownCall = "host_reboot"
    BY DEF ShutdownCall
  <2>3. /\ current \in Jobs /\ CompletedMeansDone' /\ OnlyAnnouncedJobsAct'
    BY <2>1, <2>2, CallKeeps DEF HostCalls
  <2>4. /\ host' \in Hosts /\ effect' \in [Jobs -> SUBSET HostCalls]
        /\ effect[current] \subseteq effect'[current]
        /\ c => ok /\ ShutdownCall \in effect'[current]
        /\ \/ UNCHANGED host /\ c = FALSE
           \/ ok /\ host' = Perform(ShutdownCall, host)
    BY <2>1, <2>2, <2>3, CallResult DEF HostCalls
  <2>5. host'.enabled = host.enabled /\ host'.mode = host.mode
    <3>1. /\ Perform(ShutdownCall, host).enabled = host.enabled
          /\ Perform(ShutdownCall, host).mode = host.mode
      BY <2>2, Performs DEF HostCalls, IInv, TypeOK
    <3>. QED  BY <2>4, <3>1
  <2>6. TypeOK'
    BY <2>1, <2>4 DEF IInv, TypeOK, PCs
  <2>7. Queued' /\ Sessions'
    BY <2>1, <2>4 DEF IInv, Queued, Sessions
  <2>8. Places' /\ Mode' /\ ModeMeansDisabled'
    BY <2>1, <2>5 DEF IInv, Places, Mode, ModeMeansDisabled
  <2>9. Result'
    <3>1. request[current] \in {"ShutDown", "Reboot"}
      BY DEF IInv, Places
    <3>2. c => effect'[current] \cap Goal(request[current]) # {}
      BY <2>2, <2>4, <3>1 DEF Goal
    <3>. QED  BY <2>1, <2>4, <3>2 DEF IInv, Result
  <2>. QED  BY <2>3, <2>6, <2>7, <2>8, <2>9 DEF IInv
<1>. QED  BY <1>1, <1>2, <1>3, <1>4, <1>5, <1>6, <1>7

\* Clients that kill jobs, and the host, preserve it.
LEMMA OthersIInv ==
  ASSUME IInv, (\E j \in Jobs : KillJob(j)) \/ HostStops \/ HostStarts
  PROVE  IInv'
<1>. USE DEF IInv, TypeOK, service, locals, history
<1>1. CASE \E j \in Jobs : KillJob(j)
  <2>1. PICK j \in Jobs : KillJob(j)
    BY <1>1
  <2>2. task' = [task EXCEPT ![j] = Gone]
    BY <2>1 DEF KillJob, Destroy
  <2>3. Gone \in Tasks /\ Gone # Absent /\ ~Is(Gone, "Completed")
    BY JobTaskAssumption DEF Tasks, Is
  <2>4. TypeOK'
    BY <2>1, <2>2, <2>3 DEF KillJob
  <2>5. \A i \in DOMAIN pending : pending[i] \in Jobs
    OBVIOUS
  <2>6. Queued'
    BY <2>1, <2>2, <2>3, <2>5 DEF Queued, KillJob
  <2>7. Sessions' /\ Places' /\ Result' /\ Mode'
    BY <2>1 DEF Sessions, Places, Result, Mode, KillJob
  <2>8. CompletedMeansDone'
    BY <2>1, <2>2, <2>3 DEF CompletedMeansDone, KillJob
  <2>9. OnlyAnnouncedJobsAct' /\ ModeMeansDisabled'
    BY <2>1 DEF OnlyAnnouncedJobsAct, ModeMeansDisabled, KillJob
  <2>. QED  BY <2>4, <2>6, <2>7, <2>8, <2>9
<1>2. CASE HostStops \/ HostStarts
  <2>1. /\ host' \in Hosts /\ host'.enabled = host.enabled /\ host'.mode = host.mode
        /\ pc' \in {pc, "dead"}
        /\ UNCHANGED <<service, request, task, faults, ok, rc, entered, history>>
    BY <1>2 DEF HostStops, HostStarts, Hosts
  <2>2. TypeOK'
    BY <2>1 DEF PCs
  <2>3. Queued' /\ Result'
    BY <2>1 DEF Queued, Result
  <2>4. Sessions' /\ Places' /\ Mode'
    BY <2>1 DEF Sessions, Places, Mode, CallPCs
  <2>5. CompletedMeansDone' /\ OnlyAnnouncedJobsAct' /\ ModeMeansDisabled'
    BY <2>1 DEF CompletedMeansDone, OnlyAnnouncedJobsAct, ModeMeansDisabled
  <2>. QED  BY <2>2, <2>3, <2>4, <2>5
<1>. QED  BY <1>1, <1>2

\* IInv is an invariant.
THEOREM Inductive == Spec => []IInv
<1>1. IInv /\ [Next]_vars => IInv'
  <2>. SUFFICES ASSUME IInv, [Next]_vars PROVE IInv'
    OBVIOUS
  <2>1. CASE Next
    BY <2>1, RequestIInv, QuietIInv, AnnounceIInv, ReportIInv, CallsIInv, OthersIInv
       DEF Next, Worker
  <2>2. CASE UNCHANGED vars
    <3>. USE <2>2 DEF vars, service, locals, history, IInv
    <3>1. TypeOK' /\ Queued'
      BY DEF TypeOK, Queued
    <3>2. Sessions' /\ Places' /\ Result' /\ Mode'
      BY DEF Sessions, Places, Result, Mode
    <3>3. CompletedMeansDone' /\ OnlyAnnouncedJobsAct' /\ ModeMeansDisabled'
      BY DEF CompletedMeansDone, OnlyAnnouncedJobsAct, ModeMeansDisabled
    <3>. QED  BY <3>1, <3>2, <3>3
  <2>. QED  BY <2>1, <2>2
<1>. QED  BY <1>1, InitIInv, PTL DEF Spec

-----------------------------------------------------------------------------
(* A shutdown that fails leaves the host as it was                         *)

Leaves == {"host_shutdown", "host_reboot"}
Downward == request[current] \in {"ShutDown", "Reboot"}

\* No call fails, and no job has shut the host down.
Usual == ~faults /\ \A j \in Jobs : effect[j] \cap Leaves = {}

\* The host is there.  Until the job enters maintenance mode the host is as it
\* found it, and once it leaves it again its session is in order.
Restoring ==
    Usual => /\ ~host.leaving /\ ~host.off
             /\ (\/ pc \in {"announce", "get_enabled"}
                 \/ pc = "shutdown" /\ ~entered) /\ before[current] => host.enabled
             /\ pc \in {"host_disable", "remove_key", "add_key"} /\ Downward => entered
             /\ pc \in {"leave", "host_enable"} /\ Downward => ok
             /\ FailureRestores

\* It holds in the initial state.
LEMMA InitRestoring == Init => Restoring
  BY DEF Init, Restoring, FailureRestores

\* What a call tells of the host, if no job has shut it down afterwards either:
\* the host is still there, and a shutdown was refused.
LEMMA UsualCall ==
  ASSUME IInv, Restoring, current \in Jobs, UNCHANGED faults, Usual',
         NEW call \in HostCalls, NEW c \in BOOLEAN, Call(call, c)
  PROVE  /\ Usual
         /\ ~host'.leaving /\ ~host'.off
         /\ call \in Leaves => UNCHANGED host /\ c = FALSE
<1>1. /\ host \in Hosts /\ effect \in [Jobs -> SUBSET HostCalls]
      /\ \A j \in Jobs \ {current} : effect'[j] = effect[j]
      /\ effect[current] \subseteq effect'[current]
  BY CallResult DEF IInv, TypeOK
<1>2. Usual
  BY <1>1 DEF Usual
<1>3. ~host.leaving /\ ~host.off
  BY <1>2 DEF Restoring
<1>4. CASE UNCHANGED host /\ c = FALSE
  BY <1>2, <1>3, <1>4
<1>5. CASE /\ host' = Perform(call, host)
           /\ effect' = [effect EXCEPT ![current] = @ \cup {call}]
  <2>1. call \in effect'[current]
    BY <1>1, <1>5
  <2>2. call \notin Leaves
    BY <2>1 DEF Usual
  <2>3. ~host'.leaving /\ ~host'.off
    BY <1>1, <1>3, <1>5, <2>2 DEF Perform, Hosts, HostCalls, Leaves
  <2>. QED  BY <1>2, <2>2, <2>3
<1>. QED  BY <1>4, <1>5 DEF Call

\* The calls that leave maintenance mode succeed with a session in order.
LEMMA LeavingWorks ==
  ASSUME NEW call \in {"remove_key", "host_enable"}, NEW c \in BOOLEAN, Call(call, c),
         ok, ~faults, ~host.off
  PROVE  c = TRUE /\ host' = Perform(call, host)
  BY DEF Call, Allowed, MayRefuse

\* The steps of the worker that make no call about the host.
LEMMA QuietRestoring ==
  ASSUME IInv, Restoring,
         TakeJob \/ Announce \/ GetEnabled \/ GetAllowedOperations \/ Report \/ FreeJob
  PROVE  Restoring'
<1>. SUFFICES ASSUME Usual' PROVE Restoring'
  BY DEF Restoring
<1>0. UNCHANGED <<faults, effect, host>>
  <2>1. CASE TakeJob \/ Announce \/ GetEnabled
    BY <2>1 DEF TakeJob, Announce, GetEnabled, history
  <2>2. CASE GetAllowedOperations \/ Report \/ FreeJob
    BY <2>2 DEF GetAllowedOperations, Report, FreeJob, history
  <2>. QED  BY <2>1, <2>2
<1>1. Usual /\ UNCHANGED host
  BY <1>0 DEF Usual
<1>2. ~host.leaving /\ ~host.off
  BY <1>1 DEF Restoring
<1>. USE <1>1, <1>2 DEF Restoring, FailureRestores
<1>3. CASE TakeJob
  <2>1. current' \in Jobs /\ before' = [before EXCEPT ![current'] = host.enabled]
    BY <1>3 DEF TakeJob, Service!Take, IInv, TypeOK
  <2>2. before'[current'] = host.enabled
    BY <2>1 DEF IInv, TypeOK
  <2>. QED  BY <1>3, <2>2 DEF TakeJob
<1>4. CASE Announce
  <2>1. UNCHANGED <<before, current, request, entered>> /\ pc = "announce"
    BY <1>4 DEF Announce, service
  <2>2. /\ pc' \in {"host_disable", "get_enabled", "get_allowed_operations", "report"}
        /\ pc' \in {"host_disable", "report"} => ~Downward
    BY <1>4 DEF Announce, Downward
  <2>. QED  BY <2>1, <2>2 DEF Downward
<1>5. CASE GetEnabled
  <2>1. UNCHANGED <<before, current, request>> /\ pc = "get_enabled"
    BY <1>5 DEF GetEnabled, service, history
  <2>2. \/ entered' /\ pc' = "host_disable"
        \/ ~entered' /\ pc' = "shutdown"
    BY <1>5 DEF GetEnabled
  <2>. QED  BY <2>1, <2>2 DEF Downward
<1>6. CASE GetAllowedOperations
  <2>1. UNCHANGED <<current, request>> /\ ~Downward
    BY <1>6 DEF GetAllowedOperations, service, IInv, Places, Downward
  <2>2. pc' \in {"report", "host_power_on", "leave"}
    BY <1>6 DEF GetAllowedOperations
  <2>. QED  BY <2>1, <2>2 DEF Downward
<1>7. CASE Report \/ FreeJob
  BY <1>7 DEF Report, FreeJob
<1>. QED  BY <1>3, <1>4, <1>5, <1>6, <1>7

\* The calls about the host.
LEMMA CallsRestoring ==
  ASSUME IInv, Restoring,
         DisableHost \/ RemoveOldKey \/ AddKey \/ ShutDown \/ RemoveKey \/ EnableHost \/ PowerOn
  PROVE  Restoring'
<1>. SUFFICES ASSUME Usual' PROVE Restoring'
  BY DEF Restoring
<1>0. /\ current \in Jobs
      /\ UNCHANGED <<faults, before, current, request, entered>>
  BY DEF IInv, TypeOK, Queued, DisableHost, RemoveOldKey, AddKey, ShutDown, RemoveKey,
         EnableHost, PowerOn, service
<1>1. UNCHANGED Downward
  BY <1>0 DEF Downward
<1>. USE <1>0, <1>1
<1>2. CASE DisableHost
  <2>1. PICK c \in BOOLEAN :
          /\ Call("host_disable", c)
          /\ pc' = IF c THEN "remove_key" ELSE IF request[current] = "Disabled"
                                                THEN "report" ELSE "shutdown"
    BY <1>2 DEF DisableHost
  <2>2. Usual /\ ~host'.leaving /\ ~host'.off
    BY <2>1, UsualCall DEF HostCalls
  <2>3. /\ pc = "host_disable" /\ pc' \in {"remove_key", "report", "shutdown"}
        /\ pc' = "report" => ~Downward
        /\ pc' = "shutdown" => Downward
    BY <1>2, <2>1 DEF DisableHost, IInv, Places, Downward
  <2>. QED  BY <2>2, <2>3 DEF Restoring, FailureRestores, Downward
<1>3. CASE RemoveOldKey \/ AddKey
  <2>1. PICK c \in BOOLEAN : Call("remove_key", c) \/ Call("add_key", c)
    BY <1>3 DEF RemoveOldKey, AddKey
  <2>2. Usual /\ ~host'.leaving /\ ~host'.off
    BY <2>1, UsualCall DEF HostCalls
  <2>3. /\ pc \in {"remove_key", "add_key"} /\ pc' \in {"add_key", "report", "shutdown"}
        /\ pc' = "report" => ~Downward
        /\ pc' = "shutdown" => Downward
    BY <1>3 DEF RemoveOldKey, AddKey, IInv, Places, Downward
  <2>. QED  BY <2>2, <2>3 DEF Restoring, FailureRestores, Downward
<1>4. CASE ShutDown
  <2>1. PICK c \in BOOLEAN :
          /\ Call(ShutdownCall, c)
          /\ ok' = (c \/ entered)
          /\ pc' = IF entered THEN "leave" ELSE "report"
    BY <1>4 DEF ShutDown
  <2>2. ShutdownCall \in HostCalls /\ ShutdownCall \in Leaves
    BY DEF ShutdownCall, HostCalls, Leaves
  <2>3. Usual /\ ~host'.leaving /\ ~host'.off /\ UNCHANGED host
    BY <2>1, <2>2, UsualCall
  <2>4. pc = "shutdown"
    BY <1>4 DEF ShutDown
  <2>5. CASE entered
    BY <2>1, <2>3, <2>5 DEF Restoring, FailureRestores
  <2>6. CASE ~entered
    BY <2>1, <2>3, <2>4, <2>6 DEF Restoring, FailureRestores, IInv, ModeMeansDisabled
  <2>. QED  BY <2>5, <2>6
<1>5. CASE RemoveKey
  <2>1. PICK c \in BOOLEAN : Call("remove_key", c) /\ ok' = c
    BY <1>5 DEF RemoveKey
  <2>2. Usual /\ ~host'.leaving /\ ~host'.off
    BY <2>1, UsualCall DEF HostCalls
  <2>3. pc = "leave" /\ pc' = "host_enable"
    BY <1>5 DEF RemoveKey
  <2>4. Downward => ok'
    BY <2>1, <2>2, <2>3, LeavingWorks DEF Restoring, Usual
  <2>. QED  BY <2>2, <2>3, <2>4 DEF Restoring, FailureRestores
<1>6. CASE EnableHost
  <2>1. PICK c \in BOOLEAN : Call("host_enable", c)
    BY <1>6 DEF EnableHost
  <2>2. Usual /\ ~host'.leaving /\ ~host'.off
    BY <2>1, UsualCall DEF HostCalls
  <2>3. pc = "host_enable" /\ pc' = "report"
    BY <1>6 DEF EnableHost
  <2>4. Downward => host'.enabled /\ ~host'.mode
    <3>1. SUFFICES ASSUME Downward PROVE host'.enabled /\ ~host'.mode
      OBVIOUS
    <3>2. ok /\ ~host.mode
      BY <2>2, <2>3, <3>1 DEF Restoring, IInv, Mode
    <3>3. host' = Perform("host_enable", host)
      BY <2>1, <2>2, <3>2, LeavingWorks DEF Restoring, Usual
    <3>. QED  BY <3>2, <3>3, Performs DEF IInv, TypeOK, HostCalls
  <2>. QED  BY <2>2, <2>3, <2>4 DEF Restoring, FailureRestores, Downward
<1>7. CASE PowerOn
  <2>1. PICK c \in BOOLEAN : Call("host_power_on", c)
    BY <1>7 DEF PowerOn
  <2>2. Usual /\ ~host'.leaving /\ ~host'.off
    BY <2>1, UsualCall DEF HostCalls
  <2>3. pc' = "report" /\ ~Downward
    BY <1>7 DEF PowerOn, IInv, Places, Downward
  <2>. QED  BY <2>2, <2>3 DEF Restoring, FailureRestores, Downward
<1>. QED  BY <1>2, <1>3, <1>4, <1>5, <1>6, <1>7

\* Requests, kills, and the host: it stops only after a shutdown.
LEMMA OthersRestoring ==
  ASSUME IInv, Restoring,
         \/ \E j \in Jobs, r \in Requests : RequestStateChange(j, r)
         \/ \E j \in Jobs : KillJob(j)
         \/ HostStops \/ HostStarts
  PROVE  Restoring'
<1>. SUFFICES ASSUME Usual' PROVE Restoring'
  BY DEF Restoring
<1>1. Usual
  BY DEF Usual, RequestStateChange, KillJob, HostStops, HostStarts, history
<1>2. ~host.leaving /\ ~host.off
  BY <1>1 DEF Restoring
<1>3. CASE \E j \in Jobs, r \in Requests : RequestStateChange(j, r)
  <2>1. PICK j \in Jobs, r \in Requests : RequestStateChange(j, r)
    BY <1>3
  <2>2. /\ UNCHANGED <<current, host, pc, ok, rc, entered, effect, before, faults>>
        /\ request' = [request EXCEPT ![j] = r] /\ task[j] = Absent
    BY <2>1 DEF RequestStateChange, Service!Accept, locals, history
  <2>3. pc \notin {"idle", "dead"} => request'[current] = request[current]
    BY <2>2 DEF IInv, TypeOK, Queued
  <2>. QED  BY <1>1, <1>2, <2>2, <2>3 DEF Restoring, FailureRestores, Downward
<1>4. CASE \E j \in Jobs : KillJob(j)
  BY <1>1, <1>2, <1>4 DEF KillJob, service, locals, history, Restoring, FailureRestores, Downward
<1>5. CASE HostStops \/ HostStarts
  BY <1>2, <1>5 DEF HostStops, HostStarts
<1>. QED  BY <1>3, <1>4, <1>5

\* It is an invariant.
THEOREM RestoringInductive == Spec => []Restoring
<1>1. IInv /\ Restoring /\ [Next]_vars => Restoring'
  <2>. SUFFICES ASSUME IInv, Restoring, [Next]_vars PROVE Restoring'
    OBVIOUS
  <2>1. CASE Next
    BY <2>1, QuietRestoring, CallsRestoring, OthersRestoring DEF Next, Worker
  <2>2. CASE UNCHANGED vars
    BY <2>2 DEF vars, service, locals, history, Restoring, Usual, FailureRestores, Downward
  <2>. QED  BY <2>1, <2>2
<1>. QED  BY <1>1, InitRestoring, Inductive, PTL DEF Spec

-----------------------------------------------------------------------------
(* A job never goes back                                                   *)

\* A task that has been destroyed, or whose job has not been announced yet; and one
\* whose job has not ended.
Waits(t) == t = Gone \/ Is(t, "New")
Lasts(t) == Waits(t) \/ Is(t, "Running")

\* No job comes twice, to the list or to the worker.
Distinct ==
    /\ \A i, k \in DOMAIN pending : pending[i] = pending[k] => i = k
    /\ \A i \in DOMAIN pending : pending[i] # current

\* Up to its turn a job is not announced, and up to its report it has not ended.
Unended ==
    /\ \A i \in DOMAIN pending : Waits(task[pending[i]])
    /\ pc = "announce" => Waits(task[current])
    /\ pc \in CallPCs \cup {"report"} => Lasts(task[current])

\* The announcement takes a task forward, or leaves it as it is.
LEMMA AnnounceTask ==
  ASSUME NEW t, Waits(t), NEW f \in BOOLEAN, NEW o \in ChangeState(t, "Running", FALSE, f)
  PROVE  Proceeds(t, o.task) /\ Lasts(o.task)
<1>1. CASE t = Gone
  BY <1>1 DEF ChangeState, Proceeds, Lasts, Waits
<1>2. CASE t # Gone
  <2>1. Is(t, "New") /\ t \in Tasks /\ t # Absent
    BY <1>2, JobTaskAssumption DEF Waits, Is, Tasks
  <2>2. o.task = t \/ o.task = [state |-> "Running", error |-> FALSE]
    BY <2>1, ChangeStateResult DEF States
  <2>3. Is([state |-> "Running", error |-> FALSE], "Running")
    BY RecordOf DEF States
  <2>. QED  BY <2>1, <2>2, <2>3 DEF Proceeds, Lasts, Waits
<1>. QED  BY <1>1, <1>2

\* So does the report of a success or of a failure.
LEMMA ReportTask ==
  ASSUME NEW t, Lasts(t), NEW failed \in BOOLEAN, NEW f \in BOOLEAN,
         NEW o \in ChangeState(t, IF failed THEN "Exception" ELSE "Completed", failed, f)
  PROVE  Proceeds(t, o.task)
<1>1. CASE t = Gone
  BY <1>1 DEF ChangeState, Proceeds
<1>2. CASE t # Gone
  <2>1. (Is(t, "New") \/ Is(t, "Running")) /\ t \in Tasks /\ t # Absent
    BY <1>2, JobTaskAssumption DEF Waits, Lasts, Is, Tasks
  <2>2. (IF failed THEN "Exception" ELSE "Completed") \in States
    BY DEF States
  <2>3. \/ o.task = t
        \/ o.task = [state |-> IF failed THEN "Exception" ELSE "Completed", error |-> failed]
    BY <2>1, <2>2, ChangeStateResult
  <2>. QED  BY <2>1, <2>3 DEF Proceeds
<1>. QED  BY <1>1, <1>2

\* Each step takes every task forward, and what is said of the jobs stays.
LEMMA StepProceeds ==
  ASSUME IInv, Distinct, Unended, Next
  PROVE  Distinct' /\ Unended' /\ \A j \in Jobs : Proceeds(task[j], task'[j])
<1>. USE HostStateChangeAssumption DEF history
<1>0. /\ \A i \in DOMAIN pending : pending[i] \in Jobs /\ pending[i] # current
      /\ pc \notin {"idle", "dead"} => current \in Jobs
      /\ current \in Jobs \cup {NoJob}
      /\ task \in [Jobs -> Tasks] /\ pending \in Seq(Jobs) /\ faults \in BOOLEAN
  BY DEF IInv, TypeOK, Queued, Distinct
<1>1. ASSUME NEW j \in Jobs, NEW r \in Requests, RequestStateChange(j, r)
      PROVE  Distinct' /\ Unended' /\ \A k \in Jobs : Proceeds(task[k], task'[k])
  <2>. USE <1>1 DEF RequestStateChange, Service!Accept, locals
  <2>1. /\ Len(pending') = Len(pending) + 1 /\ pending' \in Seq(Jobs)
        /\ \A i \in DOMAIN pending' :
             \/ pending'[i] = j /\ i = Len(pending')
             \/ i \in DOMAIN pending /\ pending'[i] = pending[i]
    BY <1>0
  <2>2. Waits(NewTask)
    BY RecordOf DEF Waits, NewTask, States
  <2>3. /\ \A i \in DOMAIN pending : pending[i] # j
        /\ current # j
    BY DEF IInv, Queued
  <2>4. Distinct'
    BY <1>0, <2>1, <2>3 DEF Distinct
  <2>5. Unended'
    BY <1>0, <2>1, <2>2, <2>3 DEF Unended, CallPCs
  <2>6. \A k \in Jobs : Proceeds(task[k], task'[k])
    BY <1>0 DEF Proceeds
  <2>. QED  BY <2>4, <2>5, <2>6
<1>2. CASE TakeJob
  <2>. USE <1>2 DEF TakeJob, Service!Take
  <2>1. /\ current' = pending[1] /\ 1 \in DOMAIN pending
        /\ \A i \in DOMAIN pending' : /\ i \in Nat /\ i + 1 \in DOMAIN pending
                                      /\ pending'[i] = pending[i + 1]
    BY <1>0
  <2>2. Distinct'
    <3>1. \A i \in DOMAIN pending' : i + 1 # 1
      BY <2>1
    <3>. QED  BY <2>1, <3>1 DEF Distinct
  <2>3. Unended'
    BY <2>1 DEF Unended, CallPCs
  <2>. QED  BY <2>2, <2>3 DEF Proceeds
<1>3. CASE Announce
  <2>. USE <1>3 DEF Announce, service
  <2>1. Waits(task[current]) /\ current \in Jobs
    BY <1>0 DEF Unended
  <2>2. PICK o \in ChangeState(task[current], "Running", FALSE, faults) :
          task' = [task EXCEPT ![current] = o.task]
    OBVIOUS
  <2>3. Proceeds(task[current], o.task) /\ Lasts(o.task)
    BY <1>0, <2>1, <2>2, AnnounceTask
  <2>4. Distinct' /\ Unended'
    BY <1>0, <2>1, <2>2, <2>3 DEF Distinct, Unended
  <2>5. \A j \in Jobs : Proceeds(task[j], task'[j])
    <3>1. \A j \in Jobs \ {current} : task'[j] = task[j]
      BY <1>0, <2>2
    <3>2. task'[current] = o.task
      BY <1>0, <2>1, <2>2
    <3>. QED  BY <2>3, <3>1, <3>2 DEF Proceeds
  <2>. QED  BY <2>4, <2>5
<1>4. CASE Report
  <2>. USE <1>4 DEF Report, service
  <2>. DEFINE failed == rc # "NoError"
  <2>1. Lasts(task[current]) /\ current \in Jobs
    BY <1>0 DEF Unended
  <2>2. PICK o \in ChangeState(task[current],
                               IF failed THEN "Exception" ELSE "Completed", failed, faults) :
          task' = [task EXCEPT ![current] = o.task]
    <3>1. (IF rc = "NoError" THEN "Completed" ELSE "Exception")
             = (IF failed THEN "Exception" ELSE "Completed")
      OBVIOUS
    <3>. QED  BY <3>1
  <2>3. Proceeds(task[current], o.task)
    <3>1. failed \in BOOLEAN
      OBVIOUS
    <3>. HIDE DEF failed
    <3>. QED  BY <1>0, <2>1, <2>2, <3>1, ReportTask
  <2>4. Distinct' /\ Unended'
    BY <1>0, <2>1, <2>2 DEF Distinct, Unended, CallPCs
  <2>5. \A j \in Jobs : Proceeds(task[j], task'[j])
    <3>1. \A j \in Jobs \ {current} : task'[j] = task[j]
      BY <1>0, <2>2
    <3>2. task'[current] = o.task
      BY <1>0, <2>1, <2>2
    <3>. QED  BY <2>3, <3>1, <3>2 DEF Proceeds
  <2>. QED  BY <2>4, <2>5
<1>5. CASE \/ GetEnabled \/ GetAllowedOperations \/ DisableHost \/ RemoveOldKey \/ AddKey
           \/ ShutDown \/ RemoveKey \/ EnableHost \/ PowerOn
  <2>1. UNCHANGED <<task, service>> /\ pc \in CallPCs /\ pc' \in CallPCs \cup {"report"}
    BY <1>5 DEF GetEnabled, GetAllowedOperations, DisableHost, RemoveOldKey, AddKey, ShutDown,
                RemoveKey, EnableHost, PowerOn, CallPCs
  <2>2. Distinct' /\ Unended'
    BY <2>1 DEF Distinct, Unended, CallPCs, service
  <2>. QED  BY <2>1, <2>2 DEF Proceeds
<1>6. CASE FreeJob
  <2>. USE <1>6 DEF FreeJob, Service!Finish
  <2>1. Distinct' /\ Unended'
    BY <1>0 DEF Distinct, Unended, CallPCs
  <2>. QED  BY <2>1 DEF Proceeds
<1>7. ASSUME NEW j \in Jobs, KillJob(j)
      PROVE  Distinct' /\ Unended' /\ \A k \in Jobs : Proceeds(task[k], task'[k])
  <2>. USE <1>7 DEF KillJob, service, locals
  <2>1. task' = [task EXCEPT ![j] = Gone] /\ task[j] \in Recorded
    BY DEF Destroy
  <2>2. Waits(Gone) /\ Lasts(Gone)
    BY DEF Waits, Lasts
  <2>3. Distinct' /\ Unended'
    BY <1>0, <2>1, <2>2 DEF Distinct, Unended, CallPCs
  <2>4. \A k \in Jobs : Proceeds(task[k], task'[k])
    BY <1>0, <2>1 DEF Proceeds
  <2>. QED  BY <2>3, <2>4
<1>8. CASE HostStops \/ HostStarts
  <2>1. UNCHANGED <<task, service>> /\ pc' \in {pc, "dead"}
    BY <1>8 DEF HostStops, HostStarts, locals
  <2>2. Distinct' /\ Unended'
    BY <2>1 DEF Distinct, Unended, CallPCs, service
  <2>. QED  BY <2>1, <2>2 DEF Proceeds
<1>. QED  BY <1>1, <1>2, <1>3, <1>4, <1>5, <1>6, <1>7, <1>8 DEF Next, Worker

\* No task goes back, and none that has ended is written again except to be destroyed,
\* whatever replies are lost, whoever is killed, and whenever the host goes off.
THEOREM NeverBack == Spec => JobsProceed
<1>1. Init => Distinct /\ Unended
  <2>. SUFFICES ASSUME Init PROVE Distinct /\ Unended
    OBVIOUS
  <2>. QED  BY EmptyList DEF Init, Service!Init, Distinct, Unended, CallPCs
<1>2. IInv /\ Distinct /\ Unended /\ [Next]_vars =>
        Distinct' /\ Unended' /\ [\A j \in Jobs : Proceeds(task[j], task'[j])]_vars
  <2>. SUFFICES ASSUME IInv, Distinct, Unended, [Next]_vars
                PROVE  /\ Distinct' /\ Unended'
                       /\ [\A j \in Jobs : Proceeds(task[j], task'[j])]_vars
    OBVIOUS
  <2>1. CASE Next
    BY <2>1, StepProceeds
  <2>2. CASE UNCHANGED vars
    BY <2>2 DEF vars, service, locals, Distinct, Unended, CallPCs
  <2>. QED  BY <2>1, <2>2
<1>. QED  BY <1>1, <1>2, Inductive, PTL DEF Spec, JobsProceed

-----------------------------------------------------------------------------
(* The theorems                                                            *)

\* Type correctness of the state change jobs of a host.
THEOREM TypeCorrect == Spec => []TypeOK
  BY Inductive, PTL DEF IInv

\* Completed means done, although the steps after a failed shutdown succeed.
THEOREM CompletedCorrect == Spec => []CompletedMeansDone
  BY Inductive, PTL DEF IInv

\* The session error that is overridden is never that of a killed job: only
\* announced jobs touch the host.
THEOREM ActsAnnounced == Spec => []OnlyAnnouncedJobsAct
  BY Inductive, PTL DEF IInv

\* Whatever fails or is lost, and whenever the host goes off and comes back, a
\* host that takes virtual machines is not marked as being in maintenance.
THEOREM ModeCorrect == Spec => []ModeMeansDisabled
  BY Inductive, PTL DEF IInv

\* Without faults, and unless a job has shut the host down, a shutdown that was
\* refused gives the host back as it was, whatever is killed in between.
THEOREM RestoreCorrect == Spec => []FailureRestores
<1>1. IInv /\ Restoring => FailureRestores
  BY DEF Restoring, Usual, FailureRestores, Leaves
<1>. QED  BY <1>1, Inductive, RestoringInductive, PTL
=============================================================================
