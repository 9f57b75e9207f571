------------------------- MODULE StateChange_proofs -------------------------
(***************************************************************************)
(* Theorems about StateChange, for any number of jobs and requests, and    *)
(* whatever fails, is killed or is done by other clients.                  *)
(***************************************************************************)
EXTENDS StateChange, Naturals, TLAPS

\* A job that waits or is served has a task, and the worker a job unless idle.
Queued ==
    /\ \A i \in DOMAIN pending : task[pending[i]] # Absent
    /\ current # NoJob => task[current] # Absent
    /\ pc # "idle" => current # NoJob

\* What the worker's locals say about the job it serves: a session in order
\* means that the Running state was recorded, a result without error that the
\* operation was performed.
Progress ==
    /\ pc = "act" /\ ok => current \in announced
    /\ pc \in {"read", "announce", "act"} => rc = "Failed"
    /\ pc = "report" /\ rc = "NoError" => effect[current] \in Wanted(request[current])

IInv == TypeOK /\ Queued /\ Progress /\ CompletedMeansDone /\ OnlyAnnouncedJobsAct

\* The empty list is a list of jobs, with no item.
LEMMA EmptyList == <<>> \in Seq(Jobs) /\ DOMAIN <<>> = {}
  OBVIOUS

\* The calls of xapi lead to power states.
LEMMA ToPower == \A op \in Ops : To[op] \in Power
  BY DEF Ops, From, To, Power

\* The operations the job chooses are calls, and wanted for the request.
LEMMA ChoicesWanted ==
  ASSUME NEW r, NEW st \in Power
  PROVE  Choices(r, st) \subseteq Ops /\ Choices(r, st) \subseteq Wanted(r)
  BY DEF Choices, Wanted

\* A task that has a record is neither absent nor gone.
LEMMA RecordedHere == \A t \in Recorded : t # Absent /\ t # Gone /\ t \in Tasks
  BY JobTaskAssumption DEF Tasks

\* The record of a known state is a record.
LEMMA RecordOf == \A st \in States, err \in BOOLEAN : [state |-> st, error |-> err] \in Recorded
  BY DEF Recorded

\* What job_change_state returns: the task keeps its value or has the new one,
\* the latter whenever the session is in order, and is never absent.
LEMMA ChangeStateResult ==
  ASSUME NEW t \in Tasks, t # Absent, NEW st \in States, NEW err \in BOOLEAN,
         NEW f \in BOOLEAN, NEW o \in ChangeState(t, st, err, f)
  PROVE  /\ o.ok \in BOOLEAN /\ o.task \in Tasks /\ o.task # Absent
         /\ \/ o.task = t /\ o.ok = FALSE
            \/ o.task = [state |-> st, error |-> err]
<1>1. \/ o.task = t /\ o.ok = FALSE
      \/ o.task = [state |-> st, error |-> err] /\ o.ok \in BOOLEAN
  <2>. DEFINE w(k) == [ok |-> k, task |-> [state |-> st, error |-> err]]
  <2>1. o = w(TRUE) \/ o = w(FALSE) \/ o = [ok |-> FALSE, task |-> t]
    BY DEF ChangeState, Written
  <2>2. \A k \in BOOLEAN : w(k).ok = k /\ w(k).task = [state |-> st, error |-> err]
    OBVIOUS
  <2>3. CASE o = [ok |-> FALSE, task |-> t]
    BY <2>3
  <2>. HIDE DEF w
  <2>. QED  BY <2>1, <2>2, <2>3
<1>2. [state |-> st, error |-> err] \in Recorded
  BY RecordOf
<1>. QED  BY <1>1, <1>2, RecordedHere

\* The record a new task gets.
LEMMA NewTaskResult == NewTask \in Tasks /\ NewTask # Absent /\ ~Is(NewTask, "Completed")
<1>1. NewTask \in Recorded
  BY RecordOf DEF NewTask, States
<1>. QED  BY <1>1, RecordedHere DEF NewTask, Is

\* The inductive invariant holds in the initial state.
LEMMA InitIInv == Init => IInv
<1>. SUFFICES ASSUME Init PROVE IInv
  OBVIOUS
<1>. USE StateChangeAssumption, JobTaskAssumption DEF Init, Service!Init
<1>1. pending \in Seq(Jobs) /\ DOMAIN pending = {}
  BY EmptyList
<1>2. power \in Power /\ seen \in Power
  BY DEF Power
<1>3. TypeOK
  BY <1>1, <1>2 DEF TypeOK, Tasks, PCs, Results
<1>4. Queued /\ Progress /\ OnlyAnnouncedJobsAct
  BY <1>1 DEF Queued, Progress, OnlyAnnouncedJobsAct
<1>5. CompletedMeansDone
  BY DEF CompletedMeansDone, Is
<1>. QED  BY <1>3, <1>4, <1>5 DEF IInv

\* A request preserves it: the new job is neither served nor Completed.
LEMMA RequestIInv ==
  ASSUME IInv, NEW j \in Jobs, NEW r \in Requests, RequestStateChange(j, r)
  PROVE  IInv'
<1>. USE StateChangeAssumption, JobTaskAssumption, NewTaskResult
     DEF IInv, TypeOK, RequestStateChange, Service!Accept, locals, history
<1>1. pending' \in Seq(Jobs) /\ \A i \in DOMAIN pending' :
         pending'[i] = j \/ (i \in DOMAIN pending /\ pending'[i] = pending[i])
  OBVIOUS
<1>2. TypeOK'
  BY <1>1
<1>3. \A i \in DOMAIN pending : pending[i] \in Jobs
  OBVIOUS
<1>4. Queued'
  BY <1>1, <1>3 DEF Queued
<1>5. Progress'
  BY DEF Progress, Queued
<1>6. CompletedMeansDone'
  BY DEF CompletedMeansDone
<1>7. OnlyAnnouncedJobsAct'
  BY DEF OnlyAnnouncedJobsAct
<1>. QED  BY <1>2, <1>4, <1>5, <1>6, <1>7

\* The worker preserves it.
LEMMA WorkerIInv == ASSUME IInv, Worker PROVE IInv'
<1>. USE StateChangeAssumption DEF IInv, TypeOK, history
<1>1. CASE TakeJob
  <2>. USE <1>1 DEF TakeJob, Service!Take
  <2>1. Head(pending) \in Jobs /\ Tail(pending) \in Seq(Jobs)
    OBVIOUS
  <2>2. /\ task[Head(pending)] # Absent
        /\ \A i \in DOMAIN pending' : task[pending'[i]] # Absent
    BY DEF Queued
  <2>3. TypeOK'
    BY <2>1 DEF PCs, Results
  <2>4. Queued' /\ Progress'
    BY <2>1, <2>2 DEF Queued, Progress
  <2>5. CompletedMeansDone' /\ OnlyAnnouncedJobsAct'
    BY DEF CompletedMeansDone, OnlyAnnouncedJobsAct
  <2>. QED  BY <2>3, <2>4, <2>5
<1>2. CASE ReadPower
  <2>. USE <1>2 DEF ReadPower, service
  <2>1. TypeOK'
    BY DEF Calls, PCs
  <2>2. Queued' /\ Progress'
    BY DEF Queued, Progress
  <2>3. CompletedMeansDone' /\ OnlyAnnouncedJobsAct'
    BY DEF CompletedMeansDone, OnlyAnnouncedJobsAct
  <2>. QED  BY <2>1, <2>2, <2>3
<1>3. CASE Announce
  <2>. USE <1>3 DEF Announce, service
  <2>1. current \in Jobs /\ task[current] \in Tasks /\ task[current] # Absent
    BY DEF Queued
  <2>2. PICK o \in ChangeState(task[current], "Running", FALSE, faults) :
          /\ ok' = o.ok
          /\ task' = [task EXCEPT ![current] = o.task]
          /\ announced' = IF Is(o.task, "Running") THEN announced \cup {current} ELSE announced
    OBVIOUS
  <2>3. /\ o.ok \in BOOLEAN /\ o.task \in Tasks /\ o.task # Absent
        /\ \/ o.task = task[current] /\ o.ok = FALSE
           \/ o.task = [state |-> "Running", error |-> FALSE]
    BY <2>1, ChangeStateResult DEF States
  <2>4. /\ Is([state |-> "Running", error |-> FALSE], "Running")
        /\ ~Is([state |-> "Running", error |-> FALSE], "Completed")
    BY DEF Is, Recorded, States
  <2>5. TypeOK'
    BY <2>1, <2>2, <2>3 DEF PCs
  <2>6. Queued' /\ Progress'
    BY <2>1, <2>2, <2>3, <2>4 DEF Queued, Progress
  <2>7. CompletedMeansDone'
    BY <2>1, <2>2, <2>3, <2>4 DEF CompletedMeansDone
  <2>8. OnlyAnnouncedJobsAct'
    BY <2>2 DEF OnlyAnnouncedJobsAct
  <2>. QED  BY <2>5, <2>6, <2>7, <2>8
<1>4. CASE Refuse
  <2>. USE <1>4 DEF Refuse, service
  <2>1. TypeOK'
    BY DEF PCs, Results
  <2>2. Queued' /\ Progress'
    BY DEF Queued, Progress
  <2>3. CompletedMeansDone' /\ OnlyAnnouncedJobsAct'
    BY DEF CompletedMeansDone, OnlyAnnouncedJobsAct
  <2>. QED  BY <2>1, <2>2, <2>3
<1>5. CASE Operate
  <2>. USE <1>5 DEF Operate, service
  <2>1. current \in Jobs
    BY DEF Queued
  <2>2. PICK op \in Choices(request[current], seen) :
          \/ ok /\ power' = To[op] /\ effect' = [effect EXCEPT ![current] = op] /\ ok' \in BOOLEAN
          \/ ok' = FALSE /\ UNCHANGED <<power, effect>>
    BY DEF Reaches
  <2>3. op \in Ops /\ op \in Wanted(request[current])
    BY <2>2, ChoicesWanted
  <2>4. TypeOK'
    BY <2>1, <2>2, <2>3, ToPower DEF PCs, Results
  <2>5. Queued' /\ Progress'
    BY <2>1, <2>2, <2>3 DEF Queued, Progress
  <2>6. CompletedMeansDone'
    BY <2>1, <2>2, <2>3 DEF CompletedMeansDone
  <2>7. OnlyAnnouncedJobsAct'
    BY <2>1, <2>2 DEF OnlyAnnouncedJobsAct, Progress
  <2>. QED  BY <2>4, <2>5, <2>6, <2>7
<1>6. CASE Report
  <2>. USE <1>6 DEF Report, service
  <2>1. current \in Jobs /\ task[current] \in Tasks /\ task[current] # Absent
    BY DEF Queued
  <2>. DEFINE SomeTask ==
        \E t \in Tasks :
          /\ t # Absent /\ task' = [task EXCEPT ![current] = t] /\ ok' \in BOOLEAN
          /\ Is(t, "Completed") => t = task[current] \/ rc = "NoError"
  <2>2. ASSUME rc = "NoError" PROVE SomeTask
    <3>1. PICK o \in ChangeState(task[current], "Completed", FALSE, faults) :
            ok' = o.ok /\ task' = [task EXCEPT ![current] = o.task]
      <4>1. (IF rc = "NoError" THEN "Completed" ELSE "Exception") = "Completed"
            /\ (rc # "NoError") = FALSE
        BY <2>2
      <4>. QED  BY <2>2, <4>1
    <3>2. /\ o.ok \in BOOLEAN /\ o.task \in Tasks /\ o.task # Absent
          /\ \/ o.task = task[current] /\ o.ok = FALSE
             \/ o.task = [state |-> "Completed", error |-> FALSE]
      BY <2>1, ChangeStateResult DEF States
    <3>. QED  BY <2>2, <3>1, <3>2 DEF Is
  <2>3. ASSUME rc # "NoError" PROVE SomeTask
    <3>1. PICK o \in ChangeState(task[current], "Exception", TRUE, faults) :
            ok' = o.ok /\ task' = [task EXCEPT ![current] = o.task]
      <4>1. (IF rc = "NoError" THEN "Completed" ELSE "Exception") = "Exception"
            /\ (rc # "NoError") = TRUE
        BY <2>3
      <4>. QED  BY <2>3, <4>1
    <3>2. /\ o.ok \in BOOLEAN /\ o.task \in Tasks /\ o.task # Absent
          /\ \/ o.task = task[current] /\ o.ok = FALSE
             \/ o.task = [state |-> "Exception", error |-> TRUE]
      BY <2>1, ChangeStateResult DEF States
    <3>. QED  BY <2>3, <3>1, <3>2 DEF Is
  <2>4. PICK t \in Tasks :
          /\ t # Absent /\ task' = [task EXCEPT ![current] = t] /\ ok' \in BOOLEAN
          /\ Is(t, "Completed") => t = task[current] \/ rc = "NoError"
    BY <2>2, <2>3
  <2>5. TypeOK'
    BY <2>1, <2>4 DEF PCs
  <2>6. Queued' /\ Progress'
    BY <2>1, <2>4 DEF Queued, Progress
  <2>7. CompletedMeansDone'
    BY <2>1, <2>4 DEF CompletedMeansDone, Progress
  <2>8. OnlyAnnouncedJobsAct'
    BY DEF OnlyAnnouncedJobsAct
  <2>. QED  BY <2>5, <2>6, <2>7, <2>8
<1>7. CASE FreeJob
  <2>. USE <1>7 DEF FreeJob, Service!Finish
  <2>1. TypeOK'
    BY DEF PCs
  <2>2. Queued' /\ Progress'
    BY DEF Queued, Progress
  <2>3. CompletedMeansDone' /\ OnlyAnnouncedJobsAct'
    BY DEF CompletedMeansDone, OnlyAnnouncedJobsAct
  <2>. QED  BY <2>1, <2>2, <2>3
<1>. QED  BY <1>1, <1>2, <1>3, <1>4, <1>5, <1>6, <1>7 DEF Worker

\* Those who kill jobs or use the machine preserve it.
LEMMA OthersIInv ==
  ASSUME IInv,
         (\E j \in Jobs : KillJob(j)) \/ OtherClient
  PROVE  IInv'
<1>. USE DEF IInv, service, locals, history
<1>1. CASE \E j \in Jobs : KillJob(j)
  <2>1. PICK j \in Jobs : KillJob(j)
    BY <1>1
  <2>2. task' = [task EXCEPT ![j] = Gone]
    BY <2>1 DEF KillJob, Destroy
  <2>3. Gone \in Tasks /\ Gone # Absent /\ ~Is(Gone, "Completed")
    BY JobTaskAssumption DEF Tasks, Is
  <2>4. TypeOK'
    BY <2>1, <2>2, <2>3 DEF TypeOK, KillJob
  <2>5. \A i \in DOMAIN pending : pending[i] \in Jobs
    BY DEF TypeOK
  <2>6. Queued' /\ Progress'
    BY <2>1, <2>2, <2>3, <2>5 DEF Queued, Progress, KillJob, TypeOK
  <2>7. CompletedMeansDone' /\ OnlyAnnouncedJobsAct'
    BY <2>1, <2>2, <2>3 DEF CompletedMeansDone, OnlyAnnouncedJobsAct, KillJob, TypeOK
  <2>. QED  BY <2>4, <2>6, <2>7
<1>2. CASE OtherClient
  BY <1>2, ToPower DEF OtherClient, TypeOK, Queued, Progress, CompletedMeansDone,
              OnlyAnnouncedJobsAct
<1>. QED  BY <1>1, <1>2

\* IInv is an invariant.
THEOREM Inductive == Spec => []IInv
<1>1. IInv /\ [Next]_vars => IInv'
  <2>. SUFFICES ASSUME IInv, [Next]_vars PROVE IInv'
    OBVIOUS
  <2>1. CASE Next
    BY <2>1, RequestIInv, WorkerIInv, OthersIInv DEF Next
  <2>2. CASE UNCHANGED vars
    BY <2>2 DEF vars, service, locals, history, IInv, TypeOK, Queued, Progress,
                CompletedMeansDone, OnlyAnnouncedJobsAct
  <2>. QED  BY <2>1, <2>2
<1>. QED  BY <1>1, InitIInv, PTL DEF Spec

-----------------------------------------------------------------------------
(* A job that failed has done nothing                                      *)

\* No job comes twice, to the list or to the worker.
Distinct ==
    /\ \A i, k \in DOMAIN pending : pending[i] = pending[k] => i = k
    /\ \A i \in DOMAIN pending : pending[i] # current

\* What a job has done before its turn, and up to its report: nothing yet, and
\* no task says so before the report.  A report of failure follows no success.
Fresh ==
    /\ \A j \in Jobs : task[j] = Absent => effect[j] = "none"
    /\ \A i \in DOMAIN pending : /\ effect[pending[i]] = "none"
                                 /\ ~Is(task[pending[i]], "Exception")
    /\ pc \in {"read", "announce", "act"} => effect[current] = "none"
    /\ pc \in {"read", "announce", "act", "report"} => ~Is(task[current], "Exception")
    /\ pc = "report" /\ ~faults /\ rc # "NoError" => effect[current] = "none"

Untouched == Distinct /\ Fresh /\ ExceptionMeansUntouched

\* It holds in the initial state.
LEMMA InitUntouched == Init => Untouched
<1>. SUFFICES ASSUME Init PROVE Untouched
  OBVIOUS
<1>1. DOMAIN pending = {}
  BY EmptyList DEF Init, Service!Init
<1>2. Distinct /\ Fresh
  BY <1>1 DEF Distinct, Fresh, Init, Service!Init
<1>3. ExceptionMeansUntouched
  BY DEF ExceptionMeansUntouched, Init
<1>. QED  BY <1>2, <1>3 DEF Untouched

\* A new job is not on the list: those have tasks.
LEMMA RequestUntouched ==
  ASSUME IInv, Untouched, NEW j \in Jobs, NEW r \in Requests, RequestStateChange(j, r)
  PROVE  Untouched'
<1>. USE StateChangeAssumption, JobTaskAssumption
     DEF IInv, TypeOK, Untouched, RequestStateChange, Service!Accept, locals, history
<1>1. /\ pending' \in Seq(Jobs) /\ Len(pending') = Len(pending) + 1
      /\ \A i \in DOMAIN pending' :
           \/ pending'[i] = j /\ i = Len(pending')
           \/ i \in DOMAIN pending /\ pending'[i] = pending[i]
  OBVIOUS
<1>2. /\ NewTask # Absent /\ ~Is(NewTask, "Exception")
      /\ task' = [task EXCEPT ![j] = NewTask]
  <2>1. ~Is(NewTask, "Exception")
    BY DEF NewTask, Is
  <2>. QED  BY <2>1, NewTaskResult
<1>3. /\ \A i \in DOMAIN pending : pending[i] \in Jobs /\ pending[i] # j
      /\ current # j
  BY DEF Queued
<1>4. Distinct'
  BY <1>1, <1>3 DEF Distinct
<1>5. Fresh'
  BY <1>1, <1>2, <1>3 DEF Fresh
<1>6. ExceptionMeansUntouched'
  BY <1>2 DEF ExceptionMeansUntouched
<1>. QED  BY <1>4, <1>5, <1>6

\* The worker: an operation that succeeds is reported as a success.
LEMMA WorkerUntouched == ASSUME IInv, Untouched, Worker PROVE Untouched'
<1>. USE StateChangeAssumption DEF IInv, TypeOK, Untouched, history
<1>1. CASE TakeJob
  <2>. USE <1>1 DEF TakeJob, Service!Take
  <2>1. /\ pending # <<>> /\ current' = pending[1] /\ 1 \in DOMAIN pending
        /\ \A i \in DOMAIN pending' : i + 1 \in DOMAIN pending /\ pending'[i] = pending[i + 1]
        /\ \A i \in DOMAIN pending' : i \in Nat
    OBVIOUS
  <2>2. Distinct'
    <3>1. \A i \in DOMAIN pending' : i + 1 # 1
      BY <2>1
    <3>. QED  BY <2>1, <3>1 DEF Distinct
  <2>3. Fresh'
    BY <2>1 DEF Fresh
  <2>4. ExceptionMeansUntouched'
    BY DEF ExceptionMeansUntouched
  <2>. QED  BY <2>2, <2>3, <2>4
<1>2. CASE ReadPower
  <2>. USE <1>2 DEF ReadPower, service
  <2>1. Distinct' /\ ExceptionMeansUntouched'
    BY DEF Distinct, ExceptionMeansUntouched
  <2>2. Fresh'
    BY DEF Fresh
  <2>. QED  BY <2>1, <2>2
<1>3. CASE Announce
  <2>. USE <1>3 DEF Announce, service
  <2>1. current \in Jobs /\ task[current] \in Tasks /\ task[current] # Absent
    BY DEF Queued
  <2>2. PICK o \in ChangeState(task[current], "Running", FALSE, faults) :
          task' = [task EXCEPT ![current] = o.task]
    OBVIOUS
  <2>3. /\ o.task # Absent
        /\ o.task = task[current] \/ ~Is(o.task, "Exception")
    <3>1. /\ o.ok \in BOOLEAN /\ o.task \in Tasks /\ o.task # Absent
          /\ \/ o.task = task[current] /\ o.ok = FALSE
             \/ o.task = [state |-> "Running", error |-> FALSE]
      BY <2>1, ChangeStateResult DEF States
    <3>. QED  BY <3>1 DEF Is
  <2>4. Distinct'
    BY DEF Distinct
  <2>5. Fresh'
    BY <2>1, <2>2, <2>3 DEF Fresh, Distinct
  <2>6. ExceptionMeansUntouched'
    BY <2>1, <2>2, <2>3 DEF ExceptionMeansUntouched
  <2>. QED  BY <2>4, <2>5, <2>6
<1>4. CASE Refuse
  <2>. USE <1>4 DEF Refuse, service
  <2>1. Distinct' /\ ExceptionMeansUntouched'
    BY DEF Distinct, ExceptionMeansUntouched
  <2>2. Fresh'
    BY DEF Fresh
  <2>. QED  BY <2>1, <2>2
<1>5. CASE Operate
  <2>. USE <1>5 DEF Operate, service
  <2>1. current \in Jobs /\ task[current] # Absent
    BY DEF Queued
  <2>2. PICK op \in Choices(request[current], seen) :
          \/ effect' = [effect EXCEPT ![current] = op] /\ (ok' = TRUE \/ faults)
          \/ effect' = effect
    BY DEF Reaches
  <2>3. Distinct'
    BY DEF Distinct
  <2>4. Fresh'
    BY <2>1, <2>2 DEF Fresh, Distinct
  <2>5. ExceptionMeansUntouched'
    BY <2>1, <2>2 DEF ExceptionMeansUntouched, Fresh
  <2>. QED  BY <2>3, <2>4, <2>5
<1>6. CASE Report
  <2>. USE <1>6 DEF Report, service
  <2>1. current \in Jobs /\ task[current] \in Tasks /\ task[current] # Absent
    BY DEF Queued
  <2>2. PICK t \in Tasks :
          /\ t # Absent /\ task' = [task EXCEPT ![current] = t]
          /\ Is(t, "Exception") => t = task[current] \/ rc # "NoError"
    <3>1. CASE rc = "NoError"
      <4>1. /\ (IF rc = "NoError" THEN "Completed" ELSE "Exception") = "Completed"
            /\ (rc # "NoError") = FALSE
        BY <3>1
      <4>2. PICK o \in ChangeState(task[current], "Completed", FALSE, faults) :
              task' = [task EXCEPT ![current] = o.task]
        BY <4>1
      <4>3. /\ o.ok \in BOOLEAN /\ o.task \in Tasks /\ o.task # Absent
            /\ \/ o.task = task[current] /\ o.ok = FALSE
               \/ o.task = [state |-> "Completed", error |-> FALSE]
        BY <2>1, ChangeStateResult DEF States
      <4>. QED  BY <4>2, <4>3 DEF Is
    <3>2. CASE rc # "NoError"
      <4>1. /\ (IF rc = "NoError" THEN "Completed" ELSE "Exception") = "Exception"
            /\ (rc # "NoError") = TRUE
        BY <3>2
      <4>2. PICK o \in ChangeState(task[current], "Exception", TRUE, faults) :
              task' = [task EXCEPT ![current] = o.task]
        BY <4>1
      <4>3. /\ o.ok \in BOOLEAN /\ o.task \in Tasks /\ o.task # Absent
            /\ \/ o.task = task[current] /\ o.ok = FALSE
               \/ o.task = [state |-> "Exception", error |-> TRUE]
        BY <2>1, ChangeStateResult DEF States
      <4>. QED  BY <3>2, <4>2, <4>3
    <3>. QED  BY <3>1, <3>2
  <2>4. Distinct'
    BY DEF Distinct
  <2>5. Fresh'
    BY <2>1, <2>2 DEF Fresh, Distinct
  <2>6. ExceptionMeansUntouched'
    BY <2>1, <2>2 DEF ExceptionMeansUntouched, Fresh
  <2>. QED  BY <2>4, <2>5, <2>6
<1>7. CASE FreeJob
  <2>. USE <1>7 DEF FreeJob, Service!Finish
  <2>1. Distinct'
    BY DEF Distinct
  <2>2. Fresh' /\ ExceptionMeansUntouched'
    BY DEF Fresh, ExceptionMeansUntouched
  <2>. QED  BY <2>1, <2>2
<1>. QED  BY <1>1, <1>2, <1>3, <1>4, <1>5, <1>6, <1>7 DEF Worker

\* A task that is killed says nothing, and other clients do not touch the jobs.
LEMMA OthersUntouched ==
  ASSUME IInv, Untouched, (\E j \in Jobs : KillJob(j)) \/ OtherClient
  PROVE  Untouched'
<1>. USE DEF IInv, Untouched, service, locals, history
<1>1. CASE \E j \in Jobs : KillJob(j)
  <2>1. PICK j \in Jobs : KillJob(j)
    BY <1>1
  <2>2. task' = [task EXCEPT ![j] = Gone] /\ task[j] # Absent
    BY <2>1, RecordedHere DEF KillJob, Destroy
  <2>3. Gone # Absent /\ ~Is(Gone, "Exception")
    BY JobTaskAssumption DEF Is
  <2>4. /\ \A i \in DOMAIN pending : pending[i] \in Jobs
        /\ pc # "idle" => current \in Jobs
    BY DEF TypeOK, Queued
  <2>5. Distinct'
    BY <2>1 DEF Distinct, KillJob
  <2>6. Fresh'
    BY <2>1, <2>2, <2>3, <2>4 DEF Fresh, KillJob, TypeOK
  <2>7. ExceptionMeansUntouched'
    BY <2>1, <2>2, <2>3 DEF ExceptionMeansUntouched, KillJob, TypeOK
  <2>. QED  BY <2>5, <2>6, <2>7
<1>2. CASE OtherClient
  BY <1>2 DEF OtherClient, Distinct, Fresh, ExceptionMeansUntouched
<1>. QED  BY <1>1, <1>2

\* It is an invariant.
THEOREM UntouchedInductive == Spec => []Untouched
<1>1. IInv /\ Untouched /\ [Next]_vars => Untouched'
  <2>. SUFFICES ASSUME IInv, Untouched, [Next]_vars PROVE Untouched'
    OBVIOUS
  <2>1. CASE Next
    BY <2>1, RequestUntouched, WorkerUntouched, OthersUntouched DEF Next
  <2>2. CASE UNCHANGED vars
    BY <2>2 DEF vars, service, locals, history, Untouched, Distinct, Fresh,
                ExceptionMeansUntouched
  <2>. QED  BY <2>1, <2>2
<1>. QED  BY <1>1, InitUntouched, Inductive, PTL DEF Spec

-----------------------------------------------------------------------------
(* A job never goes back                                                   *)

\* A task that has been destroyed, or whose job has not been announced yet; and one
\* whose job has not ended.
Waits(t) == t = Gone \/ Is(t, "New")
Lasts(t) == Waits(t) \/ Is(t, "Running")

\* Up to its turn a job is not announced, and up to its report it has not ended.
Unended ==
    /\ \A i \in DOMAIN pending : Waits(task[pending[i]])
    /\ pc \in {"read", "announce"} => Waits(task[current])
    /\ pc \in {"act", "report"} => Lasts(task[current])

\* The announcement takes a task forward, or leaves it as it is.
LEMMA AnnounceTask ==
  ASSUME NEW t, Waits(t), NEW f \in BOOLEAN, NEW o \in ChangeState(t, "Running", FALSE, f)
  PROVE  Proceeds(t, o.task) /\ Lasts(o.task)
<1>1. CASE t = Gone
  BY <1>1 DEF ChangeState, Proceeds, Lasts, Waits
<1>2. CASE t # Gone
  <2>1. Is(t, "New") /\ t \in Tasks /\ t # Absent
    BY <1>2, RecordedHere DEF Waits, Is
  <2>2. o.task = t \/ o.task = [state |-> "Running", error |-> FALSE]
    BY <2>1, ChangeStateResult DEF States
  <2>3. Is([state |-> "Running", error |-> FALSE], "Running")
    BY RecordOf DEF Is, States
  <2>. QED  BY <2>1, <2>2, <2>3 DEF Proceeds, Lasts, Waits
<1>. QED  BY <1>1, <1>2

\* So does the report of a success or of a failure.
LEMMA ReportTask ==
  ASSUME NEW t, Lasts(t), NEW failed \in BOOLEAN, NEW f \in BOOLEAN,
         NEW o \in ChangeState(t, IF failed THEN "Exception" ELSE "Completed", failed, f)
  PROVE  Proceeds(t, o.task)
<1>1. CASE t = Gone
  BY <1>1 DEF ChangeState, Proceeds
<1>2. CASE t # Gone
  <2>1. (Is(t, "New") \/ Is(t, "Running")) /\ t \in Tasks /\ t # Absent
    BY <1>2, RecordedHere DEF Waits, Lasts, Is
  <2>2. (IF failed THEN "Exception" ELSE "Completed") \in States
    BY DEF States
  <2>3. \/ o.task = t
        \/ o.task = [state |-> IF failed THEN "Exception" ELSE "Completed", error |-> failed]
    BY <2>1, <2>2, ChangeStateResult
  <2>. QED  BY <2>1, <2>3 DEF Proceeds
<1>. QED  BY <1>1, <1>2

\* Each step takes every task forward, and what is said of the jobs stays.
LEMMA StepProceeds ==
  ASSUME IInv, Distinct, Unended, Next
  PROVE  Unended' /\ \A j \in Jobs : Proceeds(task[j], task'[j])
<1>. USE StateChangeAssumption DEF history
<1>0. /\ \A i \in DOMAIN pending : pending[i] \in Jobs /\ pending[i] # current
      /\ pc # "idle" => current \in Jobs
      /\ task \in [Jobs -> Tasks] /\ pending \in Seq(Jobs) /\ faults \in BOOLEAN
  BY DEF IInv, TypeOK, Queued, Distinct
<1>1. ASSUME NEW j \in Jobs, NEW r \in Requests, RequestStateChange(j, r)
      PROVE  Unended' /\ \A k \in Jobs : Proceeds(task[k], task'[k])
  <2>. USE <1>1 DEF RequestStateChange, Service!Accept, locals
  <2>1. \A i \in DOMAIN pending' :
           pending'[i] = j \/ (i \in DOMAIN pending /\ pending'[i] = pending[i])
    BY <1>0
  <2>2. Waits(NewTask)
    BY RecordOf DEF Waits, Is, NewTask, States
  <2>3. /\ \A i \in DOMAIN pending : pending[i] # j
        /\ pc # "idle" => current # j
    BY DEF IInv, Queued
  <2>4. Unended'
    BY <1>0, <2>1, <2>2, <2>3 DEF Unended
  <2>5. \A k \in Jobs : Proceeds(task[k], task'[k])
    BY <1>0 DEF Proceeds
  <2>. QED  BY <2>4, <2>5
<1>2. CASE TakeJob
  <2>. USE <1>2 DEF TakeJob, Service!Take
  <2>1. /\ current' = pending[1] /\ 1 \in DOMAIN pending
        /\ \A i \in DOMAIN pending' : i + 1 \in DOMAIN pending /\ pending'[i] = pending[i + 1]
    BY <1>0
  <2>2. Unended'
    BY <2>1 DEF Unended
  <2>. QED  BY <2>2 DEF Proceeds
<1>3. CASE Announce
  <2>. USE <1>3 DEF Announce, service
  <2>1. Waits(task[current]) /\ current \in Jobs
    BY <1>0 DEF Unended
  <2>2. PICK o \in ChangeState(task[current], "Running", FALSE, faults) :
          task' = [task EXCEPT ![current] = o.task]
    OBVIOUS
  <2>3. Proceeds(task[current], o.task) /\ Lasts(o.task)
    BY <1>0, <2>1, <2>2, AnnounceTask
  <2>4. Unended'
    BY <1>0, <2>1, <2>2, <2>3 DEF Unended
  <2>5. \A j \in Jobs : Proceeds(task[j], task'[j])
    <3>1. \A j \in Jobs \ {current} : task'[j] = task[j]
      BY <1>0, <2>2
    <3>2. task'[current] = o.task
      BY <1>0, <2>1, <2>2
    <3>. QED  BY <2>3, <3>1, <3>2 DEF Proceeds
  <2>. QED  BY <2>4, <2>5
<1>4. CASE Report
  <2>. USE <1>4 DEF Report, service
  <2>. DEFINE failed == rc # "NoError"
  <2>1. Lasts(task[current]) /\ current \in Jobs
    BY <1>0 DEF Unended
  <2>2. PICK o \in ChangeState(task[current],
                               IF failed THEN "Exception" ELSE "Completed", failed, faults) :
          task' = [task EXCEPT ![current] = o.task]
    <3>1. (IF rc = "NoError" THEN "Completed" ELSE "Exception")
             = (IF failed THEN "Exception" ELSE "Completed")
      OBVIOUS
    <3>. QED  BY <3>1
  <2>3. Proceeds(task[current], o.task)
    <3>1. failed \in BOOLEAN
      OBVIOUS
    <3>. HIDE DEF failed
    <3>. QED  BY <1>0, <2>1, <2>2, <3>1, ReportTask
  <2>4. Unended'
    BY <1>0, <2>1, <2>2 DEF Unended
  <2>5. \A j \in Jobs : Proceeds(task[j], task'[j])
    <3>1. \A j \in Jobs \ {current} : task'[j] = task[j]
      BY <1>0, <2>2
    <3>2. task'[current] = o.task
      BY <1>0, <2>1, <2>2
    <3>. QED  BY <2>3, <3>1, <3>2 DEF Proceeds
  <2>. QED  BY <2>4, <2>5
<1>5. CASE ReadPower \/ Refuse \/ Operate \/ FreeJob
  <2>1. /\ UNCHANGED <<task, pending>>
        /\ \/ UNCHANGED current /\ pc \in {"read", "act"} /\ pc' \in {"announce", "report"}
              /\ (pc' = "announce" => pc = "read")
           \/ pc' = "idle"
    BY <1>5 DEF ReadPower, Refuse, Operate, FreeJob, Service!Finish, service
  <2>2. Unended'
    BY <2>1 DEF Unended, Lasts
  <2>. QED  BY <2>1, <2>2 DEF Proceeds
<1>6. ASSUME NEW j \in Jobs, KillJob(j)
      PROVE  Unended' /\ \A k \in Jobs : Proceeds(task[k], task'[k])
  <2>. USE <1>6 DEF KillJob, service, locals
  <2>1. task' = [task EXCEPT ![j] = Gone] /\ task[j] \in Recorded
    BY DEF Destroy
  <2>2. Waits(Gone) /\ Lasts(Gone)
    BY DEF Waits, Lasts
  <2>3. Unended'
    BY <1>0, <2>1, <2>2 DEF Unended
  <2>4. \A k \in Jobs : Proceeds(task[k], task'[k])
    BY <1>0, <2>1 DEF Proceeds
  <2>. QED  BY <2>3, <2>4
<1>7. CASE OtherClient
  BY <1>7 DEF OtherClient, service, locals, Unended, Proceeds
<1>. QED  BY <1>1, <1>2, <1>3, <1>4, <1>5, <1>6, <1>7 DEF Next, Worker

\* No task goes back, and none that has ended is written again except to be destroyed,
\* whatever replies are lost and whoever is killed while he waits or is served.
THEOREM NeverBack == Spec => JobsProceed
<1>1. Init => Unended
  <2>. SUFFICES ASSUME Init PROVE Unended
    OBVIOUS
  <2>. QED  BY EmptyList DEF Init, Service!Init, Unended
<1>2. IInv /\ Distinct /\ Unended /\ [Next]_vars =>
        Unended' /\ [\A j \in Jobs : Proceeds(task[j], task'[j])]_vars
  <2>. SUFFICES ASSUME IInv, Distinct, Unended, [Next]_vars
                PROVE  Unended' /\ [\A j \in Jobs : Proceeds(task[j], task'[j])]_vars
    OBVIOUS
  <2>1. CASE Next
    BY <2>1, StepProceeds
  <2>2. CASE UNCHANGED vars
    BY <2>2 DEF vars, service, locals, Unended
  <2>. QED  BY <2>1, <2>2
<1>3. Untouched => Distinct
  BY DEF Untouched
<1>. QED  BY <1>1, <1>2, <1>3, Inductive, UntouchedInductive, PTL DEF Spec, JobsProceed

-----------------------------------------------------------------------------
(* The theorems                                                            *)

\* Type correctness of the state change jobs.
THEOREM TypeCorrect == Spec => []TypeOK
  BY Inductive, PTL DEF IInv

\* Completed means done: no kill, fault, lost reply or other client of the
\* machine makes a job Completed that did not perform its own operation.
THEOREM CompletedCorrect == Spec => []CompletedMeansDone
  BY Inductive, PTL DEF IInv

\* Nothing but an announced job ever touches the machine.
THEOREM ActsAnnounced == Spec => []OnlyAnnouncedJobsAct
  BY Inductive, PTL DEF IInv

\* Without faults a job that says it failed has left the machine alone, with
\* kills at any moment and other clients that change the machine under it.
THEOREM FailedUntouched == Spec => []ExceptionMeansUntouched
  BY UntouchedInductive, PTL DEF Untouched
=============================================================================
