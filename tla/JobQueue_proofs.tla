--------------------------- MODULE JobQueue_proofs ---------------------------
(***************************************************************************)
(* Theorems about JobQueue, for any set of jobs and any number of loads.   *)
(***************************************************************************)
EXTENDS JobQueue, TLAPS

\* The list mutex has the owner that the program counters say it has, and the
\* item the worker is about to unlink is there.
Locks ==
    /\ wpc = "unlink" <=> listLock = Worker
    /\ wpc = "unlink" => queue # <<>>
    /\ lpc \in {"recheck", "cancel", "join", "unlock"} => listLock = Loader

\* The flag is up while the worker is busy, and then only does it hold a job.
Flag ==
    /\ wpc \in BusyPCs => working
    /\ wpc \in BusyPCs \ {"unlink"} <=> wjob # NoJob

\* A handle that is zero names no thread; a cancel is pending while the loader
\* waits for the thread.
Handle ==
    /\ ~created => wpc = "none"
    /\ cancelReq => lpc = "join"

\* What the second jobs_running saw stays true under the list mutex.
Window ==
    /\ lpc \in {"recheck", "cancel", "join"} => queue = <<>>
    /\ lpc \in {"cancel", "join"} => wpc \notin BusyPCs

IInv == TypeOK /\ Locks /\ Flag /\ Handle /\ Window

\* The empty list is a list of jobs.
LEMMA EmptyList == <<>> \in Seq(Jobs)
  OBVIOUS

\* The inductive invariant holds in the initial state.
LEMMA InitIInv == Init => IInv
<1>. SUFFICES ASSUME Init PROVE IInv
  OBVIOUS
<1>. USE JobQueueAssumption DEF Init
<1>1. TypeOK
  <2>1. queue \in Seq(Jobs)
    BY EmptyList
  <2>2. cpc \in [Jobs -> CallerPCs] /\ outcome \in [Jobs -> Outcomes]
    BY DEF CallerPCs, Outcomes
  <2>3. wpc \in WorkerPCs /\ lpc \in LoaderPCs /\ loads \in 0..MaxLoads /\ cimom \in Cimoms
    BY DEF WorkerPCs, LoaderPCs
  <2>. QED  BY <2>1, <2>2, <2>3 DEF TypeOK
<1>2. Locks /\ Flag
  BY DEF Locks, Flag, BusyPCs
<1>3. Handle /\ Window
  BY DEF Handle, Window
<1>. QED  BY <1>1, <1>2, <1>3 DEF IInv

\* The callers preserve it: they write the list only when its mutex is free.
LEMMA CallerIInv == ASSUME IInv, NEW j \in Jobs, Caller(j) PROVE IInv'
<1>. USE JobQueueAssumption
       DEF IInv, TypeOK, Locks, Flag, Handle, Window, workerVars, loaderVars, callerVars
<1>1. CASE CreateJob(j)
  BY <1>1 DEF CreateJob, CallerPCs, BusyPCs
<1>2. CASE AppendItem(j)
  BY <1>2 DEF AppendItem, CallerPCs, BusyPCs
<1>3. CASE Signal(j)
  BY <1>3 DEF Signal, CallerPCs, WorkerPCs, BusyPCs
<1>. QED  BY <1>1, <1>2, <1>3 DEF Caller

\* The worker preserves it.
LEMMA WorkerIInv == ASSUME IInv, WorkerStep \/ SpuriousWakeup PROVE IInv'
<1>. USE JobQueueAssumption
       DEF IInv, TypeOK, Locks, Flag, Handle, Window, workerVars, loaderVars, callerVars,
           WorkerPCs, BusyPCs
<1>1. CASE LockCond        BY <1>1 DEF LockCond
<1>2. CASE RaiseFlag       BY <1>2 DEF RaiseFlag
<1>3. CASE Unlink
  <2>1. Head(queue) \in Jobs /\ Tail(queue) \in Seq(Jobs)
    BY <1>3 DEF Unlink
  <2>. QED  BY <1>3, <2>1 DEF Unlink
<1>4. CASE FindEmpty       BY <1>4 DEF FindEmpty
<1>13. CASE Block          BY <1>13 DEF Block
<1>5. CASE SpuriousWakeup  BY <1>5 DEF SpuriousWakeup
<1>6. CASE Resume          BY <1>6 DEF Resume
<1>7. CASE UnlockCond      BY <1>7 DEF UnlockCond
<1>8. CASE OpenSession     BY <1>8 DEF OpenSession, Outcomes
<1>9. CASE Callback        BY <1>9 DEF Callback, Outcomes
<1>10. CASE FreeJob        BY <1>10 DEF FreeJob
<1>11. CASE ClearFlag      BY <1>11 DEF ClearFlag
<1>12. CASE ActOnCancel    BY <1>12 DEF ActOnCancel
<1>. QED
  BY <1>1, <1>2, <1>3, <1>4, <1>5, <1>6, <1>7, <1>8, <1>9, <1>10, <1>11, <1>12,
     <1>13 DEF WorkerStep

\* The loader preserves it.
LEMMA LoaderIInv == ASSUME IInv, LoaderStep PROVE IInv'
<1>. USE JobQueueAssumption
       DEF IInv, TypeOK, Locks, Flag, Handle, Window, workerVars, callerVars,
           LoaderPCs, WorkerPCs, BusyPCs
<1>1. CASE Load
  <2>1. TypeOK'
    <3>1. loads' \in 0..MaxLoads
      BY <1>1 DEF Load
    <3>2. created' \in BOOLEAN /\ wpc' \in WorkerPCs
      BY <1>1 DEF Load
    <3>. QED  BY <1>1, <3>1, <3>2 DEF Load
  <2>2. Locks' /\ Flag'
    BY <1>1 DEF Load
  <2>3. Handle' /\ Window'
    BY <1>1 DEF Load
  <2>. QED  BY <2>1, <2>2, <2>3
<1>2. CASE BeginCleanup    BY <1>2 DEF BeginCleanup
<1>3. CASE ReadFlag        BY <1>3 DEF ReadFlag
<1>4. CASE Relock          BY <1>4 DEF Relock
<1>5. CASE Recheck         BY <1>5 DEF Recheck
<1>6. CASE Cancel          BY <1>6 DEF Cancel
<1>7. CASE Join            BY <1>7 DEF Join
<1>8. CASE Unlock          BY <1>8 DEF Unlock
<1>9. CASE CloseXen        BY <1>9 DEF CloseXen
<1>10. CASE Release
  <2>1. CASE lpc' = "unloaded" /\ UNCHANGED image
    BY <1>10, <2>1 DEF Release, image
  <2>2. CASE lpc' = "crashed" /\ UNCHANGED image
    BY <1>10, <2>2 DEF Release, image
  <2>3. CASE /\ wpc \in {"none", "dead"} /\ lpc' = "unloaded" /\ queue' = <<>>
             /\ working' = FALSE /\ created' = FALSE
             /\ listLock' = Free /\ condLock' = Free /\ wpc' = "none"
    BY <1>10, <2>3, EmptyList DEF Release
  <2>. QED  BY <1>10, <2>1, <2>2, <2>3 DEF Release
<1>. QED
  BY <1>1, <1>2, <1>3, <1>4, <1>5, <1>6, <1>7, <1>8, <1>9, <1>10 DEF LoaderStep

\* No step changes the CIMOM.
LEMMA SameCimom == [Next]_vars => cimom' = cimom
<1>. USE DEF workerVars, callerVars, loaderVars
<1>1. ASSUME NEW j \in Jobs, Caller(j) PROVE cimom' = cimom
  BY <1>1 DEF Caller, CreateJob, AppendItem, Signal
<1>2. CASE WorkerStep \/ SpuriousWakeup
  BY <1>2 DEF WorkerStep, SpuriousWakeup, LockCond, RaiseFlag, Unlink, FindEmpty, Block, Resume,
              UnlockCond, OpenSession, Callback, FreeJob, ClearFlag, ActOnCancel
<1>3. CASE LoaderStep
  BY <1>3 DEF LoaderStep, Load, BeginCleanup, ReadFlag, Relock, Recheck, Cancel, Join,
              Unlock, CloseXen, Release
<1>4. CASE UNCHANGED vars
  BY <1>4 DEF vars
<1>. QED  BY <1>1, <1>2, <1>3, <1>4 DEF Next

\* The inductive invariant holds in every reachable state.
THEOREM Inductive == Spec => []IInv
<1>1. IInv /\ [Next]_vars => IInv'
  <2>. SUFFICES ASSUME IInv, [Next]_vars PROVE IInv'
    OBVIOUS
  <2>1. CASE UNCHANGED vars
    BY <2>1 DEF vars, IInv, TypeOK, Locks, Flag, Handle, Window
  <2>. QED  BY <2>1, CallerIInv, WorkerIInv, LoaderIInv DEF Next
<1>. QED  BY <1>1, InitIInv, PTL DEF Spec

\* Every variable stays in its range, for any set of jobs.
THEOREM TypeCorrect == Spec => []TypeOK
<1>1. IInv => TypeOK
  BY DEF IInv
<1>. QED  BY <1>1, Inductive, PTL

\* Whatever the CIMOM does, jobs_uninitialize cancels the worker only when no
\* job waits and none is being served.
THEOREM CancelSafe == Spec => []CancelOnlyIdle
<1>1. IInv => CancelOnlyIdle
  BY DEF IInv, Window, CancelOnlyIdle, Idle
<1>. QED  BY <1>1, Inductive, PTL

\* The worker thread never ends with a job that it has taken and not served.
THEOREM DeathSafe == Spec => []NoJobDiesWithWorker
<1>1. IInv => NoJobDiesWithWorker
  BY DEF IInv, Flag, NoJobDiesWithWorker, BusyPCs
<1>. QED  BY <1>1, Inductive, PTL

-----------------------------------------------------------------------------
(* No lost wakeup                                                          *)

\* The worker holds g_cond_mutex from its look at the list to the wait, and
\* an item that arrives meanwhile is still to be signalled.
Wakeup ==
    /\ wpc \in {"look", "unlink", "block", "unlockCond"} => condLock = Worker
    /\ wpc \in {"block", "wait"} /\ queue # <<>> => \E j \in Jobs : cpc[j] = "signal"

LEMMA WakeupStep == ASSUME IInv, Wakeup, [Next]_vars PROVE Wakeup'
<1>. USE JobQueueAssumption DEF workerVars, callerVars, loaderVars
<1>0. cpc \in [Jobs -> CallerPCs] /\ (~created => wpc = "none")
  BY DEF IInv, TypeOK, Handle
<1>1. ASSUME NEW j \in Jobs, Caller(j) PROVE Wakeup'
  <2>1. CASE CreateJob(j)
    <3>1. \A k \in Jobs : cpc[k] = "signal" => cpc'[k] = "signal"
      BY <1>0, <2>1 DEF CreateJob
    <3>. QED  BY <2>1, <3>1 DEF CreateJob, Wakeup
  <2>2. CASE AppendItem(j)
    BY <1>0, <2>2 DEF AppendItem, Wakeup
  <2>3. CASE Signal(j)
    BY <2>3 DEF Signal, Wakeup
  <2>. QED  BY <1>1, <2>1, <2>2, <2>3 DEF Caller
<1>2. CASE WorkerStep \/ SpuriousWakeup
  BY <1>2 DEF WorkerStep, SpuriousWakeup, LockCond, RaiseFlag, Unlink, FindEmpty, Block, Resume,
              UnlockCond, OpenSession, Callback, FreeJob, ClearFlag, ActOnCancel, Wakeup
<1>3. CASE LoaderStep
  BY <1>0, <1>3 DEF LoaderStep, Load, BeginCleanup, ReadFlag, Relock, Recheck, Cancel, Join,
              Unlock, CloseXen, Release, image, Wakeup
<1>4. CASE UNCHANGED vars
  BY <1>4 DEF vars, Wakeup
<1>. QED  BY <1>1, <1>2, <1>3, <1>4 DEF Next

\* A worker that waits beside a list that is not empty is about to be
\* signalled, although the list has a mutex of its own.
THEOREM WakeupSafe == Spec => []NoLostWakeup
<1>1. Init => Wakeup
  BY DEF Init, Wakeup
<1>2. IInv /\ Wakeup /\ [Next]_vars => Wakeup'
  BY WakeupStep
<1>3. Wakeup => NoLostWakeup
  BY DEF Wakeup, NoLostWakeup
<1>. QED  BY <1>1, <1>2, <1>3, Inductive, PTL DEF Spec

-----------------------------------------------------------------------------
(* A CIMOM that lets the calls in flight return before it cleans up        *)

\* From the unlocked jobs_running on, nothing arrives; once the flag has been
\* read too, nothing runs.
Quiet ==
    /\ lpc \in {"readFlag", "relock", "recheck", "cancel", "join", "unlock", "close", "closed"}
         => queue = <<>> /\ InFlight = {}
    /\ lpc \in {"relock", "recheck", "cancel", "join", "unlock", "close", "closed"}
         => wpc \notin BusyPCs

LEMMA QuietStep ==
    ASSUME ~cimom.overlap, IInv, Quiet, [Next]_vars
    PROVE  Quiet'
<1>. USE DEF workerVars, callerVars, loaderVars, InFlight, BusyPCs
<1>0. cpc \in [Jobs -> CallerPCs]
  BY DEF IInv, TypeOK
<1>1. ASSUME NEW j \in Jobs, Caller(j) PROVE Quiet'
  <2>1. CASE CreateJob(j)
    BY <2>1 DEF CreateJob, Callable, Quiet
  <2>2. CASE AppendItem(j)
    BY <2>2 DEF AppendItem, Quiet
  <2>3. CASE Signal(j)
    BY <1>0, <2>3 DEF Signal, Quiet
  <2>. QED  BY <1>1, <2>1, <2>2, <2>3 DEF Caller
<1>2. CASE WorkerStep \/ SpuriousWakeup
  BY <1>2 DEF WorkerStep, SpuriousWakeup, LockCond, RaiseFlag, Unlink, FindEmpty, Block, Resume,
              UnlockCond, OpenSession, Callback, FreeJob, ClearFlag, ActOnCancel, Quiet, IInv, Locks
<1>3. CASE LoaderStep
  BY <1>3 DEF LoaderStep, Load, BeginCleanup, ReadFlag, Relock, Recheck, Cancel, Join,
              Unlock, CloseXen, Release, image, Quiet, IInv, Flag
<1>4. CASE UNCHANGED vars
  BY <1>4 DEF vars, Quiet
<1>. QED  BY <1>1, <1>2, <1>3, <1>4 DEF Next

\* A cleanup that goes ahead finds no job waiting or running.
THEOREM UnloadSafe == Spec => []UnloadOnlyIdle
<1>. DEFINE Inv == ~cimom.overlap => Quiet
<1>1. Init => Inv
  BY DEF Init, Quiet
<1>2. IInv /\ Inv /\ [Next]_vars => Inv'
  BY QuietStep, SameCimom
<1>3. Inv => UnloadOnlyIdle
  BY DEF Quiet, UnloadOnlyIdle, Idle
<1>. QED  BY <1>1, <1>2, <1>3, Inductive, PTL DEF Spec

\* The flag is up only for a busy worker; the thread lives while the provider
\* is loaded and has ended when the cleanup returns.
Living ==
    /\ working => wpc \in BusyPCs
    /\ lpc = "unloaded" => wpc = "none" /\ ~created
    /\ lpc \in {"loaded", "readFlag", "relock", "recheck", "cancel"}
         => wpc \notin {"none", "dead"}
    /\ lpc \in {"unlock", "close", "closed"} => wpc = "dead"
    /\ lpc # "crashed"

LEMMA LivingStep ==
    ASSUME Careful, IInv, Quiet, Living, [Next]_vars
    PROVE  Living'
<1>. USE DEF Careful, workerVars, callerVars, loaderVars, BusyPCs
<1>1. ASSUME NEW j \in Jobs, Caller(j) PROVE Living'
  BY <1>1 DEF Caller, CreateJob, AppendItem, Signal, Living
<1>2. CASE WorkerStep \/ SpuriousWakeup
  BY <1>2 DEF WorkerStep, SpuriousWakeup, LockCond, RaiseFlag, Unlink, FindEmpty, Block, Resume,
              UnlockCond, OpenSession, Callback, FreeJob, ClearFlag, ActOnCancel, Living, IInv,
              Handle, Window
<1>3. CASE LoaderStep
  <2>1. CASE Load \/ BeginCleanup \/ ReadFlag
    BY <2>1 DEF Load, BeginCleanup, ReadFlag, Living
  <2>2. CASE Relock \/ Recheck
    BY <2>2 DEF Relock, Recheck, Living, Quiet
  <2>3. CASE Cancel \/ Join \/ Unlock \/ CloseXen
    BY <2>3 DEF Cancel, Join, Unlock, CloseXen, Living
  <2>4. CASE Release
    BY <2>4 DEF Release, image, Living, Quiet
  <2>. QED  BY <1>3, <2>1, <2>2, <2>3, <2>4 DEF LoaderStep
<1>4. CASE UNCHANGED vars
  BY <1>4 DEF vars, Living
<1>. QED  BY <1>1, <1>2, <1>3, <1>4 DEF Next

\* The library is never unmapped under a running worker, and no thread that
\* does not exist is cancelled, when thread creation succeeds.
THEOREM CrashSafe == Spec => []NeverCrashes
<1>. DEFINE Inv == Careful => Quiet /\ Living
<1>1. Init => Inv
  BY DEF Init, Quiet, Living
<1>2. IInv /\ Inv /\ [Next]_vars => Inv'
  BY QuietStep, LivingStep, SameCimom DEF Careful
<1>3. Inv => NeverCrashes
  BY DEF Living, NeverCrashes
<1>. QED  BY <1>1, <1>2, <1>3, Inductive, PTL DEF Spec

-----------------------------------------------------------------------------
(* The queue implements the abstract job service (safety part)             *)

Enqueued == {"signal", "accepted"}

\* Each job is at one place: waiting, in the worker's hands, or over.
Once ==
    /\ \A i, k \in DOMAIN queue : queue[i] = queue[k] => i = k
    /\ \A i \in DOMAIN queue :
         cpc[queue[i]] \in Enqueued /\ outcome[queue[i]] = "none" /\ queue[i] # wjob
    /\ wjob # NoJob => cpc[wjob] \in Enqueued
    /\ \A j \in Jobs : outcome[j] # "none" => cpc[j] \in Enqueued
    /\ wpc \in {"unlockCond", "open", "callback"} => outcome[wjob] = "none"
    /\ wpc \in {"free", "clear"} => outcome[wjob] # "none"

LEMMA OnceInit == Init => Once
  BY DEF Init, Once

\* What the callers do: a job joins the list once, at its end.
LEMMA OnceCaller == ASSUME IInv, Once, NEW j \in Jobs, Caller(j) PROVE Once'
<1>. USE JobQueueAssumption DEF workerVars, loaderVars
<1>0. /\ cpc \in [Jobs -> CallerPCs] /\ queue \in Seq(Jobs)
      /\ wjob \in Jobs \cup {NoJob} /\ outcome \in [Jobs -> Outcomes]
  BY DEF IInv, TypeOK
<1>1. CASE CreateJob(j)
  <2>1. \A k \in Jobs : cpc[k] \in Enqueued => cpc'[k] \in Enqueued
    BY <1>0, <1>1 DEF CreateJob, Enqueued
  <2>2. \A i \in DOMAIN queue : queue[i] \in Jobs
    BY <1>0
  <2>. QED  BY <1>0, <1>1, <2>1, <2>2 DEF CreateJob, Once
<1>2. CASE AppendItem(j)
  <2>1. /\ queue' = Append(queue, j) /\ cpc' = [cpc EXCEPT ![j] = "signal"]
        /\ wjob' = wjob /\ outcome' = outcome /\ wpc' = wpc /\ cpc[j] = "append"
    BY <1>2 DEF AppendItem, callerVars
  <2>2. /\ DOMAIN queue' = 1..(Len(queue) + 1)
        /\ \A i \in DOMAIN queue' : queue'[i] = IF i \in DOMAIN queue THEN queue[i] ELSE j
        /\ \A i \in DOMAIN queue' : i \in DOMAIN queue \/ i = Len(queue) + 1
        /\ \A i \in DOMAIN queue : queue[i] \in Jobs
    BY <1>0, <2>1
  <2>3. /\ \A i \in DOMAIN queue : queue[i] # j
        /\ outcome[j] = "none" /\ wjob # j
    BY <1>0, <2>1 DEF Once, Enqueued
  <2>4. \A k \in Jobs : cpc'[k] \in Enqueued <=> cpc[k] \in Enqueued \/ k = j
    BY <1>0, <2>1 DEF Enqueued
  <2>. HIDE DEF Enqueued
  <2>. QED  BY <1>0, <2>1, <2>2, <2>3, <2>4 DEF Once
<1>3. CASE Signal(j)
  BY <1>0, <1>3 DEF Signal, Once, Enqueued
<1>. QED  BY <1>1, <1>2, <1>3 DEF Caller

\* What the worker does: the job it takes leaves the list for good.
LEMMA OnceWorker == ASSUME IInv, Once, WorkerStep \/ SpuriousWakeup PROVE Once'
<1>. USE JobQueueAssumption DEF loaderVars, callerVars
<1>0. /\ queue \in Seq(Jobs) /\ wjob \in Jobs \cup {NoJob} /\ outcome \in [Jobs -> Outcomes]
      /\ wpc \in WorkerPCs
      /\ wpc \in BusyPCs \ {"unlink"} <=> wjob # NoJob
      /\ wpc = "unlink" => queue # <<>>
  BY DEF IInv, TypeOK, Flag, Locks
<1>1. CASE Unlink
  <2>1. /\ queue' = Tail(queue) /\ wjob' = Head(queue) /\ outcome' = outcome /\ cpc' = cpc
        /\ wpc = "unlink" /\ wpc' = "unlockCond" /\ queue # <<>>
    BY <1>0, <1>1 DEF Unlink
  <2>2. /\ 1 \in DOMAIN queue /\ wjob' = queue[1] /\ queue[1] \in Jobs
        /\ \A i \in DOMAIN queue' : /\ i + 1 \in DOMAIN queue /\ i + 1 # 1
                                    /\ queue'[i] = queue[i + 1]
        /\ \A i, k \in DOMAIN queue' : i + 1 = k + 1 => i = k
    BY <1>0, <2>1
  <2>. QED  BY <2>1, <2>2 DEF Once
<1>2. CASE OpenSession \/ Callback
  <2>1. wjob \in Jobs /\ outcome[wjob] = "none" /\ cpc[wjob] \in Enqueued
    BY <1>0, <1>2 DEF OpenSession, Callback, Once, BusyPCs
  <2>2. \A j \in Jobs : j # wjob => outcome'[j] = outcome[j]
    BY <1>0, <1>2 DEF OpenSession, Callback
  <2>3. \A i \in DOMAIN queue : queue[i] \in Jobs
    BY <1>0
  <2>4. CASE wpc' = "free"
    <3>1. outcome'[wjob] # "none"
      BY <1>0, <1>2, <2>1, <2>4 DEF OpenSession, Callback
    <3>. QED
      BY <1>0, <1>2, <2>1, <2>2, <2>3, <2>4, <3>1 DEF OpenSession, Callback, Once
  <2>5. CASE wpc' = "callback"
    BY <1>0, <1>2, <2>1, <2>5 DEF OpenSession, Callback, Once
  <2>. QED  BY <1>2, <2>4, <2>5 DEF OpenSession, Callback
<1>3. CASE LockCond \/ RaiseFlag \/ FindEmpty \/ Block \/ Resume \/ UnlockCond \/ SpuriousWakeup
  BY <1>0, <1>3 DEF LockCond, RaiseFlag, FindEmpty, Block, Resume, UnlockCond, SpuriousWakeup, Once
<1>4. CASE FreeJob \/ ActOnCancel
  BY <1>0, <1>4 DEF FreeJob, ActOnCancel, Once
<1>5. CASE ClearFlag
  BY <1>0, <1>5 DEF ClearFlag, Once
<1>. QED  BY <1>1, <1>2, <1>3, <1>4, <1>5 DEF WorkerStep

\* What the loader does: an unload forgets the list, when it is empty.
LEMMA OnceLoader ==
    ASSUME IInv, ~cimom.overlap => Quiet, Once, LoaderStep
    PROVE  Once' /\ UNCHANGED <<queue, wjob, outcome>>
<1>. USE JobQueueAssumption DEF workerVars, callerVars
<1>1. CASE Load
  BY <1>1 DEF Load, Once, IInv, Handle
<1>2. CASE BeginCleanup \/ ReadFlag \/ Relock \/ Recheck \/ Cancel \/ Join \/ Unlock \/ CloseXen
  BY <1>2 DEF BeginCleanup, ReadFlag, Relock, Recheck, Cancel, Join, Unlock, CloseXen, Once
<1>3. CASE Release
  <2>1. UNCHANGED <<queue, wjob, outcome, cpc>> /\ wpc' \in {wpc, "none"}
    <3>1. ~(cimom.overlap /\ cimom.unmaps)
      BY DEF IInv, TypeOK
    <3>. QED  BY <1>3, <3>1 DEF Release, image, Quiet
  <2>. QED  BY <2>1 DEF Once
<1>. QED  BY <1>1, <1>2, <1>3 DEF LoaderStep

\* The served jobs of the abstract service.
Served == {j \in Jobs : outcome[j] # "none"} \ {wjob}

\* A step of a caller accepts a job or does nothing the service can tell.
LEMMA CallerRefines ==
    ASSUME IInv, Once, NEW j \in Jobs, Caller(j)
    PROVE  [Abstract!Next]_(Abstract!vars)
<1>. USE DEF workerVars, callerVars, loaderVars
<1>0. queue \in Seq(Jobs) /\ cpc \in [Jobs -> CallerPCs]
  BY DEF IInv, TypeOK
<1>1. CASE CreateJob(j) \/ Signal(j)
  BY <1>1 DEF CreateJob, Signal, Abstract!vars
<1>2. CASE AppendItem(j)
  <2>1. /\ queue' = Append(queue, j) /\ UNCHANGED <<wjob, outcome>> /\ cpc[j] = "append"
    BY <1>2 DEF AppendItem
  <2>2. j \notin Abstract!Waiting
    BY <2>1 DEF Abstract!Waiting, Once, Enqueued
  <2>3. j # wjob /\ j \notin Served
    BY <2>1, JobQueueAssumption DEF Once, Enqueued, Served
  <2>4. Abstract!Accept(j)
    BY <2>1, <2>2, <2>3 DEF Abstract!Accept, Served
  <2>. QED  BY <2>4 DEF Abstract!Next
<1>. QED  BY <1>1, <1>2 DEF Caller

\* A step of the worker takes the first waiting job, finishes the job it has,
\* or does nothing the service can tell.
LEMMA WorkerRefines ==
    ASSUME IInv, Once, WorkerStep \/ SpuriousWakeup
    PROVE  [Abstract!Next]_(Abstract!vars)
<1>. USE JobQueueAssumption DEF callerVars, loaderVars
<1>0. /\ queue \in Seq(Jobs) /\ wjob \in Jobs \cup {NoJob} /\ outcome \in [Jobs -> Outcomes]
      /\ wpc \in BusyPCs \ {"unlink"} <=> wjob # NoJob
      /\ wpc = "unlink" => queue # <<>>
  BY DEF IInv, TypeOK, Flag, Locks
<1>1. CASE Unlink
  <2>1. /\ queue # <<>> /\ wjob = NoJob /\ outcome' = outcome
        /\ wjob' = Head(queue) /\ queue' = Tail(queue)
    BY <1>0, <1>1 DEF Unlink
  <2>2. outcome[wjob'] = "none" /\ wjob' \in Jobs
    BY <1>0, <2>1 DEF Once
  <2>3. Served' = Served
    BY <2>1, <2>2 DEF Served
  <2>4. Abstract!Take
    BY <2>1, <2>3 DEF Abstract!Take, Served
  <2>. QED  BY <2>4 DEF Abstract!Next
<1>2. CASE ClearFlag
  <2>1. /\ wjob # NoJob /\ wjob \in Jobs /\ outcome[wjob] # "none"
        /\ wjob' = NoJob /\ UNCHANGED <<queue, outcome>>
    BY <1>0, <1>2 DEF ClearFlag, Once, BusyPCs
  <2>2. Served' = Served \cup {wjob}
    BY <2>1 DEF Served
  <2>3. Abstract!Finish
    BY <2>1, <2>2 DEF Abstract!Finish, Served
  <2>. QED  BY <2>3 DEF Abstract!Next
<1>3. CASE OpenSession \/ Callback
  <2>1. UNCHANGED <<queue, wjob>>
    BY <1>3 DEF OpenSession, Callback
  <2>2. \A j \in Jobs : j # wjob => outcome'[j] = outcome[j]
    BY <1>0, <1>3 DEF OpenSession, Callback
  <2>3. Served' = Served
    BY <2>1, <2>2 DEF Served
  <2>. QED  BY <2>1, <2>3 DEF Abstract!vars, Served
<1>4. CASE LockCond \/ RaiseFlag \/ FindEmpty \/ Block \/ Resume \/ UnlockCond \/ FreeJob
           \/ SpuriousWakeup \/ ActOnCancel
  BY <1>4 DEF LockCond, RaiseFlag, FindEmpty, Block, Resume, UnlockCond, FreeJob, SpuriousWakeup,
              ActOnCancel, Abstract!vars
<1>. QED  BY <1>1, <1>2, <1>3, <1>4 DEF WorkerStep

\* Every behaviour of the queue, its locks, its worker and its loader is one
\* of the abstract job service.
THEOREM Refines == Spec => Abstract!Spec
<1>. DEFINE Inv == (~cimom.overlap => Quiet) /\ Once
<1>1. Init => Inv /\ Abstract!Init
  <2>1. Init => Abstract!Init
    BY DEF Init, Abstract!Init
  <2>. QED  BY <2>1, OnceInit DEF Init, Quiet
<1>2. IInv /\ Inv /\ [Next]_vars => Inv' /\ [Abstract!Next]_(Abstract!vars)
  <2>. SUFFICES ASSUME IInv, Inv, [Next]_vars
                PROVE  Once' /\ [Abstract!Next]_(Abstract!vars)
    BY QuietStep, SameCimom
  <2>1. CASE LoaderStep
    BY <2>1, OnceLoader DEF Abstract!vars
  <2>2. CASE UNCHANGED vars
    BY <2>2 DEF vars, Once, Abstract!vars
  <2>. QED
    BY <2>1, <2>2, OnceCaller, OnceWorker, CallerRefines, WorkerRefines DEF Next
<1>. QED  BY <1>1, <1>2, Inductive, PTL DEF Spec, Abstract!Spec
=============================================================================
