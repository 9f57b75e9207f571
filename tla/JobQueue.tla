------------------------------ MODULE JobQueue ------------------------------
(***************************************************************************)
(* The asynchronous job queue of the method providers (Xen_Job_Helper.c)   *)
(* and the provider loader that starts and stops its worker thread         *)
(* (ProxyProvider.c).                                                      *)
(*                                                                         *)
(* Threads: one caller per job (a CIM InvokeMethod that ends in            *)
(* job_create), the single worker thread, and the loader, the CIMOM thread *)
(* that initialises and cleans up the method provider.  A step of a thread *)
(* is the code between two points where another thread can see or change   *)
(* what it works on.  The two mutexes are modelled by their owners; the    *)
(* list mutex is released in the step that took it, except where another   *)
(* thread can tell.                                                        *)
(***************************************************************************)
EXTENDS Naturals, Sequences, FiniteSets

CONSTANTS
    Jobs,           \* the job_create calls that may be made, one per job
    NoJob,          \* the NULL of the worker's "job" variable
    Worker,         \* the worker thread, as an owner of a mutex
    Loader,         \* the loader thread, as an owner of a mutex
    Free,           \* owner of a mutex that is not held
    MaxLoads,       \* bound: how often the provider is loaded
    Cimoms          \* the kinds of CIMOM, and of system, the provider may meet

\* overlap: it may clean up while calls are in flight; unmaps: it unmaps the
\* library after a cleanup; createMayFail: pthread_create may fail.
Environments == [overlap : BOOLEAN, unmaps : BOOLEAN, createMayFail : BOOLEAN]

ASSUME JobQueueAssumption ==
    /\ NoJob \notin Jobs
    /\ Worker # Loader /\ Worker # Free /\ Loader # Free
    /\ MaxLoads \in Nat
    /\ Cimoms \subseteq Environments
    /\ \A c \in Cimoms : ~(c.overlap /\ c.unmaps)  \* nobody unmaps code that runs

VARIABLES
    queue,      \* g_workitem_list
    working,    \* g_bAsync_worker_working_on_job
    created,    \* g_async_worker_thread # 0
    listLock,   \* owner of g_workitem_list_mutex
    condLock,   \* owner of g_cond_mutex
    wpc,        \* where the worker thread is
    wjob,       \* its local variable job
    cancelReq,  \* pthread_cancel has been called on it
    cpc,        \* where the caller of each job is
    outcome,    \* what became of each job
    lpc,        \* where the loader is
    loads,      \* how often the provider has been loaded
    cimom       \* the CIMOM of this behaviour; it never changes

workerVars == <<wpc, wjob>>
callerVars == <<cpc, outcome, cimom>>
image == <<queue, working, created, listLock, condLock, wpc>>  \* goes with the library
loaderVars == <<lpc, loads, cancelReq, created, cimom>>
vars == <<queue, working, created, listLock, condLock, wpc, wjob, cancelReq,
          cpc, outcome, lpc, loads, cimom>>

WorkerPCs == {"none", "lockCond", "look", "unlink", "block", "wait", "woken",
              "unlockCond", "open", "callback", "free", "clear", "dead"}
CallerPCs == {"idle", "append", "signal", "accepted", "refused"}
LoaderPCs == {"unloaded", "loaded", "readFlag", "relock", "recheck", "cancel",
              "join", "unlock", "close", "closed", "crashed"}
Outcomes  == {"none", "called", "dropped"}

-----------------------------------------------------------------------------

Init ==
    /\ queue = <<>> /\ working = FALSE /\ created = FALSE
    /\ listLock = Free /\ condLock = Free
    /\ wpc = "none" /\ wjob = NoJob /\ cancelReq = FALSE
    /\ cpc = [j \in Jobs |-> "idle"]
    /\ outcome = [j \in Jobs |-> "none"]
    /\ lpc = "unloaded" /\ loads = 0
    /\ cimom \in Cimoms

\* Every thread of the process stops when it crashes.
Alive == lpc # "crashed"

InFlight == {j \in Jobs : cpc[j] \in {"append", "signal"}}

\* The provider can be called: once it is initialised, and, when the CIMOM
\* lets calls and the cleanup overlap, until the cleanup has returned.
Callable == \/ lpc = "loaded"
            \/ cimom.overlap /\ lpc \notin {"unloaded", "closed", "crashed"}

-----------------------------------------------------------------------------
(* The callers                                                             *)

\* job_create up to the enqueue: job_alloc makes the xen task, or fails.
CreateJob(j) ==
    /\ Callable
    /\ cpc[j] = "idle"
    /\ \E pc \in {"append", "refused"} : cpc' = [cpc EXCEPT ![j] = pc]
    /\ UNCHANGED <<queue, working, listLock, condLock, workerVars, outcome, loaderVars>>

\* Mutant: the enqueue forgets to copy the job into the new item.
AppendItem_NullJob(j) ==
    /\ Alive
    /\ cpc[j] = "append"
    /\ listLock = Free
    /\ queue' = Append(queue, NoJob)
    /\ cpc' = [cpc EXCEPT ![j] = "signal"]
    /\ UNCHANGED <<working, listLock, condLock, workerVars, outcome, loaderVars>>

\* Mutant: a new item is put before the others.
AppendItem_Lifo(j) ==
    /\ Alive
    /\ cpc[j] = "append"
    /\ listLock = Free
    /\ queue' = <<j>> \o queue
    /\ cpc' = [cpc EXCEPT ![j] = "signal"]
    /\ UNCHANGED <<working, listLock, condLock, workerVars, outcome, loaderVars>>

\* First half of _workitem_enqueue: the list, under its mutex.
AppendItem(j) ==
    /\ Alive
    /\ cpc[j] = "append"
    /\ listLock = Free
    /\ queue' = Append(queue, j)
    /\ cpc' = [cpc EXCEPT ![j] = "signal"]
    /\ UNCHANGED <<working, listLock, condLock, workerVars, outcome, loaderVars>>

\* Mutant: the condition is signalled without its mutex.
Signal_Unlocked(j) ==
    /\ Alive
    /\ cpc[j] = "signal"
    /\ wpc' = IF wpc = "wait" THEN "woken" ELSE wpc
    /\ cpc' = [cpc EXCEPT ![j] = "accepted"]
    /\ UNCHANGED <<queue, working, listLock, condLock, wjob, outcome, loaderVars>>

\* Mutant: only the caller that finds its item alone in the list signals.
Signal_OnlyFirst(j) ==
    /\ Alive
    /\ cpc[j] = "signal"
    /\ condLock = Free
    /\ wpc' = IF wpc = "wait" /\ Len(queue) = 1 THEN "woken" ELSE wpc
    /\ cpc' = [cpc EXCEPT ![j] = "accepted"]
    /\ UNCHANGED <<queue, working, listLock, condLock, wjob, outcome, loaderVars>>

\* Second half of _workitem_enqueue: the condition variable, under its own.
Signal(j) ==
    /\ Alive
    /\ cpc[j] = "signal"
    /\ condLock = Free
    /\ wpc' = IF wpc = "wait" THEN "woken" ELSE wpc
    /\ cpc' = [cpc EXCEPT ![j] = "accepted"]
    /\ UNCHANGED <<queue, working, listLock, condLock, wjob, outcome, loaderVars>>

Caller(j) == CreateJob(j) \/ AppendItem(j) \/ Signal(j)

-----------------------------------------------------------------------------
(* The worker thread: _workitem_dequeue                                    *)

LockCond ==
    /\ Alive
    /\ wpc = "lockCond"
    /\ condLock = Free
    /\ condLock' = Worker
    /\ wpc' = "look"
    /\ UNCHANGED <<queue, working, listLock, wjob, callerVars, loaderVars>>

\* The list is not empty: the flag goes up first, with the list mutex held.
RaiseFlag ==
    /\ Alive
    /\ wpc = "look"
    /\ listLock = Free
    /\ queue # <<>>
    /\ listLock' = Worker
    /\ working' = TRUE
    /\ wpc' = "unlink"
    /\ UNCHANGED <<queue, condLock, wjob, callerVars, loaderVars>>

\* ... and only then the first item leaves the list.
Unlink ==
    /\ Alive
    /\ wpc = "unlink"
    /\ wjob' = Head(queue)
    /\ queue' = Tail(queue)
    /\ listLock' = Free
    /\ wpc' = "unlockCond"
    /\ UNCHANGED <<working, condLock, callerVars, loaderVars>>

\* The list is empty, so far: an item may be appended before the wait begins.
FindEmpty ==
    /\ Alive
    /\ wpc = "look"
    /\ listLock = Free
    /\ queue = <<>>
    /\ working' = FALSE
    /\ wpc' = "block"
    /\ UNCHANGED <<queue, listLock, condLock, wjob, callerVars, loaderVars>>

\* pthread_cond_wait releases g_cond_mutex as it blocks.
Block ==
    /\ Alive
    /\ wpc = "block"
    /\ condLock' = Free
    /\ wpc' = "wait"
    /\ UNCHANGED <<queue, working, listLock, wjob, callerVars, loaderVars>>

\* POSIX lets pthread_cond_wait return without a signal.
SpuriousWakeup ==
    /\ Alive
    /\ wpc = "wait"
    /\ wpc' = "woken"
    /\ UNCHANGED <<queue, working, listLock, condLock, wjob, callerVars, loaderVars>>

\* pthread_cond_wait returns with g_cond_mutex locked again.
Resume ==
    /\ Alive
    /\ wpc = "woken"
    /\ condLock = Free
    /\ condLock' = Worker
    /\ wpc' = "look"
    /\ UNCHANGED <<queue, working, listLock, wjob, callerVars, loaderVars>>

UnlockCond ==
    /\ Alive
    /\ wpc = "unlockCond"
    /\ condLock' = Free
    /\ wpc' = "open"
    /\ UNCHANGED <<queue, working, listLock, wjob, callerVars, loaderVars>>

(* The worker thread: job_worker_thread_func                               *)

\* The user's context and a fresh xapi session; without them the callback is
\* not called, and nothing but a trace line tells.
OpenSession ==
    /\ Alive
    /\ wpc = "open"
    /\ \/ /\ wpc' = "callback"
          /\ UNCHANGED outcome
       \/ /\ wpc' = "free"
          /\ outcome' = [outcome EXCEPT ![wjob] = "dropped"]
    /\ UNCHANGED <<queue, working, listLock, condLock, wjob, cpc, loaderVars>>

Callback ==
    /\ Alive
    /\ wpc = "callback"
    /\ outcome' = [outcome EXCEPT ![wjob] = "called"]
    /\ wpc' = "free"
    /\ UNCHANGED <<queue, working, listLock, condLock, wjob, cpc, loaderVars>>

FreeJob ==
    /\ Alive
    /\ wpc = "free"
    /\ wpc' = "clear"
    /\ UNCHANGED <<queue, working, listLock, condLock, wjob, callerVars, loaderVars>>

ClearFlag ==
    /\ Alive
    /\ wpc = "clear"
    /\ working' = FALSE
    /\ wjob' = NoJob
    /\ wpc' = "lockCond"
    /\ UNCHANGED <<queue, listLock, condLock, callerVars, loaderVars>>

\* A pending pthread_cancel takes effect at a cancellation point only: the
\* wait, which locks g_cond_mutex again before the thread ends and leaves it
\* locked (no cleanup handler is pushed), and the calls to xapi.
ActOnCancel ==
    /\ Alive
    /\ cancelReq
    /\ wpc \in {"wait", "woken", "open", "callback"}
    /\ wpc \in {"wait", "woken"} => condLock = Free
    /\ condLock' = IF wpc \in {"wait", "woken"} THEN Worker ELSE condLock
    /\ wpc' = "dead"
    /\ UNCHANGED <<queue, working, listLock, wjob, callerVars, loaderVars>>

WorkerStep ==
    \/ LockCond \/ RaiseFlag \/ Unlink \/ FindEmpty \/ Block \/ Resume \/ UnlockCond
    \/ OpenSession \/ Callback \/ FreeJob \/ ClearFlag \/ ActOnCancel

-----------------------------------------------------------------------------
(* The loader                                                              *)

\* XenCommonMethodInitialize and jobs_initialize.  The thread is started only
\* if the handle is still zero; a failure to start it is returned, and ignored.
Load ==
    /\ lpc = "unloaded"
    /\ loads < MaxLoads
    /\ listLock = Free
    /\ \/ /\ created
          /\ UNCHANGED <<created, wpc>>
       \/ /\ ~created
          /\ created' = TRUE
          /\ wpc' = "lockCond"
       \/ /\ ~created /\ cimom.createMayFail
          /\ UNCHANGED <<created, wpc>>
    /\ loads' = loads + 1
    /\ lpc' = "loaded"
    /\ UNCHANGED <<queue, working, listLock, condLock, wjob, cancelReq, callerVars>>

\* XenCommonMethodCleanup calls jobs_running, which takes no lock: the list ...
BeginCleanup ==
    /\ lpc = "loaded"
    /\ cimom.overlap \/ InFlight = {}
    /\ queue = <<>>             \* otherwise CMPI_RC_DO_NOT_UNLOAD, and no change
    /\ lpc' = "readFlag"
    /\ UNCHANGED <<queue, working, listLock, condLock, workerVars, callerVars,
                   loads, cancelReq, created>>

\* ... and then the flag.
ReadFlag ==
    /\ lpc = "readFlag"
    /\ lpc' = IF working THEN "loaded" ELSE "relock"
    /\ UNCHANGED <<queue, working, listLock, condLock, workerVars, callerVars,
                   loads, cancelReq, created>>

\* Mutant: jobs_uninitialize does nothing, as its disabled #if 0 would have it.
Relock_Disabled ==
    /\ lpc = "relock"
    /\ listLock = Free
    /\ listLock' = Loader
    /\ lpc' = "unlock"
    /\ UNCHANGED <<queue, working, condLock, workerVars, callerVars,
                   loads, cancelReq, created>>

\* jobs_uninitialize takes the list mutex and calls jobs_running again.
Relock ==
    /\ lpc = "relock"
    /\ listLock = Free
    /\ listLock' = Loader
    /\ lpc' = IF queue # <<>> THEN "unlock" ELSE "recheck"
    /\ UNCHANGED <<queue, working, condLock, workerVars, callerVars,
                   loads, cancelReq, created>>

\* Mutant: jobs_uninitialize looks at the list only.
Recheck_Ignored ==
    /\ lpc = "recheck"
    /\ lpc' = "cancel"
    /\ UNCHANGED <<queue, working, listLock, condLock, workerVars, callerVars,
                   loads, cancelReq, created>>

Recheck ==
    /\ lpc = "recheck"
    /\ lpc' = IF working THEN "unlock" ELSE "cancel"
    /\ UNCHANGED <<queue, working, listLock, condLock, workerVars, callerVars,
                   loads, cancelReq, created>>

\* pthread_cancel.  On a handle that names no thread it is undefined: the
\* C library reports an error, which is ignored, or the process crashes.
Cancel ==
    /\ lpc = "cancel"
    /\ IF wpc \in {"none", "dead"}
         THEN lpc' \in {"unlock", "crashed"} /\ UNCHANGED cancelReq
         ELSE lpc' = "join" /\ cancelReq' = TRUE
    /\ UNCHANGED <<queue, working, listLock, condLock, workerVars, callerVars,
                   loads, created>>

\* pthread_join returns when the thread has ended; the list mutex is held.
Join ==
    /\ lpc = "join"
    /\ wpc = "dead"
    /\ lpc' = "unlock"
    /\ cancelReq' = FALSE
    /\ UNCHANGED <<queue, working, listLock, condLock, workerVars, callerVars,
                   loads, created>>

Unlock ==
    /\ lpc = "unlock"
    /\ listLock' = Free
    /\ lpc' = "close"
    /\ UNCHANGED <<queue, working, condLock, workerVars, callerVars,
                   loads, cancelReq, created>>

\* xen_utils_xen_close; the cleanup returns CMPI_RC_OK whatever
\* jobs_uninitialize found.
CloseXen ==
    /\ lpc = "close"
    /\ lpc' = "closed"
    /\ UNCHANGED <<queue, working, listLock, condLock, workerVars, callerVars,
                   loads, cancelReq, created>>

\* The CIMOM after a cleanup that returned CMPI_RC_OK: it unmaps the library,
\* so that its static variables start afresh and a thread that still runs in
\* it crashes the process, or keeps it mapped for a later load.
Release ==
    /\ lpc = "closed"
    /\ IF ~cimom.unmaps
         THEN lpc' = "unloaded" /\ UNCHANGED image
         ELSE IF wpc \in {"none", "dead"} /\ InFlight = {}
                THEN /\ lpc' = "unloaded"
                     /\ queue' = <<>> /\ working' = FALSE /\ created' = FALSE
                     /\ listLock' = Free /\ condLock' = Free /\ wpc' = "none"
                ELSE lpc' = "crashed" /\ UNCHANGED image
    /\ UNCHANGED <<wjob, callerVars, loads, cancelReq>>

LoaderStep == Load \/ BeginCleanup \/ ReadFlag \/ Relock \/ Recheck \/ Cancel
              \/ Join \/ Unlock \/ CloseXen \/ Release

-----------------------------------------------------------------------------

Next == (\E j \in Jobs : Caller(j)) \/ WorkerStep \/ SpuriousWakeup \/ LoaderStep

Spec == Init /\ [][Next]_vars

\* The operating system runs every thread that can run: a caller that has
\* started job_create, the worker, and a cleanup under way; a mutex that keeps
\* being released is obtained in the end (the strong fairness).  Nobody is
\* obliged to call, to load or to begin a cleanup.
Fairness ==
    /\ \A j \in Jobs : SF_vars(AppendItem(j)) /\ SF_vars(Signal(j))
    /\ WF_vars(WorkerStep)
    /\ SF_vars(Relock)
    /\ WF_vars(ReadFlag \/ Recheck \/ Cancel \/ Join \/ Unlock \/ CloseXen \/ Release)

FairSpec == Spec /\ Fairness

-----------------------------------------------------------------------------
(* Properties                                                              *)

\* The worker holds a job that it has taken from the list and not yet freed.
BusyPCs == {"unlink", "unlockCond", "open", "callback", "free", "clear"}
Idle == queue = <<>> /\ wpc \notin BusyPCs

\* Every variable stays in its range.
TypeOK ==
    /\ queue \in Seq(Jobs)
    /\ working \in BOOLEAN /\ created \in BOOLEAN /\ cancelReq \in BOOLEAN
    /\ listLock \in {Free, Worker, Loader} /\ condLock \in {Free, Worker}
    /\ wpc \in WorkerPCs /\ wjob \in Jobs \cup {NoJob}
    /\ cpc \in [Jobs -> CallerPCs] /\ outcome \in [Jobs -> Outcomes]
    /\ lpc \in LoaderPCs /\ loads \in 0..MaxLoads /\ cimom \in Cimoms

\* Whatever the CIMOM does, the worker is cancelled only between jobs: from
\* the second jobs_running (jobs_uninitialize, under the list mutex) until the
\* thread is joined, no job waits and none is being served, although the flag
\* the worker raises is read without any lock of its own.
CancelOnlyIdle == lpc \in {"cancel", "join"} => Idle

\* A worker thread that has ended took no job with it.
NoJobDiesWithWorker == wpc = "dead" => wjob = NoJob

\* When the CIMOM lets calls in flight return before it cleans up, a cleanup
\* that goes ahead after its unlocked jobs_running does so with no job waiting
\* or running: "used to prevent a library from unloading when an async job has
\* been scheduled/is running" (Xen_Job_Helper.c:155).
UnloadOnlyIdle ==
    /\ ~cimom.overlap
    /\ lpc \in {"relock", "recheck", "cancel", "join", "unlock", "close", "closed"}
    => Idle /\ InFlight = {}

\* What EnqueuedIsServed and NeverCrashes ask of the CIMOM and the system.
Careful == ~cimom.overlap /\ cimom.unmaps /\ ~cimom.createMayFail

\* ... and the library is never unmapped under a running worker thread.
NeverCrashes == Careful => lpc # "crashed"

\* No wakeup is lost between the check of the list and the wait, which hold
\* different mutexes: a worker that waits beside a list that is not empty is
\* about to be signalled.
NoLostWakeup ==
    wpc = "wait" /\ queue # <<>> => \E j \in Jobs : cpc[j] = "signal"

\* A job that was put on the list is served, if only to be dropped.
EnqueuedIsServed ==
    Careful => \A j \in Jobs : cpc[j] = "signal" ~> outcome[j] # "none"

\* jobs_uninitialize returns: "wait till the async worker finishes"
\* (Xen_Job_Helper.c:202).
UninitializeReturns == lpc = "join" ~> lpc # "join"

\* The queue, its locks and its worker implement the abstract job service:
\* first come first served, each job once, one at a time, and, beside a careful
\* CIMOM, none forgotten.
Abstract == INSTANCE AbstractJobs WITH
    pending <- queue,
    current <- wjob,
    served  <- {j \in Jobs : outcome[j] # "none"} \ {wjob}
ImplementsAbstractJobs == Abstract!Spec /\ (Careful => Abstract!Fairness)
=============================================================================
