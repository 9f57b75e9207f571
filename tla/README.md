# xs-cim: a verification project

TLA+ models, TLC runs and TLAPS proofs for the CIM providers of XenServer. The providers are a
library that a CIM server (the CIMOM: sfcb or OpenPegasus) loads. It translates CIM requests into
calls to xapi, the XenServer toolstack, through libxenserver. What takes long is done by
asynchronous *jobs* on one worker thread, and a job is visible to its client through a xapi
*task*. Paths below are relative to the repository, whose C code is in `src/`.

## 1. Inventory

| component | state | operations | what is hard | what makes it correct |
|---|---|---|---|---|
| job queue and worker (`src/Xen_Job_Helper.c`, the method half of `src/ProxyProvider.c`) | list of work items, list mutex, condition mutex, working flag, thread handle | `job_create`, enqueue, dequeue, `jobs_initialize`, `jobs_running`, `jobs_uninitialize`, load and cleanup by the CIMOM | two mutexes around one condition; unlocked reads decide about an unload; cancelling a thread | no accepted job dies with the worker, no unload under it, no lost wakeup, FIFO, a cleanup ends |
| job objects (`src/Xen_Job.c`) | the task's `other_config` | `job_alloc`, `job_change_state`, KillJob, DeleteInstance, enumeration | a client destroys the task at any time; a task can neither be updated nor tell why | every job ends for its client; nothing acts for a job that was killed before it ran |
| machine state changes (`src/Xen_ComputerSystem.c`) | power state of the machine (in xapi) | RequestStateChange and its job | state read, announced, then acted on; other clients; lost replies | Completed means done, Exception means untouched |
| host state changes (`src/Xen_HostComputerSystem.c`) | enabled flag, maintenance key, power | RequestStateChange and its job | several calls that belong together; an error of the session that is overridden | a failed shutdown restores the host; no machine-taking host is shown in maintenance |
| indications (`src/Xen_ComputerSystemIndication.c`) | filter count, enabled flag, thread id | Activate/DeActivateFilter, Enable/DisableIndications, the generator thread | unlocked statics, a thread that clears the record of its successor | subscribers are served; at most one generator |
| xapi library use count (`src/xen_utils.c`) | `ref_count` and its mutex | init, close, `close2` | an unload repeated; a mutex unlocked twice | libraries up for every user; count exact |
| sessions (`src/xen_utils.c`) | session records, call contexts | get, validate, reroute to the pool master, cleanup | the error path of the reroute | every session is closed once |
| system management (`src/Xen_VirtualSystemManagementService.c`) | machines, disks and the VBDs between them (in xapi) | DefineSystem, CopySystem, Add/Modify/RemoveResourceSettings, DestroySystem | a job of several calls that fails between them; an error that a loop must forget; disks that machines share | Completed means the whole machine; no half-made machine remains; no disk in use is destroyed |
| migration (`src/Xen_VirtualSystemMigrationService.c`) | place of the machine, keys of its channel | MigrateVirtualSystem, checks | the key-value channel is stopped and must be started again | a migration leaves the channel as it was |
| storage pools (`src/Xen_StoragePoolManagementService.c`) | disk images, transfer machines | create, delete, connect, disconnect | a transfer machine nobody knows about; timeouts | whoever exposes a disk leaves the handle |
| snapshots (`src/Xen_VirtualSystemSnapshotService.c`) | snapshots, exports | create, destroy, apply, start and end of an export | several disks and a session that must all be taken back | an ended export leaves nothing |
| switches (`src/Xen_VirtualSwitchManagementService.c`) | networks, bonds, VLANs (in xapi) | define, destroy, modify | several calls, undone by hand | nothing half-made remains |
| dispatch (`src/ProxyHelper.c`, `src/Xen_ProviderGeneric.c`) | provider tables, one static return code | enumerate, get, create, modify, delete | one static variable for all threads | each request gets its own answer |
| key-value channel (`kvpservice/`, `plugins/xscim`) | keys of the machine, switch rules, credentials | setup, clear, migrate, get and set pairs | retries, restart of the daemon | a machine's channel and its keys agree |
| resource providers, setting data, capabilities (`src/Xen_Disk.c` and the like) | none | list, read the next, look up a path, fill in properties | an object is listed, read and read about in three calls, and moves or goes between them; a path is made of what may change | enumerations miss nothing that stays; a path leads back to its object |
| associations, profiles, services (`src/associationProviderCommon.c`) | a constant table | Associators, AssociatorNames, References, ReferenceNames | the key of one side is cut out of a property of the other, by a long table | exactly what is related in xapi is associated, from both sides |
| CMPI glue and tracing, parser, watchdog, installation, schema, code generators | none of their own | - | - | - |

How they interact: the CIMOM calls the providers from any number of threads. A provider opens a
session for each call (`xen_utils_get_session`). A long operation is put on the queue
(`job_create`); the worker opens a session of its own, calls the job's callback, and frees the job.
The callback tells xapi of its state (`job_change_state`) and its client polls the task, through
`Xen_Job`, or destroys it. All users of libxenserver share one use count.

Two facts about libxenserver carry many of the models. `session->ok` is *sticky*: once it is false
every later call through that session returns at once, without reaching xapi, until somebody sets
it again. And `job_change_state` begins by setting it (it clears the error), so the outcome of an
update overwrites the outcome of what was done before.

## 2. The modules

| module | models | extends / instantiates |
|---|---|---|
| `AbstractJobs` | the promise of the job service: first come first served, once, one at a time | |
| `JobQueue` | queue, locks, worker thread, loader; refines `AbstractJobs` | instance of `AbstractJobs` |
| `JobTask` | a task and `job_change_state`, as operators | |
| `StateChange` | RequestStateChange of a machine and `_state_change_job` | `JobTask`, `AbstractJobs` |
| `HostStateChange` | the same of a host, with maintenance mode | `JobTask`, `AbstractJobs` |
| `IndicationProvider` | filters and generator threads | |
| `XenLibrary` | the use count | |
| `JobInstances` | requests about the instances of `Xen_Job`: sessions, enumeration, lookup, destruction | |
| `JobWorker` | the worker as a callback sees it | `JobTask`, `AbstractJobs` |
| `CopyJobs`, `MigrationJobs`, `TransferJobs` | the callbacks of the services | `JobWorker` |
| `ServiceJobs` | their composition on the one worker | the three above |
| `SystemManagement` | defining, equipping and destroying machines, by CIMOM threads and the worker | `JobTask`, `AbstractJobs` |
| `CimNames` | identifiers, put together and taken apart (`src/cmpiutil.c`) | |
| `XapiObjects` | the database of xapi, as the providers read it | `CimNames` |
| `MachineDevices`, `HostDevices` | the providers of the classes about machines and about hosts, pools and services, as operators on a database | `XapiObjects`; the one below the other |
| `CimProviders` | the table that finds the provider of a class, and requests in a database that stands still | `HostDevices` |
| `Associations` | the table of associations and the requests over it | `CimProviders` |
| `CimView` | requests one read at a time, in a database that other clients change | `Associations` |
| `MC...` | what a run adds: symmetry sets, sets of requests | |
| `..._proofs` | theorems | the component and TLAPS |

**JobQueue.** `queue`, `working`, `created` are `g_workitem_list`, `g_bAsync_worker_working_on_job`
and `g_async_worker_thread # 0`; `listLock` and `condLock` own the two mutexes. One action is the
code between two points at which another thread can see or change what it works on: raising the
flag and unlinking the item are two (`RaiseFlag`, `Unlink`) because `jobs_running` takes no lock.
The flag is stored before the item is unlinked, and `jobs_running` reads the list before the flag;
the shipped build (gcc on x86) keeps both orders, so neither race is turned into further outcomes.
`pthread_mutex_lock` is no cancellation point: `ActOnCancel` is enabled only in the wait and in calls
to xapi. `SpuriousWakeup` is there because POSIX allows it. The CIMOM and its system are described by
`cimom`, which is chosen once for a behaviour, from `Cimoms`: `overlap` (a cleanup may overlap calls
in flight), `unmaps` (a library that agreed to be unloaded is unmapped, so its statics start afresh),
`createMayFail` (`pthread_create`). `Careful` is the one without the first and the third, that unmaps:
what depends on it is stated as `Careful => ...`, so that one run asks what every CIMOM may rely on
and what only a careful one may. A worker that is running when the library is unmapped, or a cancel
of a thread that is not there, crashes the process.

**JobTask, and faults.** Every module with calls to xapi has a variable `faults`, chosen once for a
behaviour and never changed. If it holds, any call may fail without effect, or be carried out and
lose its reply. If it does not, calls fail only for reasons the code can meet in daily work: the
state of the machine forbids the call, xapi refuses a migration, a task is gone. So one run answers
two questions: what holds whatever fails, and, as `~faults => ...`, what holds in its absence.

**StateChange, HostStateChange.** All jobs are about one machine or one host, the case in which they
disturb each other. `pc` is where the worker is in the callback, `ok` the session's flag. History
variables (`announced`, `effect`, `before`) are never read by an action's guard. In the host module
every call is a step, since the host may go off between two of them and take the provider with it.

**ServiceJobs.** One `pc` for the one worker; a callback's places are named for what is done
there. Jobs of six kinds are submitted by `CopySystem`, `MigrateVirtualSystem`, `Connect` (for
ConnectToDiskImage and StartSnapshotForestExport) and `Disconnect` (for their counterparts, by a
client that has read a handle from the task of an earlier job). Transfer machines are set elements
`<<job, number>>`; they may time out. The channel of the machine is the set of its two keys in
`other_config`, changed by the commands of `kvpservice/kvpd.py`. `pc = "crashed"` is the end of the
process where the code takes the length of a null pointer or reads through one.

**SystemManagement.** The threads of the CIMOM and the worker run the same code for devices and for
destructions, so `thread[t]` holds the place, the session's `ok` and the locals of each, and an action
takes the thread as a parameter. A VBD is a triple of machine, slot and disk (`NoDisk` for an empty
drive); a disk's users are the VBDs that name it. `LookAtDisk` reads the users and flags in one step
and `DestroyDisk` acts on them in another. `_vm_vbds_destroy` resets the session before each VBD, and
`_vbd_destroy` looks at no result: the model keeps both, as the next call depends on them. `Report`
reads `rc`, which has a third value "unset" where the code never writes the status it reports.
`touched`, `disturbed`, `owned` and `lost` are history. Devices are members of a small set; what the
parser would have refused never arrives.

**CimView and the modules below it.** A provider is five functions: the key of its class, what
`list_enum` puts on its list, what `record_getnext` and `record_get_from_id` read, and the
properties it fills in. Each is an operator of a database; `record_getnext` yields a set of at most
one resource, `Crash` stands for reading through the null pointer that a failed read has left, and
`Dies` for that or a read behind an array (`BeyondArray`). Of the properties there are those that
identify an instance or relate it to another: paths, associations and completeness depend on nothing
else. Identifiers are sequences of tokens, so that a key with a slash in it is possible. A provider
whose list loop reads an object in each turn (`WalkingClasses`) takes a step (`WalkTurn`) for each
turn, so objects can go in between. The changes of other clients keep what xapi keeps (no VBD
without its machine), and a host that is ejected leaves its processors, ports and PBDs to be
collected later, so what they refer to may be gone. After a crash the server starts again
(`Restart`).

**IndicationProvider.** CIMOM calls come one at a time and the generator threads run beside
them; nothing is locked. To cancel thread 0 is undefined: it does nothing or ends the process.

**JobInstances.** Each thread of the CIMOM is a request from its first login to its answer; `pc`
names the call to xapi that comes next. An enumeration is `GetAll`, a pass that counts (`Count`), a
pass that collects (`Fill`) and one `GetNext` for each entry; the other requests are a `Lookup`,
which stores its outcome in the static `rc` of `prov_pxy_get`, a `Test` of that variable, and `Got`
or `Clean`, which return it. Any thread may have written it since, or the compiler have kept what
this one wrote in a register, or dropped the second store: each read and that store are choices
between the two. `overtaken` (history) has the threads whose success a failing `Lookup` of another
wrote over before it was returned. DeleteInstance then logs in a second time for `Destroy`; `Crash`
is GetInstance with a resource that has no record. `sess[t].open` says that xapi still holds the
session, so a session that was never closed shows when the thread is idle. Tasks appear once and
vanish once, at any time; `lasting` is history.

**XenLibrary.** The read and the write of `ref_count++` are two steps. `ref_count` is unsigned; it
wraps at a word of more values than there are users. Users of all three kinds share the count if the
CIMOM loads the providers into one process, as OpenPegasus does; sfcb separates provider groups
(`src/Xen_ComputerSystemIndication.c:173`).

## 3. The runs

| run | configuration | asks |
|---|---|---|
| `jobqueue` | 3 jobs, 2 loads, three CIMOMs: a careful one, one whose `pthread_create` may fail, and one that moreover keeps the library mapped and overlaps calls in flight | beside any: the re-check under the list mutex protects every job, no wakeup is lost, the steps refine `AbstractJobs`; beside the careful one: no crash, every enqueued job is served, and the fairness of `AbstractJobs` |
| `jobqueue_join` *(violated)* | 1 job | "wait till the async worker finishes": the join is made with the mutex the worker needs |
| `statechange` | 2 jobs, 5 requests, kills, other clients, faults or none | Completed means done; Exception means untouched; every task ends |
| `hoststate` | 2 jobs, all requests, kills, faults or none, a host that goes off | Completed means done; mode means disabled; a refused shutdown restores |
| `indication` | 3 generator threads, 2 filters, faults or none | subscribers are served; one batch at most after DisableIndications |
| `indication_two` *(violated)* | the same | "if it isn't already running": two generators |
| `library` | an instance provider, a generator | count never wraps; libraries up |
| `library_generators` *(violated)* | and a method provider | the second unlock of `xen_utils_xen_close2` |
| `instances` | 2 threads, one of which is asked for anything but ModifyInstance (which differs from GetInstance in a constant answer) and the other for deletions, 2 jobs that come and go, faults or none | sessions closed; enumerations complete; "not found" is true of whom no failure overtook; every request ends |
| `services` | 2 jobs of six kinds, 3 disks, kills, timeouts, faults or none | Completed means done; no transfer machine is forgotten; an ended export leaves no session, and no machine but after a lost one; a migration keeps the channel; every job ends |
| `management` | 2 threads of the CIMOM, the worker, 2 requests of which one may start a job; 2 machines, 3 disks of which one is read-only, 3 slots; faults, or another client with one step | Completed means the whole machine; Exception leaves none, a destruction no disk; disks in use survive; every request ends |
| `cimview` | 2 hosts, 2 machines and a snapshot, one or two of everything else; any 3 changes; 10 classes enumerated, 6 looked up step by step, all of them in every quiet state | enumerations complete; paths outlive moves and find what they were made of; associations are those of xapi |

Bounds. Two jobs are enough for every interaction on a serial worker: one that leaves something
behind and one that finds it, or one that is served while the other waits; three jobs let the queue
hold two beside the one in the worker's hands. Two loads are the least at which state left by an
unload can matter. Three generator threads are an old one that ends, one it forgets, and the one
that is started then. Three disks are the least at which the end of an export can succeed with one,
fail with the next and leave the third. Two jobs also are the least at which one that is gone can spoil the enumeration of another, and two
threads the least at which one can find the other's return code. The threads of `instances` meet
only in xapi and in that code, both of which a DeleteInstance touches. In `management` the second
request is what a first may disturb: a destruction beside a definition, or two destructions of
machines that share a disk. Three slots are one too few for the longest list of devices with a disk
of a template, so errors arise without faults, too; a disk of the list is already attached to
another machine, and one is read-only. With faults another client adds nothing an error of xapi does
not do to a request, so `MaxEvents` is 0 there, and 1 without. In `cimview` three changes are the
least at which the last machine of a host leaves it, then the host the pool, then its processors go; the pool
has one object of which there is nothing to tell apart and two where a request could mistake one for
the other, a pool of storage that is local to the host that leaves and becomes shared, and a key with a slash.
`late` counts to two, since the property distinguishes one from more. SYMMETRY is used in the runs
without liveness only, and only where no action tells the elements apart. Deadlock is not checked
where the model may rightly come to rest: every client has had its calls, the CIMOM may stop
calling, and its threads may end.

Fairness. `JobQueue!Fairness` is what the operating system gives: threads that can run do, and a
mutex that is released again and again is obtained in the end (strong fairness for the callers and
for the cleanup). Nobody is obliged to call, load or unload, and no cleanup has to begin.
`StateChange` and `ServiceJobs` have weak fairness of the worker: it keeps running and every call to
xapi returns. `JobInstances` and `SystemManagement` have the same of each thread, the latter of the
worker too; nobody is obliged to ask. Of `SystemManagement` only what ends without faults is asked.
`IndicationProvider`, `HostStateChange`, `XenLibrary` and `CimView` are checked for safety only.

## 4. What the violated runs say

* `jobqueue_join`: `jobs_uninitialize` holds the list mutex while it joins the worker. A worker that
  is between clearing its flag (line 254) and locking the list (line 107) meets no cancellation point
  before that lock. Both threads wait for ever.
* `indication_two`: a generator that ends sets the thread id to 0, although by then another may have
  been stored. The next filter starts a generator beside the one that runs.
* `library_generators`: see above; the lost increment makes `xen_fini` run under a user.

Met while modelling, without a run of their own.

*Jobs.* The session of a refused migration is in error, so the first call of
`xen_utils_finishmigration_kvp_channel` fails and the daemon is never asked to put the channel back,
although "reenabling" it is said to be done always: `MigrationKeepsChannel` speaks of migrations
that succeed. Whether a half-made clone is removed ("Remove VM on error") is decided after the
report has cleared the error, so it is kept. A copy of a *template* whose clone fails goes on to
Completed without a machine (`src/Xen_VirtualSystemManagementService.c:1346`), so
`CompletedMeansDone` speaks of copies of machines; a clone whose record cannot be read, a killed
StartSnapshotForestExport (no address of the host) and a failed login of one end the process by a
null pointer, hence the exception in `EveryJobEnds`; the thread handle of the worker keeps its value
over a cleanup (`src/Xen_Job_Helper.c:175`), so a library that is not unmapped starts no second
worker, and a failed `pthread_create` is not noticed (`src/ProxyProvider.c:868`): `EnqueuedIsServed`
is checked beside a careful CIMOM; one failed call ends the indication generator for good
(`src/Xen_ComputerSystemIndication.c:119`), so `SubscribersServed` assumes none; a job that gets no
session is dropped and its task stays New; the end of an export goes on over its disks after an
unexpose that failed, as its comment has it (`src/Xen_VirtualSystemSnapshotService.c:279`), but with
a session whose error nobody clears, so that it calls nothing any more, while one success is enough
for Completed (`303`-`316`): when the second of three transfer machines has timed out the third
keeps running, and `EndLeavesNothing` excepts what comes after such a machine; because
`prov_pxy_get` keeps its return code in a static variable (`src/ProxyHelper.c:400`, stored at 445
and 455, read at 446, 451 and 457), a lookup that fails while another succeeds may make
CreateInstance answer ALREADY_EXISTS, or GetInstance fail or end the process, for a job that never
was, and one that succeeds while another fails may make "not found" of a job that is there, although
"@return int 0 on error, 1 on success" (`src/ProxyProvider.c:110`): `NotFoundMeansAbsent` excepts
the thread that such a failure has `overtaken`, and says that this is the only way; a failed login
at the pool master ends the process by a null pointer if it is traced; and the name of a task that
can be read in the second pass only overruns the list of the enumeration (`src/Xen_Job.c:82`), so
the theorem `ListSafe` is about calls that succeed.

*System management.* Without a default storage pool `_vm_provision_disks` returns without a status,
and the job reports an uninitialised one (`src/Xen_VirtualSystemManagementService.c:1937`, `1290`).
A disk with neither a pool nor an image gets a VBD without a disk (`2072`), though the comment at
`1610` has it made in the default pool; only AddResourceSetting does that, and for a drive without
an image too (`2213`), which fails if no pool is the default. A definition whose job is killed
before it starts keeps its machine (`2016`), as the session in error finds none to remove. Unwinding
destroys with the machine a disk that the client had before, if nobody else uses it; a disk made for
a VBD that then fails stays behind. The record of a machine just defined is used even if it could
not be read (`894`, `924`). A machine that runs is shut down by DestroySystem and the request
refused all the same (`245`). A single resource setting that is no array is parsed and dropped
(`866`).

*The view.* The loop of `Xen_Processor` ends at the first machine that has gone
(`src/Xen_Processor.c:116`) and that of `Xen_KVP` passes over the machine after an enabled one, with
or without pairs, whose host has no address (`src/Xen_KVP.c:130`): `EnumerationComplete` excepts the
two (`Truncated`). A key with a slash cannot be looked up, nor can two kinds of capabilities, which
are looked up by their whole identifier (`Unfound`). The record of a host that left the pool is used
through a null pointer by processors, storage pools and connection pools. The VCPU whose number is
the count of its host's processors makes `xen_resource_set_properties` read behind their array
(`src/Xen_Processor.c:304` has `>=`), which may end the server (`MayDie`) or leave the instance as
it is; `PathOutlivesMoves`, `FoundByPath` and `AssociationsTrue` are about the answers that are
given. References asked from the left side of an association is refused, for want of an `else`
(`src/associationProviderCommon.c:708`). Six associations compare keys that have no name in common
and are excepted (`Incomparable`).

## 5. The theorems

Each is for every value of the constants, under the named ASSUMEs of the modules (the constants that
stand for "none" differ from the others) and what is said here.

`JobQueue_proofs`. `IInv` is `TypeOK` with four parts. `Locks`: the owner of the list mutex is what
the program counters say, and the item about to be unlinked is there. `Flag`: the flag is up while
the worker is busy. `Handle`: a zero handle names no thread. `Window`: what the second `jobs_running`
saw stays true as long as the mutex is held. None is inductive alone: `Window` needs `Locks` (nobody
appends) and `Flag` (a busy worker shows). From it:
`TypeCorrect`, `CancelSafe`, `DeathSafe` with any CIMOM; `WakeupSafe` with a further invariant about
the two mutexes; `UnloadSafe`, which says something of a CIMOM whose calls do not overlap the cleanup
(`Quiet`: after the unlocked check nothing changes any more); `CrashSafe`, of a careful one;
`Refines`: beside any CIMOM initial states and steps map to those of `AbstractJobs`.

`StateChange_proofs`. `IInv` adds to `TypeOK` and the two properties: `Queued` (a job that waits has
a task) and `Progress` (in the place before the operation a session in order means the Running state
was recorded; a result without error means that the operation was carried out). A kill can come
between any two steps; it takes the task away and leaves `ok` alone, and `ChangeStateResult` says
that then the next update puts the session in error. From it `TypeCorrect`, `CompletedCorrect`,
`ActsAnnounced`, whatever fails and whatever others do with the machine. Without faults also
`FailedUntouched`, from `Untouched`: no job comes twice (`Distinct`), so that one that waits has done
nothing and its task says nothing of a failure; and the operation that succeeds is the last thing
before the report, which then is of a success (`Fresh`).
`NeverBack` states the action property `JobsProceed`: a task is made New, announced, ended once with
an error code if and only if it is an Exception, or destroyed for good, whatever replies are lost. It
needs `Distinct`, as a job that came twice would be announced after its end, and `Unended` (a job is
not announced before its turn and not ended before its report).

`HostStateChange_proofs`. The same argument where the error of the session is overridden: that is
done only after a job has entered maintenance mode, which an unannounced one cannot.
`TypeCorrect`, `CompletedCorrect`, `ActsAnnounced`. And `ModeCorrect`: the key of the maintenance mode
is added only to a host that is disabled, and removed before the host is enabled again, which holds
by the places of the callback at which each of the two is done, with a host that may go off and a job
that may be killed at any of them. Without faults also `RestoreCorrect`, from `Restoring`: until the
job enters maintenance mode the host is as it found it, and from `leave` on its session is in order,
forced there by the job, so that neither call that leaves the mode can be refused; a host that no job
has shut down does not go off in between. `NeverBack`, as above.

`JobInstances_proofs`. `IInv` says of each thread: `Places` (where a request of which kind can be);
`Witnessed` and `Listed` (its history is of instances that are there, its lists are of tasks that
have appeared, so that none of them can appear again); `Counting`; `Pursued` (what the enumeration
must still return is in the list that the present pass reads or builds); `Missed` (until its code is
returned a success that no failure has overtaken stands in `rc`, so that neither the test nor the
return sees another), `Gone` (a destroyed task does not come back) and `Returned`. `Counting` is
what `ListFits` needs: between the passes tasks disappear from both sides of it. In the first pass
the tasks of the class seen so far that are still there are no more than `size`; in the second, what
is on the list and what can still get there are no more. The proof of a step looks only at its own
thread: `OtherThread` shows once that the rest stays true while others end or begin tasks, and write
over `rc` only what they also overtake (`Spared`). `TypeCorrect`, `EnumerationCorrect`, `ListSafe`,
`NotFoundCorrect`, `DeletedCorrect`, `SessionsCorrect`: all but the first and `DeletedCorrect` are
about calls to xapi that do not fail, as the properties say.

`ServiceJobs_proofs`. For any number of jobs and of disks in an export. `Shape` is `TypeOK` with
`Queued` (a job that waits has a task, waits once and is not the one at work), `Places` (each place of
a callback is for jobs of its kind, and the loop variable is in its range there) and `Handles` (a
handle is known only of a job that exposes, and the job that gives it back names such a one): from it
`TypeCorrect`. `WorkDone` has one part for each callback that says what the result and the locals
stand for on the way (`CopyProgress`, `MigrationProgress`, `DisconnectProgress`), and from it
`CompletedCorrect`, whatever fails. It needs `Handles`: a disconnect stays Completed because no job
exposes anything again under a handle that is known. Without faults also `ExposedCorrect`, from
`Shown` (a session in order as long as a handle is to be stored); `ChannelKept`, by itself; and
`EndCorrect`, from `InOrder` (the machines of an export are gone in their order, but for those that
timed out) and `Ending` (while the session of the end is in order every machine it has come to is
gone; after a success and then a failure the one that failed has timed out, as it is not the first).
The attempt to prove `EndLeavesNothing` as it was first stated, that nothing at all stays exposed,
failed at three disks: that is the reason for its exception, for `lapsed`, and for the third disk of the
run. `NeverBack` adds to `Shape`, which says that a job waits once, that up to its report a job
has not ended.

`SystemManagement_proofs`. `InUseDisksSafe`: no disk is destroyed with a machine that another one
was seen to use, and none that is protected, for any number of machines, disks, jobs and clients,
with or without faults. The property is not inductive, as what makes it true is in the locals of a
thread between two calls. `IInv` adds, for each thread (`Safe`): while it goes through the VBDs of a
machine all that are left are the machine's own, and when it is about to destroy a disk, that is not
protected and its only user seen is the machine. That holds because a single user of a disk can only
be the VBD looked at, for which the set of VBDs has to be finite (`Shape`; a machine has finitely
many). Errors reset in between do no harm: flags that could not be read count as set. A step changes
one thread and leaves the others alone, so each action has one lemma about its own thread
(`Stepped`), and `SteppedHolds` does the rest once.
`TypeCorrect` needs `Control`: where each thread can be in which request (`Requesting`, `Working`);
that a caller that defines or extends a machine has in hand a job that nobody else has; that jobs in
the queue have a task and wait once (`Accepted`); that the locals of a destruction and of a device
fit (`Steady`); that two jobs about one machine mean that a client has asked for it when it was there
(`Contexts`); and that a machine that is not there yet has nothing (`Unmade`). The lemmas named
`...Does` say of each action where it leads its thread and which machine it may change (`Affects`),
and those named `...Holds` that `Control` follows.
`CompletedWhole` follows the machine of a definition that nobody else has touched (`Own`) through
four parts more. `Waits`: until the worker takes the job the machine is empty. `Builds`: at the worker
it lacks what is left of the list of devices and nothing else (`Lacks` counts interfaces and drives
and looks for each disk); a reply is only believed when it is a success; and the result is `NoError`
only at the report. `Reported` and `Queue`: a task that has ended is that of a job that is over, and
such a job never comes back. `Delivered`: after that the machine lacks nothing, as other threads change
only machines they have touched (`Spared`, `OtherSpares`). The counts rest on `CountTail`.
`NothingLeft` is about what a definition that failed and a machine that was destroyed leave when every
call is answered. `Unwinding` and `Unwound`: the machine of a definition that nobody has touched is
there until it is removed, and gone when the report says Exception, unless the task was killed first.
`Started` and the `...Calm` lemmas: whoever destroys a machine twice at a time, or plugs a disk of
its own into another one, leaves it marked as disturbed. `Walks`: of a machine that is not, one
thread alone goes through the VBDs, and each disk of its own is gone, or has users left that are all
VBDs still to be looked at (`Awaits`), so that the last of them finds the machine alone at it. `Emptied`:
when the list is through no such disk is left.
`NeverBack` follows from `Reported` and `Queue` with `Unannounced` (a job that waits or is about to be
announced has not been): callers that only append to the list disturb neither. The step of the report
may write a failure without its code (`Uncoded`), which is what the status that is never set comes to.
These proofs corrected the model in three places: a definition whose status is never set goes on to
unwind or to report; the branches of `SetUp`, which overlapped; and what the constants `Requests`
and `Attached` are (lists that can be asked for, slots of their own).

`IndicationProvider_proofs`. Nothing is locked here, and still a filter is never without a generator
and a thread delivers one late batch at most, for any number of threads and filters. `IInv`:
`Started` (a thread on record, about to be or cancelled has been started, so that no thread that
starts is cancelled already); `Recorded` (the CIMOM stores a thread only for a filter and stops one
only when there are none, after which none is on record); `Served` (the promise, kept through the
place where the thread is stored); `Batches` (a thread that has delivered late waits for nothing
until indications are enabled again). A thread that clears the record of its successor does no harm
to `Served`, which does not speak of the record: it costs a second generator (`indication_two`).
`TypeCorrect`, `SubscribersCorrect`, `BatchesCorrect`.

`Providers_proofs`, about what the providers share.
*Identifiers.* About names of any length: `DeviceRecovered`, `SystemRecovered`,
`DevicesDiffer` (what is put into an identifier is taken out again, if the device has no slash).
About any database, whatever its records hold: `FoundWhereverItIs` (the path of a device, disk image
or pool of storage or of connections finds what an enumeration reads, with whatever system the path
was made) and `FoundUnderItsMachine` (key-value pairs without a slash, memory).
*An enumeration among changes.* `NothingMissed`, for any pool and any changes of other clients. The
invariant is `Viewing`: the pool is `Settled` (records keep their types, those of devices, disk images
and processors never change, no VBD is without its machine), what has been there all the time is there
now, and each entry of it is `Kept`: returned, in the list, in hand, or the turn of its object in the
loop of `list_enum` is to come (`OriginListed`). It is not lost on the way because a resource that was
read earlier still makes an instance as long as its object is there (`StillMade`, from `Genuine`: the
record in hand of a disk is what the pool holds). The lemmas named `...Served` say, once for each of
the 18 tables of functions, where the dispatch sends a class.
*Paths.* A path `Leads` to an entry when in every settled database in which the entry is there the
lookup finds what an enumeration reads for it. There is one lemma `...Leads` for each table, and
`MadeLeads` combines them: what is put into the identifier may be the host or the machine of the
moment, or "NoHost" or "Shared"; what is taken out is the object. With `OneRead` and `OneMade` (one
resource for an entry, one instance of a resource) that gives `OwnPathFinds`. `PathsLast` follows one
kept path through a request: `Answering` says that it leads to its object, that what was found is that
object if it has been there throughout, and that then it has been returned. `TypeCorrect` adds
`Typing`; a processor is found whatever machine its path names, and only `MadeTyped` knows that the
machine is one of the pool.
*Associations.* `AssociationsTrue`, for any pool and after any changes: the provider answers
instances that are related in xapi, and all of them. All it compares is texts: the name in a key of one
side with the name in a key of the other (`Called`). The proof takes one row of the table at a time
(`RowTrue`). `OneRow`: no two of the 94 rows serve one association, in 15 groups told apart by their
names. `Answer`, `Reply`: what the routines then answer is every instance of the other side with the
same name. Each row is of one of a few kinds (`Sorted`, looked up group by group): both sides name an
object (`SameTrue`), one names the owner of the other (`PartTrue`), or neither is compared
(`WholeTrue`); four associations have a meaning of their own. What the sides name is read off the
instances, class by class (the lemmas `...Instance` and `...Sides`). The attempt found the property
too strong: storage of a host that has left the pool is there for a while, the server ends over the
instance made of it, and no answer is true then. The property now excepts that (`Survives`), and the
pool of the run has storage on the host that leaves.
*Assumptions.* `TablesAssumption`: the records have the fields that xapi gives them and their
references lead somewhere at the start; a machine has no more processors than are looked up (16;
the setting data admit 8, `src/src/Xen_ProcessorSettingData.c:89`). `NamesAssumption`: the uuids of
objects and the names of processors and settings have no slash. `UuidsAssumption`: a uuid is none of
the words that stand where there is no name, virtual and physical ports have different uuids, and hosts
are finitely many (a pool of storage counts its own). TLC evaluates the three on the run's pool.
The proofs corrected the model: cases of `PortDevice`, `StoragePool` and `Holds` that overlapped.
*The use count.* With no generators nobody unlocks a mutex he does not hold. `LibraryInv`: mutual
exclusion, the value read is the value there, `ref_count` is the number of users between their two
stores, and the libraries are up while one is counted. `LibraryTypeCorrect` (with any number of repeated
unloads), `UpSafe`, `CountSafe`. The run `library_generators` shows why generators are excluded.

Only model-checked: liveness (`EnqueuedIsServed`, `EveryTaskEnds`, `EveryJobEnds`,
`EveryRequestEnds`, the fairness part of `ImplementsAbstractJobs`) and the three statements that are
violated. Every invariant of a passing run is stated by a theorem. Properties that are proved for every
instance and that no run repeats: `CancelOnlyIdle`, `UnloadOnlyIdle`, `OnlyAnnouncedJobsAct`, `CountExact`, `ListFits`, `DeletedMeansGone`,
and `JobsProceed` of the four modules of jobs.

## 6. Not modelled, and why

Memory (leaks, the trace of a job after its enqueue), tracing, the wording of errors, and those
properties of CIM instances that neither identify an object nor relate it to another. The parsing of
setting data (a grammar), and what a request that cannot be parsed answers. Of system management:
the modification of settings, the removal of interfaces and key-value pairs, the conversion to a
template. Snapshots, disk images, storage pools and switches are made and destroyed by synchronous
sequences of calls; of these only what DestroySystem and the jobs do is modelled. The key-value
daemon, the watchdog and the hotplug scripts. A crash of the CIMOM loses its queue, as nothing of it
is stored; only `CimView` has its restart. The test clients are not part of the system. Liveness,
ENABLED and properties of recursive definitions are beyond the prover.

## 7. Plan

Done: the queue, the state changes, indications, the use count, jobs and their instances, the
services on the worker, system management, the view of the pool through CIM, and the proofs of
section 5. What would come next:

1. The synchronous services, in the form of `SystemManagement`: snapshots and their application, disk
   images and storage pools, switch management with its undo steps, the modification of settings.
2. The key-value daemon: setup, clear, migration, the retry of a request after new credentials, the
   rules of the switch, restart of the daemon; then `MigrationJobs` on top of it.
3. The watchdog and the hotplug scripts; the parser of setting data against a reference.
4. Proofs: that `JobWorker`'s use of the abstract service composes with `JobQueue`.
