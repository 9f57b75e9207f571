-------------------------- MODULE SystemManagement --------------------------
(***************************************************************************)
(* The virtual system management service: machines are defined, given      *)
(* resources, deprived of them and destroyed by threads of the CIMOM,      *)
(* while the worker adds the devices that DefineSystem and                 *)
(* AddResourceSettings have asked for                                      *)
(* (Xen_VirtualSystemManagementService.c; CopySystem is in CopyJobs).      *)
(*                                                                         *)
(* One step is one call to xapi, or several that only read what does not   *)
(* change.  Of a machine there are its power state, its VIFs and consoles, *)
(* and its VBDs, each in a slot and with a disk (VDI) or, as an empty      *)
(* drive, without.  A request that cannot be parsed changes nothing and is *)
(* left out.                                                               *)
(***************************************************************************)
EXTENDS JobTask, Integers, Sequences, FiniteSets

CONSTANTS
    Jobs, NoJob,    \* the jobs that requests may start
    Callers,        \* the threads of the CIMOM
    Worker,         \* the thread that serves the jobs
    Vms, NoVm,      \* the machines
    Existing,       \* ... that are there from the start
    Disks,          \* the disks, numbers from 1
    Attached,       \* the VBDs that are there from the start, with their disks
    Protected,      \* the disks that are read-only or sharable
    Slots,          \* the places for VBDs of a machine, numbers from 1
    Requests,       \* the lists of devices that clients ask for
    MaxVifs,        \* bound: VIFs and consoles of a machine
    MaxRequests,    \* bound: requests made
    MaxEvents       \* bound: what other clients do, without and with faults

NoDisk == 0
Vbds == Vms \X Slots \X (Disks \cup {NoDisk})
Threads == Callers \cup {Worker}

Types == {"vif", "console", "cd", "new", "unplaced", "disk"}
Asked == Seq([type : Types, vdi : Disks \cup {NoDisk}])

ASSUME SystemManagementAssumption ==
    /\ NoJob \notin Jobs /\ NoVm \notin Vms /\ Worker \notin Callers
    /\ Existing \subseteq Vms /\ Protected \subseteq Disks
    /\ Disks \subseteq Nat \ {NoDisk} /\ Slots \subseteq Nat
    /\ Requests \subseteq Asked
    /\ {MaxVifs, MaxRequests} \subseteq Nat /\ MaxEvents \in [BOOLEAN -> Nat]
    /\ Attached \subseteq Existing \X Slots \X (Disks \cup {NoDisk}) /\ IsFiniteSet(Attached)
    /\ \A a, b \in Attached : a[1] = b[1] /\ a[2] = b[2] => a = b

VARIABLES
    pending, current, served,   \* the job service
    task,       \* the xen task of each job
    faults,     \* in this behaviour calls to xapi may fail, or lose their reply
    context,    \* add_resources_job_context of each job, and the machine it is for
    power,      \* the machines: not there yet, their power state, gone
    disk,       \* the disks: not there yet, there, gone
    vbds,       \* the VBDs <<machine, slot, disk>>
    plugged,    \* ... that a running machine uses
    vifs,       \* the number of VIFs and consoles of each machine
    thread,     \* where each thread is, with its session's ok flag and its locals
    touched,    \* history: machines somebody else has changed since their definition
    disturbed,  \* history: ... since their VBDs were listed for their destruction
    owned,      \* history: the disks that were to go with a machine, when listed
    lost,       \* history: VBDs whose disk was destroyed for another machine
    requests,   \* the number of requests made
    events      \* ... of the steps of other clients

service == <<pending, current, served>>
world   == <<power, disk, vbds, plugged, vifs>>
history == <<touched, disturbed, owned, lost>>
bounds  == <<requests, events>>
vars == <<service, task, faults, context, world, thread, history, bounds>>

Service == INSTANCE AbstractJobs

-----------------------------------------------------------------------------
(* The devices a request may ask for, and what xapi has                    *)

Vif      == [type |-> "vif", vdi |-> NoDisk]
Console  == [type |-> "console", vdi |-> NoDisk]
Drive    == [type |-> "cd", vdi |-> NoDisk]         \* without an image in it
NewDisk  == [type |-> "new", vdi |-> NoDisk]        \* in a given storage pool
Unplaced == [type |-> "unplaced", vdi |-> NoDisk]   \* neither pool nor disk given
OldDisk(d) == [type |-> "disk", vdi |-> d]

NoContext == [vm |-> NoVm, devices |-> <<>>, provision |-> FALSE, remove |-> FALSE]

There(v) == v \in Vms /\ power[v] \in {"Halted", "Running"}
VbdsOf(v) == {b \in vbds : b[1] = v}
UsersOf(d) == {b \in vbds : b[3] = d}
FreeSlots(v) == {s \in Slots : \A b \in VbdsOf(v) : b[2] # s}
Lowest(S) == CHOOSE n \in S : \A k \in S : n <= k
Unused == {d \in Disks : disk[d] = "none"}

\* How a call that was carried out may come back, and whether one may not be.
Replies == IF faults THEN BOOLEAN ELSE {TRUE}
Misses(can) == ~can \/ faults

Idle == [pc |-> "idle", ok |-> TRUE, call |-> "none", job |-> NoJob, vm |-> NoVm,
         devices |-> <<>>, vbd |-> <<>>, vdi |-> NoDisk, left |-> {}, seen |-> {}, rc |-> "Failed"]

At(t, place) == thread[t].pc = place
Alive == \A t \in Threads : ~At(t, "crashed")
\* The session and the locals go with the request.
Move(t, place, c) ==
    thread' = [thread EXCEPT ![t] =
                 IF place = "idle" THEN Idle ELSE [@ EXCEPT !.pc = place, !.ok = c]]

-----------------------------------------------------------------------------

Init ==
    /\ Service!Init
    /\ task = [j \in Jobs |-> Absent]
    /\ faults \in BOOLEAN
    /\ context = [j \in Jobs |-> NoContext]
    /\ power = [v \in Vms |-> IF v \in Existing THEN "Halted" ELSE "none"]
    /\ disk = [d \in Disks |-> IF \E b \in Attached : b[3] = d THEN "there" ELSE "none"]
    /\ vbds = Attached /\ plugged = {}
    /\ vifs = [v \in Vms |-> 0]
    /\ thread = [t \in Threads |-> Idle]
    /\ touched = {} /\ disturbed = {} /\ owned = [v \in Vms |-> {}] /\ lost = {}
    /\ requests = 0 /\ events = 0

(* The requests                                                            *)

Answered(t, c) == Move(t, IF t = Worker THEN "report" ELSE "idle", c)

\* DefineSystem, whose parameters could be parsed: the machine comes from a
\* template, or is made anew; the resources are an array, or a single one.
DefineSystem(c, j, v, template, array, devices) ==
    /\ At(c, "idle") /\ context[j] = NoContext /\ power[v] = "none"
    /\ \A i \in Jobs : context[i].vm # v
    /\ context' = [context EXCEPT ![j] =
         [vm |-> v, devices |-> devices, provision |-> template, remove |-> TRUE]]
    /\ thread' = [thread EXCEPT ![c] =
         [Idle EXCEPT !.pc = "create", !.call = "define", !.job = j,
                      !.devices = IF array THEN devices ELSE <<>>]]
    /\ UNCHANGED <<service, task, faults, world, history>>

\* xen_vm_clone or xen_vm_create.  Without a handle there is nothing to unwind.
CreateMachine(c) ==
    /\ At(c, "create")
    /\ LET v == context[thread[c].job].vm IN
         \/ /\ \E r \in Replies :
                 IF r THEN thread' = [thread EXCEPT ![c].pc = "created", ![c].vm = v]
                      ELSE Move(c, "idle", r)
            /\ power' = [power EXCEPT ![v] = "Halted"]
         \/ /\ faults
            /\ Move(c, "idle", FALSE)
            /\ UNCHANGED power
    /\ UNCHANGED <<service, task, faults, context, disk, vbds, plugged, vifs, history>>

\* A record that cannot be read is used all the same.
ReadCreated(c) ==
    /\ At(c, "created")
    /\ \/ There(thread[c].vm) /\ Move(c, "set_up", TRUE)
       \/ Misses(There(thread[c].vm)) /\ Move(c, "crashed", FALSE)
    /\ UNCHANGED <<service, task, faults, context, world, history>>

\* The settings of the machine, its processors and memory (vssd_modify,
\* proc_rasd_modify, memory_rasd_modify).  xapi may refuse them.  DefineSystem then
\* gives up, the others find out when they look at the session.
SetUp(c) ==
    /\ At(c, "set_up")
    /\ \E r \in IF There(thread[c].vm) THEN BOOLEAN ELSE {FALSE} :
         LET spawn == \/ thread[c].call = "add" \/ thread[c].devices # <<>>
                      \/ thread[c].call = "define" /\ context[thread[c].job].provision
         IN Move(c, IF thread[c].call = "remove" THEN (IF r THEN "remove" ELSE "idle")
                    ELSE IF thread[c].call = "define" /\ ~r THEN "list"
                    ELSE IF spawn THEN "submit" ELSE "idle", r)
    /\ UNCHANGED <<service, task, faults, context, world, history>>

\* job_create.  A task that cannot be made leaves the session in error.
SubmitJob(c) ==
    /\ At(c, "submit")
    /\ LET j == thread[c].job IN
         \/ /\ thread[c].ok
            /\ Service!Accept(j)
            /\ task' = [task EXCEPT ![j] = NewTask]
            /\ Move(c, "idle", TRUE)
         \/ /\ Misses(thread[c].ok)
            /\ Move(c, IF thread[c].call = "define" THEN "list" ELSE "idle", FALSE)
            /\ UNCHANGED <<service, task>>
    /\ UNCHANGED <<faults, context, world, history>>

\* A request about a machine that is there.
Asks(c, v) ==
    /\ At(c, "idle") /\ There(v)
    /\ touched' = touched \cup {v}
    /\ UNCHANGED <<service, task, faults, world, disturbed, owned, lost>>

AddResourceSettings(c, j, v, devices) ==
    /\ Asks(c, v)
    /\ context[j] = NoContext
    /\ context' = [context EXCEPT ![j] =
         [vm |-> v, devices |-> devices, provision |-> FALSE, remove |-> FALSE]]
    /\ thread' = [thread EXCEPT ![c] =
         [Idle EXCEPT !.pc = "set_up", !.call = "add", !.job = j, !.vm = v]]

\* AddResourceSetting adds one device itself (_vm_add_resource).  Only here is the
\* default storage pool looked up for a disk with neither pool nor image, and for a
\* drive without an image too: it gets a disk made there, or the request fails.
PlacedByDefault == {Unplaced, Drive}
AddResourceSetting(c, v, device) ==
    /\ Asks(c, v)
    /\ device # Console
    /\ \E d \in IF device \in PlacedByDefault THEN {NewDisk, Unplaced} ELSE {device} :
         thread' = [thread EXCEPT ![c] =
           [Idle EXCEPT !.pc = "device", !.call = "add_one", !.vm = v, !.devices = <<d>>]]
    /\ UNCHANGED context

RemoveResourceSettings(c, v, B) ==
    /\ Asks(c, v)
    /\ B # {} /\ B \subseteq VbdsOf(v)
    /\ thread' = [thread EXCEPT ![c] =
         [Idle EXCEPT !.pc = "set_up", !.call = "remove", !.vm = v, !.left = B]]
    /\ UNCHANGED context

DestroySystem(c, v) ==
    /\ Asks(c, v)
    /\ thread' = [thread EXCEPT ![c] =
         [Idle EXCEPT !.pc = "power", !.call = "destroy", !.vm = v]]
    /\ UNCHANGED context

\* A machine that is not halted is shut down, and the request refused all the same.
ReadPowerState(c) ==
    /\ At(c, "power")
    /\ LET v == thread[c].vm IN
         \/ power[v] = "Halted" /\ Move(c, "list", TRUE) /\ UNCHANGED world
         \/ /\ power[v] = "Running"
            /\ power' = [power EXCEPT ![v] = "Halted"]
            /\ plugged' = plugged \ VbdsOf(v)
            /\ \E r \in Replies : Move(c, "idle", r)
            /\ UNCHANGED <<disk, vbds, vifs>>
         \/ Misses(power[v] = "Halted") /\ Move(c, "idle", FALSE) /\ UNCHANGED world
    /\ UNCHANGED <<service, task, faults, context, history>>

(* The worker: job_worker_thread_func, add_resources_job, _vm_add_resources *)

TakeJob ==
    /\ At(Worker, "idle")
    /\ Service!Take
    /\ \/ thread' = [thread EXCEPT ![Worker] =
                       [Idle EXCEPT !.pc = "announce", !.job = current',
                                    !.devices = context[current'].devices]]
       \/ faults /\ thread' = [thread EXCEPT ![Worker] = [Idle EXCEPT !.pc = "free"]]
    /\ UNCHANGED <<task, faults, context, world, history>>

Announce ==
    /\ At(Worker, "announce")
    /\ \E o \in ChangeState(task[current], "Running", FALSE, faults) :
         /\ Move(Worker, "find", o.ok)
         /\ task' = [task EXCEPT ![current] = o.task]
    /\ UNCHANGED <<service, faults, context, world, history>>

\* Mutant: a machine that is not found ends the job.
FindMachine_Silent ==
    /\ At(Worker, "find")
    /\ LET v == context[current].vm  can == thread[Worker].ok /\ There(v) IN
         \/ /\ can
            /\ thread' = [thread EXCEPT ![Worker].vm = v,
                 ![Worker].pc = IF context[current].provision THEN "provision" ELSE "device"]
         \/ Misses(can) /\ Move(Worker, "free", FALSE)
    /\ UNCHANGED <<service, task, faults, context, world, history>>

\* A job whose start was not recorded, because a client has killed it, finds its
\* session in error, and so no machine that it might unwind.
FindMachine ==
    /\ At(Worker, "find")
    /\ LET v == context[current].vm  can == thread[Worker].ok /\ There(v) IN
         \/ /\ can
            /\ thread' = [thread EXCEPT ![Worker].vm = v,
                 ![Worker].pc = IF context[current].provision THEN "provision" ELSE "device"]
         \/ Misses(can) /\ Move(Worker, "report", FALSE)
    /\ UNCHANGED <<service, task, faults, context, world, history>>

\* What follows when a device cannot be added: a definition is unwound.
Fails(t) ==
    Move(t, IF t = Worker /\ context[current].remove THEN "list"
            ELSE IF t = Worker THEN "report" ELSE "idle", FALSE)

\* A new VBD, in the first slot that is free.
Plug(v, d) ==
    LET b == <<v, Lowest(FreeSlots(v)), d>> IN
      /\ vbds' = vbds \cup {b}
      /\ disturbed' = disturbed \cup {v} \cup {u[1] : u \in UsersOf(d)}

\* _vm_provision_disks: the disk of the template is made, or refused.  When there is
\* no default storage pool the status of the job is never set.
ProvisionDisks ==
    /\ At(Worker, "provision")
    /\ LET v == thread[Worker].vm IN
         \/ /\ thread[Worker].ok /\ There(v) /\ FreeSlots(v) # {} /\ Unused # {}
            /\ disk' = [disk EXCEPT ![Lowest(Unused)] = "there"]
            /\ Plug(v, Lowest(Unused))
            /\ \E r \in Replies : IF r THEN Move(Worker, "modify", r) ELSE Fails(Worker)
         \/ Fails(Worker) /\ UNCHANGED <<disk, vbds, disturbed>>
         \/ /\ thread' = [thread EXCEPT ![Worker].rc = "unset", ![Worker].ok = FALSE,
                 ![Worker].pc = IF context[current].remove THEN "list" ELSE "report"]
            /\ UNCHANGED <<disk, vbds, disturbed>>
    /\ UNCHANGED <<service, task, faults, context, power, plugged, vifs, touched, owned, lost>>

\* memory_rasd_modify, whose error is wiped by proc_rasd_modify: of the session's
\* state afterwards nobody takes notice but the next call.
ModifyResources ==
    /\ At(Worker, "modify")
    /\ \E r \in IF There(thread[Worker].vm) THEN BOOLEAN ELSE {FALSE} :
         Move(Worker, "device", r)
    /\ UNCHANGED <<service, task, faults, context, world, history>>

(* Adding devices, for the worker and for AddResourceSetting               *)

Device(t) == Head(thread[t].devices)

\* After the last device; the references to the new ones go to the task.
AllAdded(t) ==
    /\ At(t, "device") /\ thread[t].devices = <<>>
    /\ thread' = [thread EXCEPT ![t] =
         IF t = Worker THEN [@ EXCEPT !.pc = "report", !.rc = "NoError"] ELSE Idle]
    /\ UNCHANGED <<service, task, faults, context, world, history>>

\* _vif_create, _console_create.
CreateVif(t) ==
    /\ At(t, "device") /\ thread[t].devices # <<>>
    /\ Device(t).type \in {"vif", "console"}
    /\ LET v == thread[t].vm
           can == thread[t].ok /\ There(v) /\ vifs[v] < MaxVifs IN
         \/ /\ can
            /\ vifs' = [vifs EXCEPT ![v] = @ + 1]
            /\ \E r \in Replies : IF r THEN Move(t, "name", r) ELSE Fails(t)
         \/ Misses(can) /\ Fails(t) /\ UNCHANGED vifs
    /\ UNCHANGED <<service, task, faults, context, power, disk, vbds, plugged, history>>

\* _vdi_find_default: the disk with the given uuid, or a new one in the given pool.
\* A drive, and a disk with neither, go without.
FindDisk(t) ==
    /\ At(t, "device") /\ thread[t].devices # <<>>
    /\ \/ /\ Device(t).type \in {"cd", "unplaced"}
          /\ thread' = [thread EXCEPT ![t].pc = "attach", ![t].vdi = NoDisk]
          /\ UNCHANGED disk
       \/ /\ Device(t).type = "disk"
          /\ LET can == thread[t].ok /\ disk[Device(t).vdi] = "there" IN
               \/ /\ can
                  /\ thread' = [thread EXCEPT ![t].pc = "attach", ![t].vdi = Device(t).vdi]
               \/ Misses(can) /\ Fails(t)
          /\ UNCHANGED disk
       \/ /\ Device(t).type = "new"
          /\ LET can == thread[t].ok /\ Unused # {} IN
               \/ /\ can
                  /\ disk' = [disk EXCEPT ![Lowest(Unused)] = "there"]
                  /\ \E r \in Replies :
                       IF r THEN thread' = [thread EXCEPT ![t].pc = "attach",
                                                          ![t].vdi = Lowest(Unused)]
                            ELSE Fails(t)
               \/ Misses(can) /\ Fails(t) /\ UNCHANGED disk
    /\ UNCHANGED <<service, task, faults, context, power, vbds, plugged, vifs, history>>

CanPlug(t) ==
    LET v == thread[t].vm  d == thread[t].vdi IN
      /\ thread[t].ok /\ There(v) /\ FreeSlots(v) # {}
      /\ IF d = NoDisk THEN Device(t).type = "cd" ELSE disk[d] = "there"

\* Mutant: a disk that could not be attached is passed over.
CreateVbd_Unchecked(t) ==
    /\ At(t, "attach")
    /\ \/ /\ CanPlug(t)
          /\ Plug(thread[t].vm, thread[t].vdi)
          /\ Move(t, "name", TRUE)
       \/ /\ Misses(CanPlug(t))
          /\ Move(t, "name", FALSE)
          /\ UNCHANGED <<vbds, disturbed>>
    /\ UNCHANGED <<service, task, faults, context, power, disk, plugged, vifs,
                   touched, owned, lost>>

\* _vbd_create, with the first slot that is free.  There may be none; then a disk
\* that was just made stays without a VBD.
CreateVbd(t) ==
    /\ At(t, "attach")
    /\ \/ /\ CanPlug(t)
          /\ Plug(thread[t].vm, thread[t].vdi)
          /\ \E r \in Replies : IF r THEN Move(t, "name", r) ELSE Fails(t)
       \/ /\ Misses(CanPlug(t))
          /\ Fails(t)
          /\ UNCHANGED <<vbds, disturbed>>
    /\ UNCHANGED <<service, task, faults, context, power, disk, plugged, vifs,
                   touched, owned, lost>>

\* The reference to the new device is made of its uuid.  If that cannot be read,
\* the broker gets a null pointer: it may end the process, or the job goes on.
NameDevice(t) ==
    /\ At(t, "name")
    /\ LET here == There(thread[t].vm)
           next == [thread EXCEPT ![t].pc = "device", ![t].devices = Tail(@)] IN
         \/ thread[t].ok /\ here /\ thread' = next
         \/ /\ Misses(thread[t].ok /\ here)
            /\ \/ thread' = [next EXCEPT ![t].ok = FALSE]
               \/ Move(t, "crashed", FALSE)
    /\ UNCHANGED <<service, task, faults, context, world, history>>

(* Destroying a machine with its disks: _vm_destroy                        *)

\* The disks that are to go with machine v.
Owned(v) == {d \in Disks \ Protected : disk[d] = "there" /\ UsersOf(d) # {}
                                        /\ \A b \in UsersOf(d) : b[1] = v}

Destroys(t, v) ==
    thread[t].vm = v /\ thread[t].pc \in {"look", "destroy_vdi", "destroy_vbd", "destroy_vm"}

\* A list that cannot be had is passed over.
ListVbds(t) ==
    /\ At(t, "list")
    /\ LET v == thread[t].vm IN
         \/ /\ There(v)
            /\ thread' = [thread EXCEPT
                 ![t].pc = IF VbdsOf(v) = {} THEN "destroy_vm" ELSE "look",
                 ![t].left = VbdsOf(v), ![t].ok = TRUE]
            /\ owned' = [owned EXCEPT ![v] = Owned(v)]
            /\ disturbed' = IF power[v] = "Halted" /\ \A u \in Threads \ {t} : ~Destroys(u, v)
                              THEN disturbed \ {v} ELSE disturbed \cup {v}
         \/ /\ Misses(There(v))
            /\ Move(t, "destroy_vm", TRUE)
            /\ UNCHANGED <<owned, disturbed>>
    /\ UNCHANGED <<service, task, faults, context, world, touched, lost>>

\* Mutant: who else uses the disk is not asked.
LookAtDisk_Single(t) ==
    /\ At(t, "look")
    /\ \E b \in thread[t].left :
         LET can == thread[t].ok /\ b \in vbds /\ b[3] # NoDisk /\ disk[b[3]] = "there"
             next == [thread EXCEPT ![t].vbd = b, ![t].seen = UsersOf(b[3])] IN
         \/ /\ can /\ b[3] \notin Protected
            /\ thread' = [next EXCEPT ![t].pc = "destroy_vdi"]
         \/ /\ can /\ (b[3] \in Protected \/ faults)
            /\ thread' = [next EXCEPT ![t].pc = "destroy_vbd"]
         \/ /\ Misses(can)
            /\ thread' = [next EXCEPT ![t].pc = "destroy_vbd", ![t].ok = FALSE]
    /\ UNCHANGED <<service, task, faults, context, world, history>>

\* The disk of the next VBD, its users and flags (which count as set when they
\* cannot be read).  An empty drive has no disk to ask about; the error that makes
\* stays until the next VBD, so that this one is not reached.
LookAtDisk(t) ==
    /\ At(t, "look")
    /\ \E b \in thread[t].left :
         LET can == thread[t].ok /\ b \in vbds /\ b[3] # NoDisk /\ disk[b[3]] = "there"
             alone == Cardinality(UsersOf(b[3])) = 1 /\ b[3] \notin Protected
             next == [thread EXCEPT ![t].vbd = b, ![t].seen = UsersOf(b[3])] IN
         \/ /\ can /\ alone
            /\ thread' = [next EXCEPT ![t].pc = "destroy_vdi"]
         \/ /\ can /\ (~alone \/ faults)
            /\ thread' = [next EXCEPT ![t].pc = "destroy_vbd"]
         \/ /\ Misses(can)
            /\ thread' = [next EXCEPT ![t].pc = "destroy_vbd", ![t].ok = FALSE]
    /\ UNCHANGED <<service, task, faults, context, world, history>>

\* xapi keeps a disk that a running machine uses.
DestroyDisk(t) ==
    /\ At(t, "destroy_vdi")
    /\ Move(t, "destroy_vbd", TRUE)
    /\ LET d == thread[t].vbd[3]
           can == disk[d] = "there" /\ UsersOf(d) \cap plugged = {} IN
         \/ /\ can
            /\ disk' = [disk EXCEPT ![d] = "gone"]
            /\ lost' = lost \cup {b \in thread[t].seen \cap vbds : b[1] # thread[t].vm}
         \/ Misses(can) /\ UNCHANGED <<disk, lost>>
    /\ UNCHANGED <<service, task, faults, context, power, vbds, plugged, vifs,
                   touched, disturbed, owned>>

\* Mutant: the session is not reset for the next VBD.
DestroyVbd_NoReset(t) ==
    /\ At(t, "destroy_vbd")
    /\ LET b == thread[t].vbd  left == thread[t].left \ {b}
           can == thread[t].ok /\ b \in vbds \ plugged
           Goes(r) == thread' = [thread EXCEPT
              ![t].pc = IF left = {} THEN "destroy_vm" ELSE "look",
              ![t].left = left, ![t].vbd = <<>>, ![t].seen = {}, ![t].ok = r] IN
         \/ can /\ vbds' = vbds \ {b} /\ \E r \in Replies : Goes(r)
         \/ Misses(can) /\ UNCHANGED vbds /\ Goes(FALSE)
    /\ UNCHANGED <<service, task, faults, context, power, disk, plugged, vifs, history>>

\* What became of a VBD is not looked at; the session is reset for the next one.
DestroyVbd(t) ==
    /\ At(t, "destroy_vbd")
    /\ LET b == thread[t].vbd  left == thread[t].left \ {b}
           can == thread[t].ok /\ b \in vbds \ plugged IN
         /\ \/ can /\ vbds' = vbds \ {b}
            \/ Misses(can) /\ UNCHANGED vbds
         /\ thread' = [thread EXCEPT
              ![t].pc = IF left = {} THEN "destroy_vm" ELSE "look",
              ![t].left = left, ![t].vbd = <<>>, ![t].seen = {}, ![t].ok = TRUE]
    /\ UNCHANGED <<service, task, faults, context, power, disk, plugged, vifs, history>>

\* xapi removes with a halted machine what VBDs are left.
DestroyVm(t) ==
    /\ At(t, "destroy_vm")
    /\ LET v == thread[t].vm IN
         \/ /\ power[v] = "Halted"
            /\ power' = [power EXCEPT ![v] = "gone"]
            /\ vbds' = vbds \ VbdsOf(v)
            /\ vifs' = [vifs EXCEPT ![v] = 0]
            /\ \E r \in Replies : Answered(t, r)
         \/ /\ Misses(power[v] = "Halted")
            /\ Answered(t, FALSE)
            /\ UNCHANGED <<power, vbds, vifs>>
    /\ UNCHANGED <<service, task, faults, context, disk, plugged, history>>

\* RemoveResourceSettings: each VBD on a session that was reset, and one that cannot
\* be removed keeps none of the others.
RemoveVbd(c) ==
    /\ At(c, "remove")
    /\ \E b \in thread[c].left :
         LET left == thread[c].left \ {b}
             can == b \in vbds \ plugged IN
           /\ \/ can /\ vbds' = vbds \ {b}
              \/ Misses(can) /\ UNCHANGED vbds
           /\ thread' = [thread EXCEPT ![c] =
                IF left = {} THEN Idle ELSE [@ EXCEPT !.left = left]]
    /\ disturbed' = disturbed \cup {thread[c].vm}
    /\ UNCHANGED <<service, task, faults, context, power, disk, plugged, vifs,
                   touched, owned, lost>>

(* The end of a job                                                        *)

\* A status that was never set is whatever was on the stack: the code of an error
\* with a text at an address that may not be one.
Report ==
    /\ At(Worker, "report")
    /\ \/ LET failed == thread[Worker].rc # "NoError"
              st == IF failed THEN "Exception" ELSE "Completed" IN
          \E err \in IF thread[Worker].rc = "unset" THEN BOOLEAN ELSE {failed} :
            \E o \in ChangeState(task[current], st, err, faults) :
              /\ Move(Worker, "free", o.ok)
              /\ task' = [task EXCEPT ![current] = o.task]
       \/ thread[Worker].rc = "unset" /\ Move(Worker, "crashed", FALSE) /\ UNCHANGED task
    /\ UNCHANGED <<service, faults, context, world, history>>

FreeJob ==
    /\ At(Worker, "free")
    /\ Service!Finish
    /\ thread' = [thread EXCEPT ![Worker] = Idle]
    /\ UNCHANGED <<task, faults, context, world, history>>

(* Other clients of the machines                                           *)

KillJob(j) ==
    /\ task[j] \in Recorded
    /\ task' = [task EXCEPT ![j] = Destroy(task[j])]
    /\ UNCHANGED <<service, faults, context, world, thread, history>>

StartVm(v) ==
    /\ power[v] = "Halted"
    /\ \A b \in VbdsOf(v) : b[3] # NoDisk => disk[b[3]] = "there"
    /\ power' = [power EXCEPT ![v] = "Running"]
    /\ plugged' = plugged \cup VbdsOf(v)
    /\ touched' = touched \cup {v}
    /\ disturbed' = disturbed \cup {v}
    /\ UNCHANGED <<service, task, faults, context, disk, vbds, vifs, thread, owned, lost>>

StopVm(v) ==
    /\ power[v] = "Running"
    /\ power' = [power EXCEPT ![v] = "Halted"]
    /\ plugged' = plugged \ VbdsOf(v)
    /\ UNCHANGED <<service, task, faults, context, disk, vbds, vifs, thread, history>>

Attach(v, d) ==
    /\ power[v] = "Halted" /\ disk[d] = "there" /\ FreeSlots(v) # {}
    /\ Plug(v, d)
    /\ touched' = touched \cup {v}
    /\ UNCHANGED <<service, task, faults, context, power, disk, plugged, vifs, thread,
                   owned, lost>>

-----------------------------------------------------------------------------

Request(c) ==
    \/ \E j \in Jobs, v \in Vms, template, array \in BOOLEAN, devices \in Requests :
         /\ array \/ Len(devices) = 1
         /\ DefineSystem(c, j, v, template, array, devices)
    \/ \E j \in Jobs, v \in Vms, devices \in Requests : AddResourceSettings(c, j, v, devices)
    \/ \E v \in Vms, devices \in Requests :
         /\ Len(devices) = 1
         /\ AddResourceSetting(c, v, devices[1])
    \/ \E v \in Vms, B \in SUBSET vbds : RemoveResourceSettings(c, v, B)
    \/ \E v \in Vms : DestroySystem(c, v)

Devices(t) ==
    \/ AllAdded(t) \/ CreateVif(t) \/ FindDisk(t) \/ CreateVbd(t) \/ NameDevice(t)

Destruction(t) ==
    \/ ListVbds(t) \/ LookAtDisk(t) \/ DestroyDisk(t) \/ DestroyVbd(t) \/ DestroyVm(t)

\* What a caller does once it has taken a request.
Serve(c) ==
    \/ CreateMachine(c) \/ ReadCreated(c) \/ SetUp(c) \/ SubmitJob(c) \/ ReadPowerState(c)
    \/ RemoveVbd(c) \/ Devices(c) \/ Destruction(c)

Work ==
    \/ TakeJob \/ Announce \/ FindMachine \/ ProvisionDisks \/ ModifyResources
    \/ Devices(Worker) \/ Destruction(Worker) \/ Report \/ FreeJob

Others ==
    \/ \E j \in Jobs : KillJob(j)
    \/ \E v \in Vms : StartVm(v) \/ StopVm(v) \/ \E d \in Disks : Attach(v, d)

Next ==
    /\ Alive
    /\ \/ (Work \/ \E c \in Callers : Serve(c)) /\ UNCHANGED bounds
       \/ /\ requests < MaxRequests /\ requests' = requests + 1 /\ UNCHANGED events
          /\ \E c \in Callers : Request(c)
       \/ /\ events < MaxEvents[faults] /\ events' = events + 1 /\ UNCHANGED requests
          /\ Others

Spec == Init /\ [][Next]_vars

\* Calls to xapi return (with an error, if need be), and no thread is starved.
Fairness ==
    /\ WF_vars(Alive /\ Work /\ UNCHANGED bounds)
    /\ \A c \in Callers : WF_vars(Alive /\ Serve(c) /\ UNCHANGED bounds)

FairSpec == Spec /\ Fairness

-----------------------------------------------------------------------------
(* Properties                                                              *)

Places == {"idle", "create", "created", "set_up", "submit", "power", "announce", "find",
           "provision", "modify", "device", "attach", "name", "list", "look", "destroy_vdi",
           "destroy_vbd", "destroy_vm", "remove", "report", "free", "crashed"}

\* The ranges of the variables.  A VBD is always in a slot of its own, a VBD in use
\* belongs to a machine that runs, and a task has a job state as long as it exists.
TypeOK ==
    /\ Service!Waiting \subseteq Jobs /\ current \in Jobs \cup {NoJob} /\ served \subseteq Jobs
    /\ task \in [Jobs -> Tasks] /\ faults \in BOOLEAN
    /\ context \in [Jobs -> [vm : Vms \cup {NoVm}, devices : Asked,
                              provision : BOOLEAN, remove : BOOLEAN]]
    /\ power \in [Vms -> {"none", "Halted", "Running", "gone"}]
    /\ disk \in [Disks -> {"none", "there", "gone"}]
    /\ vbds \subseteq Vbds /\ \A a, b \in vbds : a[1] = b[1] /\ a[2] = b[2] => a = b
    /\ plugged \subseteq {b \in vbds : power[b[1]] = "Running"}
    /\ vifs \in [Vms -> 0..MaxVifs]
    /\ thread \in [Threads -> [pc : Places, ok : BOOLEAN, job : Jobs \cup {NoJob},
         call : {"none", "define", "add", "add_one", "remove", "destroy"},
         vm : Vms \cup {NoVm}, devices : Asked, vbd : Vbds \cup {<<>>},
         vdi : Disks \cup {NoDisk}, left : SUBSET Vbds, seen : SUBSET Vbds,
         rc : {"Failed", "NoError", "unset"}]]
    /\ touched \subseteq Vms /\ disturbed \subseteq Vms
    /\ owned \in [Vms -> SUBSET Disks] /\ lost \subseteq Vbds
    /\ requests \in 0..MaxRequests /\ events \in 0..MaxEvents[faults]

\* How many of the devices are of one of the types.
CountOf(devices, types) ==
    Cardinality({i \in DOMAIN devices : devices[i].type \in types})

\* The job of a DefineSystem that says Completed has made the whole machine: every
\* device that was asked for is there, and the disk of the template (add_resources_job
\* reports Completed, line 1296).  So it is with errors of xapi and lost replies too,
\* unless somebody else has changed the machine.
CompletedIsWhole ==
    \A j \in Jobs :
      LET v == context[j].vm  devices == context[j].devices IN
        Is(task[j], "Completed") /\ context[j].remove /\ v \notin touched =>
          /\ power[v] = "Halted"
          /\ vifs[v] = CountOf(devices, {"vif", "console"})
          /\ Cardinality(VbdsOf(v)) = CountOf(devices, {"cd", "new", "disk", "unplaced"})
                                        + (IF context[j].provision THEN 1 ELSE 0)
          /\ \A i \in DOMAIN devices : devices[i].type = "disk" =>
                \E b \in VbdsOf(v) : b[3] = devices[i].vdi

\* "remove_vm_on_error: if there was an error, delete the vm" (line 67): the job of a
\* DefineSystem that says Exception has left no machine behind, if nobody else has
\* changed it.  And of a machine that was destroyed no disk is left behind that was
\* its own when its VBDs were listed, whatever other VBDs it had, if no other client
\* interfered.  (When every call to xapi is answered.)
NothingLeftBehind ==
    ~faults =>
      /\ \A j \in Jobs : LET v == context[j].vm IN
           Is(task[j], "Exception") /\ context[j].remove /\ v \notin touched =>
             power[v] = "gone"
      /\ \A v \in Vms : power[v] = "gone" /\ v \notin disturbed =>
           \A d \in owned[v] : disk[d] = "gone"

\* A disk that a VBD of another machine was seen to use is not destroyed with a
\* machine, nor one that is read-only or sharable (_vbd_destroy, line 2352), whatever
\* errors come in between and whoever destroys another machine at the same time.
InUseDisksSurvive == lost = {} /\ \A d \in Protected : disk[d] # "gone"

\* When every call is answered, a request is answered and the task of a job ends,
\* unless the process does.
EveryRequestEnds ==
    ~faults =>
      /\ \A c \in Callers : []<>(At(c, "idle") \/ ~Alive)
      /\ \A j \in Jobs : (task[j] # Absent) ~> (Ended(task[j]) \/ ~Alive)

\* A job that fails because of a status that was never set may say so without a code.
Uncoded(t, u) ==
    (Is(t, "New") \/ Is(t, "Running")) /\ u = [state |-> "Exception", error |-> FALSE]

\* Who looks at a job again and again (job_change_state, KillJob) never sees it go back:
\* it is New, Running and ended, once, whatever replies are lost on the way.
JobsProceed ==
    [][\A j \in Jobs : Proceeds(task[j], task'[j]) \/ Uncoded(task[j], task'[j])]_vars
=============================================================================
