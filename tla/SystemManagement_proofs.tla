---------------------- MODULE SystemManagement_proofs ----------------------
(***************************************************************************)
(* Theorems about SystemManagement, for any number of machines, disks,     *)
(* jobs and clients, whatever fails and however the threads interleave:    *)
(* no disk is destroyed with a machine that another one was seen to use;   *)
(* threads, jobs and machines keep to their types; the job of a definition *)
(* that says Completed has made all that was asked for; and, as long as no *)
(* call fails, a definition that failed and a machine that was destroyed   *)
(* leave nothing behind.                                                   *)
(***************************************************************************)
EXTENDS SystemManagement, FiniteSetTheorems, SequenceTheorems,
        WellFoundedInduction, TLAPS

\* The locals of a thread that matter here, the disks.
Local == {"pc", "ok", "vm", "vbd", "left", "seen"}
Shape ==
    /\ DOMAIN thread = Threads /\ \A t \in Threads : Local \subseteq DOMAIN thread[t]
    /\ DOMAIN disk = Disks /\ IsFiniteSet(vbds)

\* While the VBDs of a machine are gone through, all that are left are its own.  The
\* disk to be destroyed was found unprotected, and without users but the machine.
Walking == {"look", "destroy_vdi", "destroy_vbd"}
Safe(r) ==
    /\ r.pc \in Walking => \A b \in r.left : b[1] = r.vm
    /\ r.pc = "destroy_vdi" => r.vbd[3] \notin Protected /\ \A b \in r.seen : b[1] = r.vm
Good(r) == Local \subseteq DOMAIN r /\ Safe(r)

IInv == Shape /\ (\A t \in Threads : Safe(thread[t])) /\ InUseDisksSurvive

-----------------------------------------------------------------------------
(* Lemmas about the threads                                                *)

\* The strengthened invariant allows each thread any record that is good.
LEMMA ThreadStep ==
  ASSUME IInv, NEW t \in Threads, NEW r, Good(r), thread' = [thread EXCEPT ![t] = r]
  PROVE  /\ DOMAIN thread' = Threads /\ \A u \in Threads : Local \subseteq DOMAIN thread'[u]
         /\ \A u \in Threads : Safe(thread'[u])
  BY DEF IInv, Shape, Good

\* A thread that is not in the middle of a destruction is in order.
LEMMA Elsewhere ==
  ASSUME NEW r, Local \subseteq DOMAIN r, r.pc \notin Walking
  PROVE  Good(r)
  BY DEF Good, Safe, Walking

\* A thread with nothing to do is in order.
LEMMA IdleGood == Good(Idle)
  BY DEF Good, Safe, Idle, Local, Walking

\* A thread may always move to a place outside a destruction.
LEMMA MoveStep ==
  ASSUME IInv, NEW t \in Threads, NEW p, NEW c, p \notin Walking, Move(t, p, c)
  PROVE  \E r : Good(r) /\ thread' = [thread EXCEPT ![t] = r]
<1>1. Good([thread[t] EXCEPT !.pc = p, !.ok = c])
  BY Elsewhere DEF IInv, Shape, Local
<1>2. CASE p = "idle"
  BY <1>2, IdleGood DEF Move
<1>3. CASE p # "idle"
  BY <1>1, <1>3 DEF Move
<1>. QED  BY <1>2, <1>3

\* A thread whose step fails leaves the destruction, if it was in one.
LEMMA FailsStep ==
  ASSUME IInv, NEW t \in Threads, Fails(t)
  PROVE  \E r : Good(r) /\ thread' = [thread EXCEPT ![t] = r]
  BY MoveStep, Zenon DEF Fails, Walking

-----------------------------------------------------------------------------
(* The steps of each thread keep it in order                               *)

\* A request starts outside a destruction.
LEMMA RequestGood ==
  ASSUME IInv, NEW c \in Callers, Request(c)
  PROVE  /\ \E r : Good(r) /\ thread' = [thread EXCEPT ![c] = r]
         /\ UNCHANGED <<world, lost>>
<1>1. ASSUME NEW j \in Jobs, NEW v \in Vms, NEW template \in BOOLEAN, NEW array \in BOOLEAN,
             NEW devices \in Requests, DefineSystem(c, j, v, template, array, devices)
      PROVE  /\ \E r : Good(r) /\ thread' = [thread EXCEPT ![c] = r]
             /\ UNCHANGED <<world, lost>>
  <2>. DEFINE r == [Idle EXCEPT !.pc = "create", !.call = "define", !.job = j,
                                !.devices = IF array THEN devices ELSE <<>>]
  <2>1. Good(r)
    BY Elsewhere DEF Idle, Local, Walking
  <2>. QED  BY <1>1, <2>1 DEF DefineSystem, history
<1>2. ASSUME NEW j \in Jobs, NEW v \in Vms, NEW devices \in Requests,
             AddResourceSettings(c, j, v, devices)
      PROVE  /\ \E r : Good(r) /\ thread' = [thread EXCEPT ![c] = r]
             /\ UNCHANGED <<world, lost>>
  <2>. DEFINE r == [Idle EXCEPT !.pc = "set_up", !.call = "add", !.job = j, !.vm = v]
  <2>1. Good(r)
    BY Elsewhere DEF Idle, Local, Walking
  <2>. QED  BY <1>2, <2>1 DEF AddResourceSettings, Asks
<1>3. ASSUME NEW v \in Vms, NEW device, AddResourceSetting(c, v, device)
      PROVE  /\ \E r : Good(r) /\ thread' = [thread EXCEPT ![c] = r]
             /\ UNCHANGED <<world, lost>>
  <2>. DEFINE R(d) == [Idle EXCEPT !.pc = "device", !.call = "add_one", !.vm = v,
                         !.devices = <<d>>]
  <2>1. \A d : Good(R(d))
    BY Elsewhere DEF Idle, Local, Walking
  <2>2. PICK d : thread' = [thread EXCEPT ![c] = R(d)]
    BY <1>3 DEF AddResourceSetting
  <2>. QED  BY <1>3, <2>1, <2>2 DEF AddResourceSetting, Asks
<1>4. ASSUME NEW v \in Vms, NEW B, RemoveResourceSettings(c, v, B)
      PROVE  /\ \E r : Good(r) /\ thread' = [thread EXCEPT ![c] = r]
             /\ UNCHANGED <<world, lost>>
  <2>. DEFINE r == [Idle EXCEPT !.pc = "set_up", !.call = "remove", !.vm = v, !.left = B]
  <2>1. Good(r)
    BY Elsewhere DEF Idle, Local, Walking
  <2>. QED  BY <1>4, <2>1 DEF RemoveResourceSettings, Asks
<1>5. ASSUME NEW v \in Vms, DestroySystem(c, v)
      PROVE  /\ \E r : Good(r) /\ thread' = [thread EXCEPT ![c] = r]
             /\ UNCHANGED <<world, lost>>
  <2>. DEFINE r == [Idle EXCEPT !.pc = "power", !.call = "destroy", !.vm = v]
  <2>1. Good(r)
    BY Elsewhere DEF Idle, Local, Walking
  <2>. QED  BY <1>5, <2>1 DEF DestroySystem, Asks
<1>. QED  BY <1>1, <1>2, <1>3, <1>4, <1>5, Zenon DEF Request

-----------------------------------------------------------------------------
(* The steps and the machines, disks and VBDs                              *)

Kept ==
    /\ DOMAIN disk' = Disks /\ IsFiniteSet(vbds')
    /\ lost' = {} /\ \A d \in Protected : disk'[d] # "gone"

\* Disks that stay as they are stay destroyed or not, and VBDs may go.
LEMMA KeptSame ==
  ASSUME IInv, UNCHANGED <<disk, lost>>, vbds' \subseteq vbds
  PROVE  Kept
<1>1. IsFiniteSet(vbds')
  BY FS_Subset DEF IInv, Shape
<1>. QED  BY <1>1 DEF Kept, IInv, Shape, InUseDisksSurvive

\* A step that changes nothing in the pool loses nothing.
LEMMA KeptWorld ==
  ASSUME IInv, UNCHANGED <<world, lost>>
  PROVE  Kept
  BY KeptSame DEF world

\* A new disk, or none, and a new VBD, or none.
LEMMA KeptNew ==
  ASSUME IInv, UNCHANGED lost,
         \/ disk' = disk
         \/ \E x : disk' = [disk EXCEPT ![x] = "there"],
         \/ vbds' = vbds
         \/ \E b : vbds' = vbds \cup {b}
  PROVE  Kept
<1>1. IsFiniteSet(vbds')
  BY FS_AddElement DEF IInv, Shape
<1>2. DOMAIN disk' = Disks /\ \A d \in Protected : disk'[d] # "gone"
  BY SystemManagementAssumption DEF IInv, Shape, InUseDisksSurvive
<1>. QED  BY <1>1, <1>2 DEF Kept, IInv, InUseDisksSurvive

\* Plugging a disk in adds one VBD.
LEMMA PlugAdds ==
  ASSUME NEW v, NEW d, Plug(v, d)
  PROVE  \E b : vbds' = vbds \cup {b}
  BY DEF Plug

-----------------------------------------------------------------------------
(* The steps of callers and worker                                         *)

Stepped(t) == (\E r : Good(r) /\ thread' = [thread EXCEPT ![t] = r]) /\ Kept

\* What is common to the steps that only move a thread.
LEMMA Moved ==
  ASSUME IInv, NEW t \in Threads, NEW p, NEW c, p \notin Walking, Move(t, p, c),
         UNCHANGED <<world, lost>>
  PROVE  Stepped(t)
  BY MoveStep, KeptWorld DEF Stepped

\* ... or update locals outside a destruction.
LEMMA Updated ==
  ASSUME IInv, NEW t \in Threads, NEW r, thread' = [thread EXCEPT ![t] = r],
         Local \subseteq DOMAIN r, r.pc \notin Walking, Kept
  PROVE  Stepped(t)
  BY Elsewhere DEF Stepped

\* Each step of a caller or of the worker keeps it in order and loses nothing:
\* reading the record of the new machine,
LEMMA ReadCreated_Step ==
  ASSUME IInv, NEW c \in Threads, ReadCreated(c)
  PROVE  Stepped(c)
  BY Moved DEF ReadCreated, Walking, history, Threads

\* setting up the call,
LEMMA SetUp_Step ==
  ASSUME IInv, NEW c \in Threads, SetUp(c)
  PROVE  Stepped(c)
  BY Moved DEF SetUp, Walking, history, Threads

\* submitting the job,
LEMMA SubmitJob_Step ==
  ASSUME IInv, NEW c \in Threads, SubmitJob(c)
  PROVE  Stepped(c)
  BY Moved DEF SubmitJob, Walking, history, Threads

\* creating the machine, whose reply may be lost,
LEMMA CreateMachine_Step ==
  ASSUME IInv, NEW c \in Threads, CreateMachine(c)
  PROVE  Stepped(c)
<1>. DEFINE v == context[thread[c].job].vm
           r == [thread[c] EXCEPT !.pc = "created", !.vm = v]
<1>1. Kept
  BY KeptSame DEF CreateMachine, history
<1>2. Local \subseteq DOMAIN r /\ r.pc \notin Walking
  BY DEF IInv, Shape, Local, Walking
<1>3. CASE thread' = [thread EXCEPT ![c] = r]
  BY <1>1, <1>2, <1>3, Elsewhere DEF Stepped
<1>4. CASE Move(c, "idle", FALSE)
  BY <1>1, <1>4, MoveStep DEF Stepped, Walking
<1>. QED  BY <1>3, <1>4 DEF CreateMachine, Replies

\* reading the power state before a destruction,
LEMMA ReadPowerState_Step ==
  ASSUME IInv, NEW c \in Threads, ReadPowerState(c)
  PROVE  Stepped(c)
<1>1. Kept
  BY KeptSame DEF ReadPowerState, history, world
<1>2. PICK p \in {"list", "idle"}, ok \in BOOLEAN : Move(c, p, ok)
  BY DEF ReadPowerState, Replies
<1>. QED  BY <1>1, <1>2, MoveStep DEF Stepped, Walking

\* taking a job from the list,
LEMMA TakeJob_Step ==
  ASSUME IInv, TakeJob
  PROVE  Stepped(Worker)
<1>. DEFINE r == [Idle EXCEPT !.pc = "announce", !.job = current',
                                !.devices = context[current'].devices]
           q == [Idle EXCEPT !.pc = "free"]
<1>1. Kept /\ Worker \in Threads
  BY KeptWorld DEF TakeJob, history, Threads
<1>2. Local \subseteq DOMAIN r /\ r.pc \notin Walking
  BY DEF Idle, Local, Walking
<1>3. Local \subseteq DOMAIN q /\ q.pc \notin Walking
  BY DEF Idle, Local, Walking
<1>4. CASE thread' = [thread EXCEPT ![Worker] = r]
  BY <1>1, <1>2, <1>4, Updated
<1>5. CASE thread' = [thread EXCEPT ![Worker] = q]
  BY <1>1, <1>3, <1>5, Updated
<1>. QED  BY <1>4, <1>5 DEF TakeJob

\* announcing it as running,
LEMMA Announce_Step ==
  ASSUME IInv, Announce
  PROVE  Stepped(Worker)
  BY Moved DEF Announce, Walking, history, Threads

\* finding the machine of the job,
LEMMA FindMachine_Step ==
  ASSUME IInv, FindMachine
  PROVE  Stepped(Worker)
<1>. DEFINE r == [thread[Worker] EXCEPT !.vm = context[current].vm,
                   !.pc = IF context[current].provision THEN "provision" ELSE "device"]
<1>1. Kept /\ Worker \in Threads
  BY KeptWorld DEF FindMachine, history, Threads
<1>2. Local \subseteq DOMAIN r /\ r.pc \notin Walking
  BY <1>1 DEF IInv, Shape, Local, Walking
<1>3. CASE thread' = [thread EXCEPT ![Worker] = r]
  BY <1>1, <1>2, <1>3, Updated
<1>4. CASE Move(Worker, "report", FALSE)
  BY <1>1, <1>4, MoveStep DEF Stepped, Walking
<1>. QED  BY <1>3, <1>4 DEF FindMachine

\* provisioning its disks,
LEMMA ProvisionDisks_Step ==
  ASSUME IInv, ProvisionDisks
  PROVE  Stepped(Worker)
<1>. DEFINE r == [thread[Worker] EXCEPT !.rc = "unset", !.ok = FALSE,
                   !.pc = IF context[current].remove THEN "list" ELSE "report"]
<1>1. Kept /\ Worker \in Threads
  BY KeptNew, PlugAdds DEF ProvisionDisks, Threads
<1>2. Local \subseteq DOMAIN r /\ r.pc \notin Walking
  BY <1>1 DEF IInv, Shape, Local, Walking
<1>3. CASE thread' = [thread EXCEPT ![Worker] = r]
  BY <1>1, <1>2, <1>3, Updated
<1>4. CASE Move(Worker, "modify", TRUE)
  BY <1>1, <1>4, MoveStep DEF Stepped, Walking
<1>5. CASE Fails(Worker)
  BY <1>1, <1>5, FailsStep DEF Stepped
<1>. QED  BY <1>3, <1>4, <1>5 DEF ProvisionDisks, Replies

\* modifying its processors and memory,
LEMMA ModifyResources_Step ==
  ASSUME IInv, ModifyResources
  PROVE  Stepped(Worker)
  BY Moved DEF ModifyResources, Walking, history, Threads

\* noticing that all devices are added,
LEMMA AllAdded_Step ==
  ASSUME IInv, NEW t \in Threads, AllAdded(t)
  PROVE  Stepped(t)
<1>. DEFINE r == IF t = Worker THEN [thread[t] EXCEPT !.pc = "report", !.rc = "NoError"] ELSE Idle
<1>1. Kept
  BY KeptWorld DEF AllAdded, history
<1>2. Local \subseteq DOMAIN r /\ r.pc \notin Walking
  BY DEF IInv, Shape, Idle, Local, Walking
<1>. QED  BY <1>1, <1>2, Updated DEF AllAdded

\* creating an interface,
LEMMA CreateVif_Step ==
  ASSUME IInv, NEW t \in Threads, CreateVif(t)
  PROVE  Stepped(t)
<1>1. Kept
  BY KeptSame DEF CreateVif, history
<1>2. CASE Move(t, "name", TRUE)
  BY <1>1, <1>2, MoveStep DEF Stepped, Walking
<1>3. CASE Fails(t)
  BY <1>1, <1>3, FailsStep DEF Stepped
<1>. QED  BY <1>2, <1>3 DEF CreateVif, Replies

\* finding or creating a disk,
LEMMA FindDisk_Step ==
  ASSUME IInv, NEW t \in Threads, FindDisk(t)
  PROVE  Stepped(t)
<1>1. Kept
  BY KeptNew DEF FindDisk, history
<1>2. ASSUME NEW d, thread' = [thread EXCEPT ![t].pc = "attach", ![t].vdi = d]
      PROVE  Stepped(t)
  <2>. DEFINE r == [thread[t] EXCEPT !.pc = "attach", !.vdi = d]
  <2>1. Local \subseteq DOMAIN r /\ r.pc \notin Walking
    BY DEF IInv, Shape, Local, Walking
  <2>. QED  BY <1>1, <1>2, <2>1, Updated
<1>3. CASE Fails(t)
  BY <1>1, <1>3, FailsStep DEF Stepped
<1>. QED  BY <1>2, <1>3 DEF FindDisk, Replies

\* attaching it,
LEMMA CreateVbd_Step ==
  ASSUME IInv, NEW t \in Threads, CreateVbd(t)
  PROVE  Stepped(t)
<1>1. Kept
  BY KeptNew, PlugAdds DEF CreateVbd
<1>2. CASE Move(t, "name", TRUE)
  BY <1>1, <1>2, MoveStep DEF Stepped, Walking
<1>3. CASE Fails(t)
  BY <1>1, <1>3, FailsStep DEF Stepped
<1>. QED  BY <1>2, <1>3 DEF CreateVbd, Replies

\* naming the device in the answer,
LEMMA NameDevice_Step ==
  ASSUME IInv, NEW t \in Threads, NameDevice(t)
  PROVE  Stepped(t)
<1>. DEFINE r == [thread[t] EXCEPT !.pc = "device", !.devices = Tail(@)]
           q == [thread[t] EXCEPT !.pc = "device", !.devices = Tail(@), !.ok = FALSE]
<1>1. Kept
  BY KeptWorld DEF NameDevice, history
<1>2. Local \subseteq DOMAIN r /\ r.pc \notin Walking
  BY DEF IInv, Shape, Local, Walking
<1>3. Local \subseteq DOMAIN q /\ q.pc \notin Walking
  BY DEF IInv, Shape, Local, Walking
<1>4. CASE thread' = [thread EXCEPT ![t] = r]
  BY <1>1, <1>2, <1>4, Updated
<1>5. CASE thread' = [thread EXCEPT ![t] = q]
  BY <1>1, <1>3, <1>5, Updated
<1>6. CASE Move(t, "crashed", FALSE)
  BY <1>1, <1>6, MoveStep DEF Stepped, Walking
<1>. QED  BY <1>4, <1>5, <1>6 DEF NameDevice, IInv, Shape

\* listing the VBDs of a machine, which are all its own,
LEMMA ListVbds_Step ==
  ASSUME IInv, NEW t \in Threads, ListVbds(t)
  PROVE  Stepped(t)
<1>. DEFINE v == thread[t].vm
           r == [thread[t] EXCEPT !.pc = IF VbdsOf(v) = {} THEN "destroy_vm" ELSE "look",
                                  !.left = VbdsOf(v), !.ok = TRUE]
<1>1. Kept
  BY KeptWorld DEF ListVbds
<1>2. CASE thread' = [thread EXCEPT ![t] = r]
  <2>1. Local \subseteq DOMAIN thread[t]
    BY DEF IInv, Shape
  <2>2. /\ Local \subseteq DOMAIN r /\ r.pc # "destroy_vdi"
        /\ r.left = VbdsOf(v) /\ r.vm = v
    BY <2>1 DEF Local
  <2>3. Good(r)
    BY <2>2 DEF Good, Safe, VbdsOf
  <2>. QED  BY <1>1, <1>2, <2>3 DEF Stepped
<1>3. CASE Move(t, "destroy_vm", TRUE)
  BY <1>1, <1>3, MoveStep DEF Stepped, Walking
<1>. QED  BY <1>2, <1>3 DEF ListVbds

\* asking for the users of a disk: one user in vbds is the VBD looked at itself,
LEMMA LookAtDisk_Step ==
  ASSUME IInv, NEW t \in Threads, LookAtDisk(t)
  PROVE  Stepped(t)
<1>1. Kept /\ Local \subseteq DOMAIN thread[t] /\ Safe(thread[t])
  BY KeptWorld DEF LookAtDisk, history, IInv, Shape
<1>2. PICK b \in thread[t].left :
        LET can == thread[t].ok /\ b \in vbds /\ b[3] # NoDisk /\ disk[b[3]] = "there"
            alone == Cardinality(UsersOf(b[3])) = 1 /\ b[3] \notin Protected
            next == [thread EXCEPT ![t].vbd = b, ![t].seen = UsersOf(b[3])] IN
        \/ can /\ alone /\ thread' = [next EXCEPT ![t].pc = "destroy_vdi"]
        \/ can /\ (~alone \/ faults) /\ thread' = [next EXCEPT ![t].pc = "destroy_vbd"]
        \/ Misses(can) /\ thread' = [next EXCEPT ![t].pc = "destroy_vbd", ![t].ok = FALSE]
  BY DEF LookAtDisk
<1>3. thread[t].pc = "look" /\ b[1] = thread[t].vm
  BY <1>1 DEF LookAtDisk, At, Safe, Walking
<1>. DEFINE w == [thread[t] EXCEPT !.vbd = b, !.seen = UsersOf(b[3])]
           r == [w EXCEPT !.pc = "destroy_vdi"]
           p == [w EXCEPT !.pc = "destroy_vbd"]
           q == [w EXCEPT !.pc = "destroy_vbd", !.ok = FALSE]
<1>4. CASE /\ thread' = [thread EXCEPT ![t] = r] /\ b \in vbds
           /\ Cardinality(UsersOf(b[3])) = 1 /\ b[3] \notin Protected
  <2>1. PICK x : UsersOf(b[3]) = {x}
    BY <1>4, FS_Singleton, FS_Subset DEF UsersOf, IInv, Shape
  <2>2. \A u \in UsersOf(b[3]) : u = b
    BY <1>4, <2>1 DEF UsersOf
  <2>3. /\ Local \subseteq DOMAIN r
        /\ r.pc = "destroy_vdi" /\ r.vm = thread[t].vm /\ r.left = thread[t].left
        /\ r.vbd = b /\ r.seen = UsersOf(b[3])
    BY <1>1 DEF Local
  <2>4. Good(r)
    BY <1>1, <1>3, <1>4, <2>2, <2>3 DEF Good, Safe, Walking
  <2>. QED  BY <1>1, <1>4, <2>4 DEF Stepped
<1>5. CASE thread' = [thread EXCEPT ![t] = p]
  <2>1. /\ Local \subseteq DOMAIN p /\ p.pc = "destroy_vbd"
        /\ p.vm = thread[t].vm /\ p.left = thread[t].left
    BY <1>1 DEF Local
  <2>2. Good(p)
    BY <1>1, <1>3, <2>1 DEF Good, Safe, Walking
  <2>. QED  BY <1>1, <1>5, <2>2 DEF Stepped
<1>6. CASE thread' = [thread EXCEPT ![t] = q]
  <2>1. /\ Local \subseteq DOMAIN q /\ q.pc = "destroy_vbd"
        /\ q.vm = thread[t].vm /\ q.left = thread[t].left
    BY <1>1 DEF Local
  <2>2. Good(q)
    BY <1>1, <1>3, <2>1 DEF Good, Safe, Walking
  <2>. QED  BY <1>1, <1>6, <2>2 DEF Stepped
<1>. HIDE DEF w, r, p, q
<1>7. /\ [[thread EXCEPT ![t].vbd = b, ![t].seen = UsersOf(b[3])] EXCEPT ![t].pc = "destroy_vdi"]
           = [thread EXCEPT ![t] = r]
      /\ [[thread EXCEPT ![t].vbd = b, ![t].seen = UsersOf(b[3])] EXCEPT ![t].pc = "destroy_vbd"]
           = [thread EXCEPT ![t] = p]
      /\ [[thread EXCEPT ![t].vbd = b, ![t].seen = UsersOf(b[3])]
            EXCEPT ![t].pc = "destroy_vbd", ![t].ok = FALSE] = [thread EXCEPT ![t] = q]
  BY DEF w, r, p, q, IInv, Shape
<1>. QED  BY <1>2, <1>4, <1>5, <1>6, <1>7

\* destroying a disk that was found to be unprotected and unused,
LEMMA DestroyDisk_Step ==
  ASSUME IInv, NEW t \in Threads, DestroyDisk(t)
  PROVE  Stepped(t)
<1>. DEFINE r == [thread[t] EXCEPT !.pc = "destroy_vbd", !.ok = TRUE]
<1>1. Local \subseteq DOMAIN thread[t] /\ Safe(thread[t]) /\ thread[t].pc = "destroy_vdi"
  BY DEF DestroyDisk, At, IInv, Shape
<1>2. Good(r)
  <2>1. /\ Local \subseteq DOMAIN r /\ r.pc = "destroy_vbd"
        /\ r.vm = thread[t].vm /\ r.left = thread[t].left
    BY <1>1 DEF Local
  <2>. QED  BY <1>1, <2>1 DEF Good, Safe, Walking
<1>3. thread' = [thread EXCEPT ![t] = r]
  BY DEF DestroyDisk, Move
<1>4. thread[t].vbd[3] \notin Protected /\ \A b \in thread[t].seen : b[1] = thread[t].vm
  BY <1>1 DEF Safe
<1>5. lost' = {}
  BY <1>4 DEF DestroyDisk, IInv, InUseDisksSurvive
<1>6. DOMAIN disk' = Disks /\ \A d \in Protected : disk'[d] # "gone"
  BY <1>4, SystemManagementAssumption DEF DestroyDisk, IInv, Shape, InUseDisksSurvive
<1>7. Kept
  BY <1>5, <1>6 DEF Kept, DestroyDisk, IInv, Shape
<1>. QED  BY <1>2, <1>3, <1>7 DEF Stepped

\* destroying the VBD and forgetting the disk,
LEMMA DestroyVbd_Step ==
  ASSUME IInv, NEW t \in Threads, DestroyVbd(t)
  PROVE  Stepped(t)
<1>. DEFINE left == thread[t].left \ {thread[t].vbd}
           r == [thread[t] EXCEPT !.pc = IF left = {} THEN "destroy_vm" ELSE "look",
                                  !.left = left, !.vbd = <<>>, !.seen = {}, !.ok = TRUE]
<1>1. Local \subseteq DOMAIN thread[t] /\ Safe(thread[t]) /\ thread[t].pc = "destroy_vbd"
  BY DEF DestroyVbd, At, IInv, Shape
<1>2. Kept
  BY KeptSame DEF DestroyVbd, history
<1>3. /\ Local \subseteq DOMAIN r /\ r.pc # "destroy_vdi"
      /\ r.vm = thread[t].vm /\ r.left \subseteq thread[t].left
  BY <1>1 DEF Local
<1>4. Good(r)
  BY <1>1, <1>3 DEF Good, Safe, Walking
<1>5. thread' = [thread EXCEPT ![t] = r]
  BY DEF DestroyVbd
<1>. QED  BY <1>2, <1>4, <1>5 DEF Stepped

\* destroying the machine,
LEMMA DestroyVm_Step ==
  ASSUME IInv, NEW t \in Threads, DestroyVm(t)
  PROVE  Stepped(t)
<1>1. Kept
  BY KeptSame DEF DestroyVm, history
<1>2. ASSUME NEW ok, Answered(t, ok)
      PROVE  Stepped(t)
  BY <1>1, <1>2, MoveStep DEF Stepped, Answered, Walking
<1>. QED  BY <1>2 DEF DestroyVm

\* removing a VBD at the request of a client,
LEMMA RemoveVbd_Step ==
  ASSUME IInv, NEW c \in Threads, RemoveVbd(c)
  PROVE  Stepped(c)
<1>1. Kept
  BY KeptSame DEF RemoveVbd
<1>2. PICK left : thread' = [thread EXCEPT ![c] =
                               IF left = {} THEN Idle ELSE [@ EXCEPT !.left = left]]
  BY DEF RemoveVbd
<1>. DEFINE r == [thread[c] EXCEPT !.left = left]
<1>3. Local \subseteq DOMAIN r /\ r.pc \notin Walking
  BY DEF RemoveVbd, At, IInv, Shape, Local, Walking
<1>4. CASE thread' = [thread EXCEPT ![c] = r]
  BY <1>1, <1>3, <1>4, Updated
<1>5. CASE thread' = [thread EXCEPT ![c] = Idle]
  BY <1>1, <1>5, IdleGood DEF Stepped
<1>. QED  BY <1>2, <1>4, <1>5

\* reporting the end of the job,
LEMMA Report_Step ==
  ASSUME IInv, Report
  PROVE  Stepped(Worker)
<1>1. Kept /\ Worker \in Threads
  BY KeptWorld DEF Report, history, Threads
<1>2. (\E ok : Move(Worker, "free", ok)) \/ Move(Worker, "crashed", FALSE)
  BY DEF Report
<1>. QED  BY <1>1, <1>2, MoveStep DEF Stepped, Walking

\* and freeing it.
LEMMA FreeJob_Step ==
  ASSUME IInv, FreeJob
  PROVE  Stepped(Worker)
<1>1. Kept
  BY KeptWorld DEF FreeJob, history
<1>. QED  BY <1>1, IdleGood DEF FreeJob, Stepped

\* Other clients change no thread, and no disk that is protected.
LEMMA Others_Step ==
  ASSUME IInv, Others
  PROVE  UNCHANGED thread /\ Kept
<1>1. ASSUME NEW j \in Jobs, KillJob(j)
      PROVE  UNCHANGED thread /\ Kept
  BY <1>1, KeptWorld DEF KillJob, history
<1>2. ASSUME NEW v \in Vms, StartVm(v) \/ StopVm(v)
      PROVE  UNCHANGED thread /\ Kept
  BY <1>2, KeptSame DEF StartVm, StopVm, history
<1>3. ASSUME NEW v \in Vms, NEW d \in Disks, Attach(v, d)
      PROVE  UNCHANGED thread /\ Kept
  BY <1>3, KeptNew, PlugAdds DEF Attach
<1>. QED  BY <1>1, <1>2, <1>3 DEF Others

-----------------------------------------------------------------------------
(* The theorem                                                             *)

\* Every thread starts idle, and nothing is lost yet.
LEMMA InitHolds == Init => IInv
<1>. SUFFICES ASSUME Init PROVE IInv
  OBVIOUS
<1>1. \A t \in Threads : thread[t] = Idle
  BY DEF Init
<1>2. DOMAIN thread = Threads /\ \A t \in Threads : Local \subseteq DOMAIN thread[t]
  BY <1>1, IdleGood DEF Init, Good
<1>3. \A t \in Threads : Safe(thread[t])
  BY <1>1, IdleGood DEF Good
<1>4. IsFiniteSet(vbds) /\ DOMAIN disk = Disks
  BY SystemManagementAssumption DEF Init
<1>5. InUseDisksSurvive
  BY SystemManagementAssumption DEF Init, InUseDisksSurvive
<1>. QED  BY <1>2, <1>3, <1>4, <1>5 DEF IInv, Shape

\* A step of a thread that keeps it in order keeps the invariant.
LEMMA SteppedHolds ==
  ASSUME IInv, NEW t \in Threads, Stepped(t)
  PROVE  IInv'
<1>1. PICK r : Good(r) /\ thread' = [thread EXCEPT ![t] = r]
  BY DEF Stepped
<1>2. /\ DOMAIN thread' = Threads /\ \A u \in Threads : Local \subseteq DOMAIN thread'[u]
      /\ \A u \in Threads : Safe(thread'[u])
  BY <1>1, ThreadStep
<1>3. (\A u \in Threads : Safe(thread[u]))'
  BY <1>2 DEF Safe
<1>4. Shape' /\ InUseDisksSurvive'
  BY <1>2 DEF Stepped, Kept, Shape, InUseDisksSurvive
<1>. QED  BY <1>3, <1>4 DEF IInv

\* The devices and the destruction, for whichever thread.
LEMMA SharedStep ==
  ASSUME IInv, NEW t \in Threads, Devices(t) \/ Destruction(t)
  PROVE  Stepped(t)
  BY AllAdded_Step, CreateVif_Step, FindDisk_Step, CreateVbd_Step, NameDevice_Step,
     ListVbds_Step, LookAtDisk_Step, DestroyDisk_Step, DestroyVbd_Step, DestroyVm_Step, Zenon
     DEF Devices, Destruction

\* Every step of the system keeps the invariant.
LEMMA NextHolds == IInv /\ [Next]_vars => IInv'
<1>. SUFFICES ASSUME IInv, [Next]_vars PROVE IInv'
  OBVIOUS
<1>. USE DEF Threads
<1>1. ASSUME NEW c \in Callers, Request(c)
      PROVE  IInv'
  BY <1>1, RequestGood, KeptWorld, SteppedHolds DEF Stepped
<1>2. ASSUME NEW c \in Callers, Serve(c)
      PROVE  IInv'
  <2>1. Stepped(c)
    BY <1>2, CreateMachine_Step, ReadCreated_Step, SetUp_Step, SubmitJob_Step,
       ReadPowerState_Step, RemoveVbd_Step, SharedStep, Zenon DEF Serve
  <2>. QED  BY <2>1, SteppedHolds
<1>3. CASE Work
  <2>1. Stepped(Worker)
    BY <1>3, TakeJob_Step, Announce_Step, FindMachine_Step, ProvisionDisks_Step,
       ModifyResources_Step, Report_Step, FreeJob_Step, SharedStep, Zenon DEF Work
  <2>. QED  BY <2>1, SteppedHolds
<1>4. CASE Others
  <2>1. UNCHANGED thread /\ Kept
    BY <1>4, Others_Step
  <2>. QED  BY <2>1 DEF Kept, IInv, Shape, Safe, InUseDisksSurvive
<1>5. CASE UNCHANGED vars
  BY <1>5 DEF vars, world, history, IInv, Shape, Safe, InUseDisksSurvive
<1>. QED  BY <1>1, <1>2, <1>3, <1>4, <1>5 DEF Next

\* No disk is destroyed with a machine that another machine was seen to use, and none
\* that is read-only or sharable: _vbd_destroy asks for the users of a disk and for its
\* flags, and an error leaves the flags set.
THEOREM InUseDisksSafe == Spec => []InUseDisksSurvive
<1>1. IInv => InUseDisksSurvive
  BY DEF IInv
<1>. QED  BY InitHolds, NextHolds, <1>1, PTL DEF Spec

\* The places of a destruction, and of adding devices.
Destroying == {"list", "look", "destroy_vdi", "destroy_vbd", "destroy_vm"}
Adding == {"device", "attach", "name"}

\* Where a caller can be in which request, and where the worker can be.
PlacesOf ==
    [none    |-> {"idle"},
     define  |-> {"create", "created", "set_up", "submit", "crashed"} \cup Destroying,
     add     |-> {"set_up", "submit"},
     add_one |-> Adding \cup {"crashed"},
     remove  |-> {"set_up", "remove"},
     destroy |-> {"power"} \cup Destroying]
WorkerPlaces ==
    {"idle", "announce", "find", "provision", "modify", "report", "free", "crashed"}
      \cup Adding \cup Destroying

\* A caller that defines a machine, or adds to one, has a job in hand that nobody
\* else has.  One that is busy with a machine for another reason has touched it.
Asking(c) ==
    LET r == thread[c] IN
      /\ r.pc \in PlacesOf[r.call]
      /\ r.call = "none" => r = Idle
      /\ r.call \in {"define", "add"} =>
           /\ r.job \in Jobs /\ context[r.job].vm \in Vms /\ task[r.job] = Absent
           /\ context[r.job].remove <=> r.call = "define"
           /\ \A d \in Callers : thread[d].call \in {"define", "add"} /\ thread[d].job = r.job
                => d = c
      /\ r.call = "define" =>
           IF r.pc = "create" THEN r.vm = NoVm /\ power[context[r.job].vm] = "none"
                              ELSE r.vm = context[r.job].vm /\ power[r.vm] # "none"
      /\ r.call \in {"add", "add_one", "remove", "destroy"} => r.vm \in touched
Requesting == \A c \in Callers : Asking(c)

\* The worker is busy with the machine of the job it serves, from when it was found.
Working ==
    LET r == thread[Worker] IN
      /\ r.call = "none" /\ r.pc \in WorkerPlaces
      /\ r.pc = "idle" <=> current = NoJob
      /\ r.vm \in {NoVm} \cup {context[j].vm : j \in {current} \ {NoJob}}
      /\ r.vm # NoVm => power[r.vm] # "none"
      /\ r.pc \in {"provision", "modify"} \cup Adding \cup Destroying => r.vm # NoVm

\* While a VBD is made there is a device to make it for.  The VBDs that are gone
\* through are those of the machine, and the next one is among them.
Sound(r) ==
    /\ r.pc \in {"attach", "name"} => r.devices # <<>>
    /\ r.pc \in {"look", "destroy_vdi", "destroy_vbd"} \/ r.call = "remove" =>
         \A b \in r.left : b[1] = r.vm
    /\ r.pc \in {"destroy_vdi", "destroy_vbd"} => r.vbd \in r.left
Steady == \A t \in Threads : Sound(thread[t])

\* A job that was accepted waits once, and has a task; a task is that of a job about
\* some machine.
Accepted ==
    /\ pending \in Seq(Jobs)
    /\ \A n \in DOMAIN pending : task[pending[n]] # Absent /\ pending[n] # current
    /\ \A m, n \in DOMAIN pending : pending[m] = pending[n] => m = n
    /\ current # NoJob => task[current] # Absent
    /\ \A j \in Jobs : task[j] # Absent => context[j].vm \in Vms

\* Two jobs are about one machine only if a client has asked for one of them when it
\* was there.
Contexts ==
    \A j, k \in Jobs : j # k /\ context[j].vm = context[k].vm /\ context[j].vm \in Vms =>
      /\ power[context[j].vm] # "none"
      /\ context[j].remove => context[j].vm \in touched

\* A machine that is not there yet has nothing.
Unmade ==
    \A v \in Vms : power[v] = "none" => VbdsOf(v) = {} /\ vifs[v] = 0 /\ v \notin touched

Control == TypeOK /\ Requesting /\ Working /\ Steady /\ Accepted /\ Contexts /\ Unmade

\* The machine of a definition that nobody else has touched.
Own(j) == context[j].remove /\ context[j].vm \notin touched
Fresh(v) == power[v] = "Halted" /\ vifs[v] = 0 /\ VbdsOf(v) = {}

Nics == {"vif", "console"}
Drives == {"cd", "new", "disk", "unplaced"}

\* What is there of the machine of job j when the devices in rest are still to come.
Lacks(j, rest) ==
    LET v == context[j].vm  devices == context[j].devices IN
      /\ power[v] = "Halted"
      /\ vifs[v] + CountOf(rest, Nics) = CountOf(devices, Nics)
      /\ Cardinality(VbdsOf(v)) + CountOf(rest, Drives)
           = CountOf(devices, Drives) + (IF context[j].provision THEN 1 ELSE 0)
      /\ \A i \in DOMAIN devices : devices[i].type = "disk" =>
           \/ \E b \in VbdsOf(v) : b[3] = devices[i].vdi
           \/ \E k \in DOMAIN rest : rest[k] = devices[i]

\* The machine of a definition is empty until the worker adds the first device, and
\* then lacks what the worker has not added yet.
Waits ==
    /\ \A c \in Callers : thread[c].call = "define" /\ Own(thread[c].job)
                            /\ thread[c].pc \in {"created", "set_up", "submit"}
         => Fresh(context[thread[c].job].vm)
    /\ \A n \in DOMAIN pending : Own(pending[n]) => Fresh(context[pending[n]].vm)
Builds ==
    LET r == thread[Worker] IN
    /\ r.pc \in {"announce", "find", "provision"} /\ Own(current) => Fresh(context[current].vm)
    /\ r.pc \in {"announce", "find", "provision", "modify"} =>
         r.devices = context[current].devices
    /\ r.pc \in {"modify", "device", "attach"} /\ Own(current) => Lacks(current, r.devices)
    /\ r.pc = "name" /\ Own(current) => Lacks(current, Tail(r.devices))
    /\ r.pc = "provision" => context[current].provision
    /\ r.pc = "attach" => /\ Head(r.devices).type \in Drives
                          /\ Head(r.devices).type = "disk" => r.vdi = Head(r.devices).vdi
    /\ r.rc = "NoError" => r.pc \in {"report", "free"}
    /\ r.pc = "report" /\ r.rc = "NoError" /\ Own(current) => Lacks(current, <<>>)
Building == Waits /\ Builds

\* A task that has ended was reported.
Reported ==
    \A j \in Jobs : Is(task[j], "Completed") \/ Is(task[j], "Exception")
      => j \in served \/ (j = current /\ At(Worker, "free"))
Queue == current \notin served /\ \A n \in DOMAIN pending : pending[n] \notin served

\* The machine of a definition that says Completed lacks nothing.
Delivered == \A j \in Jobs : Is(task[j], "Completed") /\ Own(j) => Lacks(j, <<>>)

-----------------------------------------------------------------------------
(* The locals of the threads                                               *)

\* The locals of a thread.
Locals ==
    [pc : Places, ok : BOOLEAN, job : Jobs \cup {NoJob},
     call : {"none", "define", "add", "add_one", "remove", "destroy"},
     vm : Vms \cup {NoVm}, devices : Asked, vbd : Vbds \cup {<<>>},
     vdi : Disks \cup {NoDisk}, left : SUBSET Vbds, seen : SUBSET Vbds,
     rc : {"Failed", "NoError", "unset"}]

\* A set of numbers that is not empty has a lowest one: the initial segments that its
\* elements end are finite sets, of which one is the least.
LEMMA LowestIs ==
  ASSUME NEW S, S \subseteq Nat, S # {}
  PROVE  Lowest(S) \in S
<1>. DEFINE R == StrictSubsetOrdering(Nat)
            T == {0..k : k \in S}
<1>1. IsWellFoundedOn(R, FiniteSubsetsOf(Nat))
  BY FS_StrictSubsetOrderingWellFounded
<1>2. T \subseteq FiniteSubsetsOf(Nat) /\ T # {}
  <2>1. ASSUME NEW k \in S PROVE 0..k \in FiniteSubsetsOf(Nat)
    BY FS_Interval DEF FiniteSubsetsOf
  <2>. QED  BY <2>1
<1>3. PICK x \in T : \A y \in T : <<y, x>> \notin R
  <2>. HIDE DEF R, T
  <2>. QED  BY <1>1, <1>2, WFMin
<1>4. PICK n \in S : x = 0..n
  OBVIOUS
<1>5. ASSUME NEW k \in S PROVE n <= k
  <2>. SUFFICES ASSUME k < n PROVE FALSE
    OBVIOUS
  <2>1. 0..k \subseteq 0..n /\ n \in 0..n /\ n \notin 0..k
    OBVIOUS
  <2>2. <<0..k, 0..n>> \in R
    BY <2>1 DEF StrictSubsetOrdering
  <2>. QED  BY <1>3, <1>4, <2>2
<1>. QED  BY <1>5 DEF Lowest

\* A thread with nothing to do.
LEMMA IdleType == Idle \in Locals /\ Idle.pc = "idle" /\ Idle.call = "none" /\ Idle.vm = NoVm
  BY DEF Idle, Locals, Places, Asked

\* Only thread t changes its locals.
Only(t) == thread' \in [Threads -> Locals] /\ \A u \in Threads \ {t} : thread'[u] = thread[u]

\* All but the place and the state of the session stays.
Same(q, r) ==
    /\ r.call = q.call /\ r.job = q.job /\ r.vm = q.vm /\ r.devices = q.devices
    /\ r.vbd = q.vbd /\ r.vdi = q.vdi /\ r.left = q.left /\ r.seen = q.seen /\ r.rc = q.rc

\* Thread t goes to place p, with its session in order or not, or is done.
Went(t, p, c) ==
    /\ Only(t)
    /\ IF p = "idle" THEN thread'[t] = Idle
       ELSE thread'[t].pc = p /\ thread'[t].ok = c /\ Same(thread[t], thread'[t])

\* New locals of a thread.
LEMMA UpdateOnly ==
  ASSUME thread \in [Threads -> Locals], NEW t \in Threads, NEW r \in Locals,
         thread' = [thread EXCEPT ![t] = r]
  PROVE  Only(t) /\ thread'[t] = r
  BY DEF Only

\* A move changes the place and the session of the thread, or its request is over.
LEMMA MoveWent ==
  ASSUME thread \in [Threads -> Locals], NEW t \in Threads, NEW p \in Places, NEW c \in BOOLEAN,
         Move(t, p, c)
  PROVE  Went(t, p, c)
<1>. DEFINE r == [thread[t] EXCEPT !.pc = p, !.ok = c]
<1>1. CASE p = "idle"
  BY <1>1, IdleType, UpdateOnly DEF Move, Went
<1>2. CASE p # "idle"
  <2>1. thread' = [thread EXCEPT ![t] = r]
    BY <1>2 DEF Move
  <2>2. r \in Locals /\ r.pc = p /\ r.ok = c /\ Same(thread[t], r)
    <3>1. thread[t] \in Locals
      OBVIOUS
    <3>. QED  BY <3>1 DEF Locals, Same
  <2>3. Only(t) /\ thread'[t] = r
    BY <2>1, <2>2, UpdateOnly
  <2>. QED  BY <1>2, <2>2, <2>3 DEF Went
<1>. QED  BY <1>1, <1>2

\* Where a thread goes when a device cannot be added.
FailPlace(t) ==
    IF t = Worker THEN (IF context[current].remove THEN "list" ELSE "report") ELSE "idle"

-----------------------------------------------------------------------------
(* What there is, and what a step may make of it                           *)

WorldType ==
    /\ power \in [Vms -> {"none", "Halted", "Running", "gone"}]
    /\ disk \in [Disks -> {"none", "there", "gone"}]
    /\ vbds \subseteq Vbds /\ \A a, b \in vbds : a[1] = b[1] /\ a[2] = b[2] => a = b
    /\ plugged \subseteq {b \in vbds : power[b[1]] = "Running"}
    /\ vifs \in [Vms -> 0..MaxVifs]
Order == WorldType /\ Unmade

\* A machine that is not there after the step was not there before, and has nothing.
Grown ==
    \A w \in Vms : power'[w] = "none" =>
      power[w] = "none" /\ vifs'[w] = vifs[w] /\ VbdsOf(w)' = VbdsOf(w)

\* Nothing happens to any machine but v.
Spares(v) ==
    \A w \in Vms \ {v} :
      power'[w] = power[w] /\ vifs'[w] = vifs[w] /\ VbdsOf(w)' = VbdsOf(w)

Affects(v) == WorldType' /\ Grown /\ Spares(v)

\* A step that changes nothing in the pool.
LEMMA NoChange ==
  ASSUME Order, UNCHANGED world, NEW v
  PROVE  Affects(v)
  BY DEF Order, WorldType, world, Affects, Grown, Spares, VbdsOf

\* A step that makes or destroys a disk.
LEMMA DiskChange ==
  ASSUME Order, UNCHANGED <<power, vbds, plugged, vifs>>, NEW v,
         disk' \in [Disks -> {"none", "there", "gone"}]
  PROVE  Affects(v)
  BY DEF Order, WorldType, Affects, Grown, Spares, VbdsOf

\* A new VBD takes a slot that was free.
LEMMA PlugChange ==
  ASSUME Order, NEW v, There(v), NEW d \in Disks \cup {NoDisk}, FreeSlots(v) # {},
         vbds' = vbds \cup {<<v, Lowest(FreeSlots(v)), d>>},
         UNCHANGED <<power, plugged, vifs>>, disk' \in [Disks -> {"none", "there", "gone"}]
  PROVE  Affects(v)
<1>. DEFINE s == Lowest(FreeSlots(v))
            b == <<v, s, d>>
<1>1. s \in FreeSlots(v)
  <2>1. FreeSlots(v) \subseteq Nat
    BY SystemManagementAssumption DEF FreeSlots
  <2>. QED  BY <2>1, LowestIs
<1>2. v \in Vms /\ power[v] # "none" /\ s \in Slots /\ \A u \in vbds : u[1] = v => u[2] # s
  BY <1>1 DEF There, FreeSlots, VbdsOf
<1>. HIDE DEF s
<1>3. b \in Vbds /\ b[1] = v /\ b[2] = s
  BY <1>2 DEF Vbds
<1>4. vbds' = vbds \cup {b}
  BY DEF s
<1>. HIDE DEF b
<1>5. WorldType'
  BY <1>2, <1>3, <1>4 DEF Order, WorldType
<1>6. \A w \in Vms \ {v} : VbdsOf(w)' = VbdsOf(w)
  BY <1>3, <1>4 DEF VbdsOf
<1>. QED  BY <1>2, <1>5, <1>6 DEF Affects, Grown, Spares

\* VBDs of a machine go that it does not use.
LEMMA UnplugChange ==
  ASSUME Order, NEW v \in Vms, NEW B \in SUBSET vbds, \A b \in B : b[1] = v,
         vbds' = vbds \ B, B \cap plugged = {}, UNCHANGED <<power, disk, plugged, vifs>>
  PROVE  Affects(v)
<1>1. WorldType'
  BY DEF Order, WorldType
<1>2. \A w \in Vms \ {v} : VbdsOf(w)' = VbdsOf(w)
  BY DEF VbdsOf
<1>3. power[v] = "none" => VbdsOf(v)' = VbdsOf(v)
  BY DEF VbdsOf, Order, Unmade
<1>. QED  BY <1>1, <1>2, <1>3 DEF Affects, Grown, Spares

\* A machine gets another VIF or console.
LEMMA VifChange ==
  ASSUME Order, NEW v, There(v), vifs[v] < MaxVifs, vifs' = [vifs EXCEPT ![v] = @ + 1],
         UNCHANGED <<power, disk, vbds, plugged>>
  PROVE  Affects(v)
<1>1. v \in Vms /\ power[v] # "none"
  BY DEF There
<1>2. vifs[v] \in 0..MaxVifs /\ MaxVifs \in Nat
  BY <1>1, SystemManagementAssumption DEF Order, WorldType
<1>3. WorldType'
  BY <1>1, <1>2 DEF Order, WorldType
<1>. QED  BY <1>1, <1>3 DEF Affects, Grown, Spares, VbdsOf

\* A machine is stopped, or made.
LEMMA PowerOff ==
  ASSUME Order, NEW v \in Vms, power' = [power EXCEPT ![v] = "Halted"],
         plugged' = plugged \ VbdsOf(v), UNCHANGED <<disk, vbds, vifs>>
  PROVE  Affects(v)
  BY DEF Order, WorldType, Affects, Grown, Spares, VbdsOf

\* A halted machine is destroyed with what VBDs are left.
LEMMA VmGone ==
  ASSUME Order, NEW v \in Vms, power[v] = "Halted", power' = [power EXCEPT ![v] = "gone"],
         vbds' = vbds \ VbdsOf(v), vifs' = [vifs EXCEPT ![v] = 0], UNCHANGED <<disk, plugged>>
  PROVE  Affects(v)
<1>1. vifs' \in [Vms -> 0..MaxVifs]
  BY SystemManagementAssumption DEF Order, WorldType
<1>2. WorldType'
  BY <1>1 DEF Order, WorldType, VbdsOf
<1>3. \A w \in Vms \ {v} : VbdsOf(w)' = VbdsOf(w)
  BY DEF VbdsOf
<1>4. \A w \in Vms \ {v} : power'[w] = power[w] /\ vifs'[w] = vifs[w]
  BY DEF Order, WorldType
<1>5. power'[v] = "gone"
  BY DEF Order, WorldType
<1>. QED  BY <1>2, <1>3, <1>4, <1>5 DEF Affects, Grown, Spares

-----------------------------------------------------------------------------
(* The requests                                                            *)

\* DefineSystem starts a thread on its way to a new machine.
LEMMA DefineSystemDoes ==
  ASSUME thread \in [Threads -> Locals], NEW c \in Callers, NEW j \in Jobs, NEW v \in Vms,
         NEW template, NEW array \in BOOLEAN, NEW devices \in Requests,
         DefineSystem(c, j, v, template, array, devices)
  PROVE  /\ Only(c) /\ thread'[c].pc = "create" /\ thread'[c].call = "define"
         /\ thread'[c].job = j /\ thread'[c].vm = NoVm
<1>. DEFINE r == [Idle EXCEPT !.pc = "create", !.call = "define", !.job = j,
                              !.devices = IF array THEN devices ELSE <<>>]
<1>1. devices \in Asked /\ <<>> \in Asked
  <2>1. devices \in Asked
    BY SystemManagementAssumption
  <2>2. <<>> \in Asked
    BY DEF Asked
  <2>. QED  BY <2>1, <2>2
<1>2. /\ r \in Locals
      /\ r.pc = "create" /\ r.call = "define" /\ r.job = j /\ r.vm = NoVm
  BY <1>1, IdleType DEF Locals, Places
<1>3. thread' = [thread EXCEPT ![c] = r] /\ c \in Threads
  BY DEF DefineSystem, Threads
<1>. HIDE DEF r
<1>4. Only(c) /\ thread'[c] = r
  BY <1>2, <1>3, UpdateOnly
<1>. QED  BY <1>2, <1>4

\* AddResourceSettings starts one that will submit a job.
LEMMA AddResourceSettingsDoes ==
  ASSUME thread \in [Threads -> Locals], NEW c \in Callers, NEW j \in Jobs, NEW v \in Vms,
         NEW devices, AddResourceSettings(c, j, v, devices)
  PROVE  /\ Only(c) /\ thread'[c].pc = "set_up" /\ thread'[c].call = "add"
         /\ thread'[c].job = j /\ thread'[c].vm = v
<1>. DEFINE r == [Idle EXCEPT !.pc = "set_up", !.call = "add", !.job = j, !.vm = v]
<1>1. r \in Locals /\ r.pc = "set_up" /\ r.call = "add" /\ r.job = j /\ r.vm = v
  BY IdleType DEF Locals, Places
<1>2. thread' = [thread EXCEPT ![c] = r] /\ c \in Threads
  BY DEF AddResourceSettings, Threads
<1>. HIDE DEF r
<1>3. Only(c) /\ thread'[c] = r
  BY <1>1, <1>2, UpdateOnly
<1>. QED  BY <1>1, <1>3

\* AddResourceSetting starts one that adds the device itself.
LEMMA AddResourceSettingDoes ==
  ASSUME thread \in [Threads -> Locals], NEW c \in Callers, NEW v \in Vms,
         NEW devices \in Requests, Len(devices) = 1, AddResourceSetting(c, v, devices[1])
  PROVE  /\ Only(c) /\ thread'[c].pc = "device" /\ thread'[c].call = "add_one"
         /\ thread'[c].vm = v
<1>0. devices[1] \in [type : Types, vdi : Disks \cup {NoDisk}]
  <2>. DEFINE D == [type : Types, vdi : Disks \cup {NoDisk}]
  <2>1. devices \in Seq(D)
    BY SystemManagementAssumption DEF Asked
  <2>. HIDE DEF D
  <2>2. devices[1] \in D
    BY <2>1
  <2>. QED  BY <2>2 DEF D
<1>1. PICK d \in {NewDisk, Unplaced, devices[1]} :
        thread' = [thread EXCEPT ![c] = [Idle EXCEPT !.pc = "device", !.call = "add_one",
                                                     !.vm = v, !.devices = <<d>>]]
  BY DEF AddResourceSetting
<1>. DEFINE r == [Idle EXCEPT !.pc = "device", !.call = "add_one", !.vm = v, !.devices = <<d>>]
<1>2. thread' = [thread EXCEPT ![c] = r] /\ c \in Threads
  BY <1>1 DEF Threads
<1>3. <<d>> \in Asked
  <2>1. d \in [type : Types, vdi : Disks \cup {NoDisk}]
    BY <1>0 DEF NewDisk, Unplaced, Types
  <2>. QED  BY <2>1 DEF Asked
<1>4. r \in Locals /\ r.pc = "device" /\ r.call = "add_one" /\ r.vm = v
  BY <1>3, IdleType DEF Locals, Places
<1>. HIDE DEF r
<1>5. Only(c) /\ thread'[c] = r
  BY <1>2, <1>4, UpdateOnly
<1>. QED  BY <1>4, <1>5

\* RemoveResourceSettings starts one that removes VBDs of the machine.
LEMMA RemoveResourceSettingsDoes ==
  ASSUME thread \in [Threads -> Locals], vbds \subseteq Vbds, NEW c \in Callers, NEW v \in Vms,
         NEW B, RemoveResourceSettings(c, v, B)
  PROVE  /\ Only(c) /\ thread'[c].pc = "set_up" /\ thread'[c].call = "remove"
         /\ thread'[c].vm = v /\ \A b \in thread'[c].left : b[1] = v
<1>. DEFINE r == [Idle EXCEPT !.pc = "set_up", !.call = "remove", !.vm = v, !.left = B]
<1>1. B \subseteq Vbds /\ \A b \in B : b[1] = v
  BY DEF RemoveResourceSettings, VbdsOf
<1>2. r \in Locals /\ r.pc = "set_up" /\ r.call = "remove" /\ r.vm = v /\ r.left = B
  BY <1>1, IdleType DEF Locals, Places
<1>3. thread' = [thread EXCEPT ![c] = r] /\ c \in Threads
  BY DEF RemoveResourceSettings, Threads
<1>. HIDE DEF r
<1>4. Only(c) /\ thread'[c] = r
  BY <1>2, <1>3, UpdateOnly
<1>. QED  BY <1>1, <1>2, <1>4

\* DestroySystem starts one that looks at the power state.
LEMMA DestroySystemDoes ==
  ASSUME thread \in [Threads -> Locals], NEW c \in Callers, NEW v \in Vms, DestroySystem(c, v)
  PROVE  /\ Only(c) /\ thread'[c].pc = "power" /\ thread'[c].call = "destroy"
         /\ thread'[c].vm = v
<1>. DEFINE r == [Idle EXCEPT !.pc = "power", !.call = "destroy", !.vm = v]
<1>1. r \in Locals /\ r.pc = "power" /\ r.call = "destroy" /\ r.vm = v
  BY IdleType DEF Locals, Places
<1>2. thread' = [thread EXCEPT ![c] = r] /\ c \in Threads
  BY DEF DestroySystem, Threads
<1>. HIDE DEF r
<1>3. Only(c) /\ thread'[c] = r
  BY <1>1, <1>2, UpdateOnly
<1>. QED  BY <1>1, <1>3

-----------------------------------------------------------------------------
(* How a request goes on                                                   *)

\* What a thread is there for stays.
Keeps(q, r) == r.call = q.call /\ r.job = q.job /\ r.vm = q.vm

\* Thread t goes on at one of the places P, or is done.
Leads(t, P) ==
    /\ Only(t) /\ Sound(thread'[t])
    /\ \/ "idle" \in P /\ thread'[t] = Idle
       \/ thread'[t].pc \in P \ {"idle"} /\ Keeps(thread[t], thread'[t])

Ready == thread \in [Threads -> Locals] /\ Order /\ Steady

\* What xapi replies is a Boolean.
LEMMA RepliesType == Replies \subseteq BOOLEAN
  BY DEF Replies

\* Places of which Sound says nothing.
Plain == Places \ {"attach", "name", "look", "destroy_vdi", "destroy_vbd"}

\* A move.
LEMMA MoveLeads ==
  ASSUME Ready, NEW t \in Threads, NEW p \in Places, NEW c \in BOOLEAN, Move(t, p, c),
         p \in {"attach", "name"} => thread[t].devices # <<>>,
         p \in {"look", "destroy_vdi", "destroy_vbd"} => At(t, "destroy_vdi"),
         NEW P, p \in P
  PROVE  Leads(t, P)
<1>1. Went(t, p, c)
  BY MoveWent DEF Ready
<1>2. CASE p = "idle"
  BY <1>1, <1>2, IdleType DEF Went, Leads, Sound, Idle
<1>3. CASE p # "idle"
  <2>1. Sound(thread[t])
    BY DEF Ready, Steady
  <2>2. Sound(thread'[t])
    BY <1>1, <1>3, <2>1 DEF Went, Same, Sound, At
  <2>. QED  BY <1>1, <1>3, <2>2 DEF Went, Leads, Keeps, Same
<1>. QED  BY <1>2, <1>3

\* ... with the session in order, or in error.
LEMMA GoodLeads ==
  ASSUME Ready, NEW t \in Threads, NEW p \in Plain, Move(t, p, TRUE), NEW P, p \in P
  PROVE  Leads(t, P)
  BY MoveLeads DEF Plain

\* So does a move after a failed call.
LEMMA BadLeads ==
  ASSUME Ready, NEW t \in Threads, NEW p \in Plain, Move(t, p, FALSE), NEW P, p \in P
  PROVE  Leads(t, P)
  BY MoveLeads DEF Plain

\* A failure to add a device.
LEMMA FailsLeads ==
  ASSUME Ready, NEW t \in Threads, Fails(t), NEW P, FailPlace(t) \in P
  PROVE  Leads(t, P)
<1>1. FailPlace(t) \in Plain /\ Move(t, FailPlace(t), FALSE)
  BY DEF FailPlace, Fails, Places, Plain
<1>. QED  BY <1>1, BadLeads

\* The steps of a caller.
LEMMA ReadCreatedDoes ==
  ASSUME Ready, NEW c \in Threads, ReadCreated(c)
  PROVE  Leads(c, {"set_up", "crashed"}) /\ Affects(thread[c].vm)
<1>1. Move(c, "set_up", TRUE) \/ Move(c, "crashed", FALSE)
  BY DEF ReadCreated
<1>2. CASE Move(c, "set_up", TRUE)
  <2>1. Leads(c, {"set_up", "crashed"})
    BY <1>2, GoodLeads DEF Places, Plain
  <2>. QED  BY <2>1, NoChange DEF Ready, ReadCreated
<1>3. CASE Move(c, "crashed", FALSE)
  <2>1. Leads(c, {"set_up", "crashed"})
    BY <1>3, BadLeads DEF Places, Plain
  <2>. QED  BY <2>1, NoChange DEF Ready, ReadCreated
<1>. QED  BY <1>1, <1>2, <1>3

\* Where SetUp leads to.
SetUpLeads(c) ==
    CASE thread[c].call = "define" -> {"list", "submit", "idle"}
      [] thread[c].call = "remove" -> {"remove", "idle"}
      [] thread[c].call = "add" -> {"submit"}

\* The settings of a machine are made, and the devices or the disk come next.
LEMMA SetUpDoes ==
  ASSUME Ready, NEW c \in Threads, SetUp(c), thread[c].call \in {"define", "add", "remove"}
  PROVE  Leads(c, SetUpLeads(c)) /\ Affects(thread[c].vm)
<1>. DEFINE p(r) ==
       LET spawn == \/ thread[c].call = "add" \/ thread[c].devices # <<>>
                    \/ thread[c].call = "define" /\ context[thread[c].job].provision
       IN IF thread[c].call = "remove" THEN (IF r THEN "remove" ELSE "idle")
          ELSE IF thread[c].call = "define" /\ ~r THEN "list"
          ELSE IF spawn THEN "submit" ELSE "idle"
<1>1. Move(c, p(TRUE), TRUE) \/ Move(c, p(FALSE), FALSE)
  <2>1. PICK r \in BOOLEAN : Move(c, p(r), r)
    BY DEF SetUp
  <2>2. CASE r = TRUE
    BY <2>1, <2>2
  <2>3. CASE r = FALSE
    BY <2>1, <2>3
  <2>. QED  BY <2>1, <2>2, <2>3
<1>2. p(TRUE) \in Plain /\ p(TRUE) \in SetUpLeads(c)
  <2>1. CASE thread[c].call = "define"
    <3>1. SetUpLeads(c) = {"list", "submit", "idle"} /\ p(TRUE) \in SetUpLeads(c)
      BY <2>1 DEF SetUpLeads
    <3>. QED  BY <3>1 DEF Places, Plain
  <2>2. CASE thread[c].call = "remove"
    <3>1. SetUpLeads(c) = {"remove", "idle"} /\ p(TRUE) \in SetUpLeads(c)
      BY <2>2 DEF SetUpLeads
    <3>. QED  BY <3>1 DEF Places, Plain
  <2>3. CASE thread[c].call = "add"
    <3>1. SetUpLeads(c) = {"submit"} /\ p(TRUE) \in SetUpLeads(c)
      BY <2>3 DEF SetUpLeads
    <3>. QED  BY <3>1 DEF Places, Plain
  <2>. QED  BY <2>1, <2>2, <2>3
<1>3. p(FALSE) \in Plain /\ p(FALSE) \in SetUpLeads(c)
  <2>1. CASE thread[c].call = "define"
    <3>1. SetUpLeads(c) = {"list", "submit", "idle"} /\ p(FALSE) \in SetUpLeads(c)
      BY <2>1 DEF SetUpLeads
    <3>. QED  BY <3>1 DEF Places, Plain
  <2>2. CASE thread[c].call = "remove"
    <3>1. SetUpLeads(c) = {"remove", "idle"} /\ p(FALSE) \in SetUpLeads(c)
      BY <2>2 DEF SetUpLeads
    <3>. QED  BY <3>1 DEF Places, Plain
  <2>3. CASE thread[c].call = "add"
    <3>1. SetUpLeads(c) = {"submit"} /\ p(FALSE) \in SetUpLeads(c)
      BY <2>3 DEF SetUpLeads
    <3>. QED  BY <3>1 DEF Places, Plain
  <2>. QED  BY <2>1, <2>2, <2>3
<1>. HIDE DEF p
<1>4. Leads(c, SetUpLeads(c))
  BY <1>1, <1>2, <1>3, GoodLeads, BadLeads
<1>. QED  BY <1>4, NoChange DEF Ready, SetUp

\* A caller whose job is accepted has done; a definition that cannot is unwound.
LEMMA SubmitJobDoes ==
  ASSUME Ready, NEW c \in Threads, SubmitJob(c)
  PROVE  /\ Leads(c, {"idle"} \cup IF thread[c].call = "define" THEN {"list"} ELSE {})
         /\ Affects(thread[c].vm)
<1>. DEFINE P == {"idle"} \cup IF thread[c].call = "define" THEN {"list"} ELSE {}
            p == IF thread[c].call = "define" THEN "list" ELSE "idle"
<1>1. Move(c, "idle", TRUE) \/ Move(c, p, FALSE)
  BY DEF SubmitJob
<1>2. "idle" \in Plain /\ "idle" \in P
  BY DEF Places, Plain
<1>3. p \in Plain /\ p \in P
  BY DEF Places, Plain
<1>4. Leads(c, P)
  <2>. HIDE DEF p, P
  <2>. QED  BY <1>1, <1>2, <1>3, GoodLeads, BadLeads
<1>. QED  BY <1>4, NoChange DEF Ready, SubmitJob

\* Only a machine that is halted is destroyed.
LEMMA ReadPowerStateDoes ==
  ASSUME Ready, NEW c \in Threads, ReadPowerState(c), thread[c].vm \in Vms
  PROVE  Leads(c, {"list", "idle"}) /\ Affects(thread[c].vm)
<1>1. \/ Move(c, "list", TRUE) \/ Move(c, "idle", FALSE)
      \/ \E r \in Replies : Move(c, "idle", r)
  BY DEF ReadPowerState
<1>2. {"list", "idle"} \subseteq Plain
  BY DEF Places, Plain
<1>3. CASE \E r \in Replies : Move(c, "idle", r)
  <2>1. PICK r \in BOOLEAN : Move(c, "idle", r)
    BY <1>3, RepliesType
  <2>2. Leads(c, {"list", "idle"})
    BY <1>2, <2>1, MoveLeads DEF Plain
  <2>. QED  BY <2>2, NoChange, PowerOff DEF Ready, ReadPowerState
<1>4. CASE Move(c, "list", TRUE)
  <2>1. Leads(c, {"list", "idle"})
    BY <1>2, <1>4, GoodLeads
  <2>. QED  BY <2>1, NoChange, PowerOff DEF Ready, ReadPowerState
<1>5. CASE Move(c, "idle", FALSE)
  <2>1. Leads(c, {"list", "idle"})
    BY <1>2, <1>5, BadLeads
  <2>. QED  BY <2>1, NoChange, PowerOff DEF Ready, ReadPowerState
<1>. QED  BY <1>1, <1>3, <1>4, <1>5

\* The next place of a thread, with other locals.
LEMMA NextLeads ==
  ASSUME Ready, NEW t \in Threads, NEW r \in Locals, thread' = [thread EXCEPT ![t] = r],
         Keeps(thread[t], r), Sound(r), NEW P, r.pc \in P, r.pc # "idle"
  PROVE  Leads(t, P) /\ thread'[t] = r
  BY UpdateOnly DEF Ready, Leads

\* A thread that has done is idle, which every place allows that allows it.
LEMMA DoneLeads ==
  ASSUME Ready, NEW t \in Threads, thread' = [thread EXCEPT ![t] = Idle], NEW P, "idle" \in P
  PROVE  Leads(t, P)
  BY UpdateOnly, IdleType DEF Ready, Leads, Sound, Idle

\* VBDs are removed one by one.
LEMMA RemoveVbdDoes ==
  ASSUME Ready, NEW c \in Threads, RemoveVbd(c), thread[c].call = "remove",
         thread[c].vm \in Vms
  PROVE  Leads(c, {"remove", "idle"}) /\ Affects(thread[c].vm)
<1>1. PICK b \in thread[c].left :
        /\ \/ b \in vbds \ plugged /\ vbds' = vbds \ {b}
           \/ UNCHANGED vbds
        /\ thread' = [thread EXCEPT ![c] =
             IF thread[c].left \ {b} = {} THEN Idle ELSE [@ EXCEPT !.left = thread[c].left \ {b}]]
  BY DEF RemoveVbd
<1>2. thread[c] \in Locals /\ Sound(thread[c])
  BY DEF Ready, Steady
<1>3. b[1] = thread[c].vm
  BY <1>2 DEF Sound
<1>4. Affects(thread[c].vm)
  <2>1. CASE b \in vbds \ plugged /\ vbds' = vbds \ {b}
    <3>. DEFINE B == {b}
    <3>1. B \in SUBSET vbds /\ vbds' = vbds \ B /\ B \cap plugged = {}
      BY <2>1
    <3>2. \A a \in B : a[1] = thread[c].vm
      BY <1>3
    <3>. HIDE DEF B
    <3>. QED  BY <3>1, <3>2, UnplugChange DEF Ready, RemoveVbd
  <2>2. CASE UNCHANGED vbds
    BY <2>2, NoChange DEF Ready, RemoveVbd, world
  <2>. QED  BY <1>1, <2>1, <2>2
<1>5. Leads(c, {"remove", "idle"})
  <2>1. CASE thread[c].left \ {b} = {}
    BY <1>1, <2>1, DoneLeads
  <2>2. CASE thread[c].left \ {b} # {}
    <3>. DEFINE r == [thread[c] EXCEPT !.left = thread[c].left \ {b}]
    <3>1. /\ r \in Locals /\ Keeps(thread[c], r) /\ Sound(r)
          /\ r.pc = thread[c].pc
      BY <1>2 DEF Locals, Keeps, Sound, RemoveVbd, At
    <3>2. thread' = [thread EXCEPT ![c] = r] /\ thread[c].pc = "remove"
      BY <1>1, <2>2 DEF RemoveVbd, At
    <3>. HIDE DEF r
    <3>. QED  BY <3>1, <3>2, NextLeads
  <2>. QED  BY <2>1, <2>2
<1>. QED  BY <1>4, <1>5

\* A machine is made, whether its maker gets to know or not.
LEMMA CreateMachineDoes ==
  ASSUME Ready, NEW c \in Threads, CreateMachine(c), NEW v \in Vms,
         v = context[thread[c].job].vm, power[v] = "none", thread[c].call # "remove"
  PROVE  /\ Only(c) /\ Affects(v) /\ Sound(thread'[c])
         /\ \/ thread'[c] = Idle
            \/ /\ power'[v] = "Halted"
               /\ thread'[c].pc = "created" /\ thread'[c].call = thread[c].call
               /\ thread'[c].job = thread[c].job /\ thread'[c].vm = v
<1>1. thread[c] \in Locals
  BY DEF Ready
<1>2. Affects(v)
  <2>1. CASE power' = [power EXCEPT ![v] = "Halted"]
    <3>1. plugged' = plugged \ VbdsOf(v)
      BY DEF Ready, Order, Unmade, CreateMachine
    <3>. QED  BY <2>1, <3>1, PowerOff DEF Ready, CreateMachine
  <2>2. CASE UNCHANGED power
    BY <2>2, NoChange DEF Ready, CreateMachine, world
  <2>. QED  BY <2>1, <2>2 DEF CreateMachine
<1>3. CASE thread' = [thread EXCEPT ![c].pc = "created", ![c].vm = v]
            /\ power' = [power EXCEPT ![v] = "Halted"]
  <2>. DEFINE r == [thread[c] EXCEPT !.pc = "created", !.vm = v]
  <2>1. /\ r \in Locals /\ r.pc = "created" /\ r.call = thread[c].call
        /\ r.job = thread[c].job /\ r.vm = v
    BY <1>1 DEF Locals, Places
  <2>2. thread' = [thread EXCEPT ![c] = r]
    BY <1>1, <1>3 DEF Ready
  <2>. HIDE DEF r
  <2>3. Only(c) /\ thread'[c] = r /\ Sound(r)
    BY <2>1, <2>2, UpdateOnly DEF Ready, Sound
  <2>4. power'[v] = "Halted"
    BY <1>3 DEF Ready, Order, WorldType
  <2>. QED  BY <1>2, <2>1, <2>3, <2>4
<1>4. CASE \E r \in BOOLEAN : Move(c, "idle", r)
  <2>1. thread' = [thread EXCEPT ![c] = Idle]
    BY <1>4 DEF Move
  <2>2. Only(c) /\ thread'[c] = Idle
    BY <2>1, UpdateOnly, IdleType DEF Ready
  <2>. QED  BY <1>2, <2>2 DEF Sound, Idle
<1>. QED
  <2>1. CASE \E r \in Replies :
               IF r THEN thread' = [thread EXCEPT ![c].pc = "created", ![c].vm = v]
                    ELSE Move(c, "idle", r)
    <3>1. PICK r \in BOOLEAN :
               IF r THEN thread' = [thread EXCEPT ![c].pc = "created", ![c].vm = v]
                    ELSE Move(c, "idle", r)
      BY <2>1, RepliesType
    <3>. QED  BY <1>3, <1>4, <3>1 DEF CreateMachine
  <2>. QED  BY <1>4, <2>1 DEF CreateMachine

-----------------------------------------------------------------------------
(* Adding devices                                                          *)

\* The first device of several, and the others.
LEMMA DeviceType ==
  ASSUME Ready, NEW t \in Threads, thread[t].devices # <<>>
  PROVE  /\ Device(t) \in [type : Types, vdi : Disks \cup {NoDisk}]
         /\ Tail(thread[t].devices) \in Asked
<1>. DEFINE D == [type : Types, vdi : Disks \cup {NoDisk}]
            s == thread[t].devices
<1>1. thread[t] \in Locals
  BY DEF Ready
<1>2. s \in Seq(D)
  BY <1>1 DEF Locals, Asked
<1>. HIDE DEF D, s
<1>3. s # <<>> => Head(s) \in D /\ Tail(s) \in Seq(D)
  BY <1>2
<1>. QED  BY <1>3 DEF D, s, Device, Asked

\* A disk that is made.
LEMMA UnusedIs ==
  ASSUME Ready, Unused # {}
  PROVE  Lowest(Unused) \in Disks
<1>1. Unused \subseteq Nat
  BY SystemManagementAssumption DEF Unused
<1>2. Lowest(Unused) \in Unused
  BY <1>1, LowestIs
<1>. QED  BY <1>2 DEF Unused

\* After the last device.
LEMMA AllAddedDoes ==
  ASSUME Ready, NEW t \in Threads, AllAdded(t)
  PROVE  Leads(t, {IF t = Worker THEN "report" ELSE "idle"}) /\ Affects(thread[t].vm)
<1>1. thread[t] \in Locals /\ Sound(thread[t])
  BY DEF Ready, Steady
<1>2. Affects(thread[t].vm)
  BY NoChange DEF Ready, AllAdded
<1>3. CASE t = Worker
  <2>. DEFINE r == [thread[t] EXCEPT !.pc = "report", !.rc = "NoError"]
  <2>0. "report" \in Places
    BY DEF Places
  <2>1. r \in Locals /\ r.pc = "report" /\ Keeps(thread[t], r) /\ r.left = thread[t].left
    BY <1>1, <2>0 DEF Locals, Keeps
  <2>2. thread' = [thread EXCEPT ![t] = r]
    BY <1>3 DEF AllAdded
  <2>. HIDE DEF r
  <2>3. Sound(r)
    BY <1>1, <2>1 DEF Keeps, Sound
  <2>4. Leads(t, {"report"})
    BY <2>1, <2>2, <2>3, NextLeads
  <2>. QED  BY <1>2, <1>3, <2>4
<1>4. CASE t # Worker
  <2>1. thread' = [thread EXCEPT ![t] = Idle]
    BY <1>4 DEF AllAdded
  <2>2. Leads(t, {"idle"})
    BY <2>1, DoneLeads
  <2>. QED  BY <1>2, <1>4, <2>2
<1>. QED  BY <1>3, <1>4

\* A device that was made is given a name, or given up.
LEMMA MadeLeads ==
  ASSUME Ready, NEW t \in Threads, thread[t].devices # <<>>,
         \E r \in Replies : IF r THEN Move(t, "name", r) ELSE Fails(t)
  PROVE  Leads(t, {"name", FailPlace(t)})
<1>1. CASE Move(t, "name", TRUE)
  <2>1. "name" \in Places /\ "name" \notin {"look", "destroy_vdi", "destroy_vbd"}
    BY DEF Places
  <2>2. "name" \in {"name", FailPlace(t)}
    OBVIOUS
  <2>3. ASSUME NEW c \in BOOLEAN, NEW P, Move(t, "name", c), "name" \in P
        PROVE  Leads(t, P)
    BY <2>1, <2>3, MoveLeads
  <2>. QED  BY <1>1, <2>2, <2>3
<1>2. CASE Fails(t)
  BY <1>2, FailsLeads
<1>3. PICK r \in BOOLEAN : IF r THEN Move(t, "name", r) ELSE Fails(t)
  BY RepliesType
<1>4. CASE r = TRUE
  BY <1>1, <1>3, <1>4
<1>5. CASE r = FALSE
  BY <1>2, <1>3, <1>5
<1>. QED  BY <1>4, <1>5

\* A network interface that was made is named next.
LEMMA CreateVifDoes ==
  ASSUME Ready, NEW t \in Threads, CreateVif(t)
  PROVE  Leads(t, {"name", FailPlace(t)}) /\ Affects(thread[t].vm)
<1>. DEFINE v == thread[t].vm
<1>1. CASE /\ There(v) /\ vifs[v] < MaxVifs
           /\ vifs' = [vifs EXCEPT ![v] = @ + 1]
           /\ \E r \in Replies : IF r THEN Move(t, "name", r) ELSE Fails(t)
  <2>1. Leads(t, {"name", FailPlace(t)})
    BY <1>1, MadeLeads DEF CreateVif
  <2>2. Affects(v)
    BY <1>1, VifChange DEF Ready, CreateVif
  <2>. QED  BY <2>1, <2>2
<1>2. CASE Fails(t) /\ UNCHANGED vifs
  <2>1. Leads(t, {"name", FailPlace(t)})
    BY <1>2, FailsLeads
  <2>2. Affects(v)
    BY <1>2, NoChange DEF Ready, CreateVif, world
  <2>. QED  BY <2>1, <2>2
<1>. QED  BY <1>1, <1>2 DEF CreateVif

\* A thread that goes on to attach a disk.
LEMMA AttachLeads ==
  ASSUME Ready, NEW t \in Threads, NEW d \in Disks \cup {NoDisk}, thread[t].devices # <<>>,
         thread' = [thread EXCEPT ![t].pc = "attach", ![t].vdi = d]
  PROVE  Leads(t, {"attach", FailPlace(t)})
<1>1. thread[t] \in Locals /\ Sound(thread[t])
  BY DEF Ready, Steady
<1>. DEFINE r == [thread[t] EXCEPT !.pc = "attach", !.vdi = d]
<1>0. "attach" \in Places
  BY DEF Places
<1>2. /\ r \in Locals /\ r.pc = "attach" /\ Keeps(thread[t], r)
      /\ r.left = thread[t].left /\ r.devices = thread[t].devices
  BY <1>0, <1>1 DEF Locals, Keeps
<1>3. thread' = [thread EXCEPT ![t] = r]
  BY <1>1 DEF Ready
<1>. HIDE DEF r
<1>4. Sound(r)
  BY <1>1, <1>2 DEF Keeps, Sound
<1>. QED  BY <1>2, <1>3, <1>4, NextLeads

\* A disk that was found or made is attached next.
LEMMA FindDiskDoes ==
  ASSUME Ready, NEW t \in Threads, FindDisk(t)
  PROVE  Leads(t, {"attach", FailPlace(t)}) /\ Affects(thread[t].vm)
<1>. DEFINE G == Leads(t, {"attach", FailPlace(t)}) /\ Affects(thread[t].vm)
<1>1. thread[t].devices # <<>> /\ UNCHANGED <<power, vbds, plugged, vifs>>
  BY DEF FindDisk
<1>2. Device(t).vdi \in Disks \cup {NoDisk}
  BY <1>1, DeviceType
<1>3. Fails(t) => Leads(t, {"attach", FailPlace(t)})
  BY FailsLeads
<1>4. UNCHANGED disk => Affects(thread[t].vm)
  BY <1>1, NoChange DEF Ready, world
<1>5. CASE UNCHANGED disk /\ thread' = [thread EXCEPT ![t].pc = "attach", ![t].vdi = NoDisk]
  BY <1>1, <1>4, <1>5, AttachLeads
<1>6. CASE UNCHANGED disk
             /\ thread' = [thread EXCEPT ![t].pc = "attach", ![t].vdi = Device(t).vdi]
  BY <1>1, <1>2, <1>4, <1>6, AttachLeads
<1>7. CASE UNCHANGED disk /\ Fails(t)
  BY <1>3, <1>4, <1>7
<1>8. CASE /\ Unused # {}
           /\ disk' = [disk EXCEPT ![Lowest(Unused)] = "there"]
           /\ \/ thread' = [thread EXCEPT ![t].pc = "attach", ![t].vdi = Lowest(Unused)]
              \/ Fails(t)
  <2>1. Lowest(Unused) \in Disks
    BY <1>8, UnusedIs
  <2>2. disk' \in [Disks -> {"none", "there", "gone"}]
    BY <1>8 DEF Ready, Order, WorldType
  <2>3. Affects(thread[t].vm)
    BY <1>1, <2>2, DiskChange DEF Ready
  <2>4. Leads(t, {"attach", FailPlace(t)})
    BY <1>1, <1>3, <1>8, <2>1, AttachLeads
  <2>. QED  BY <2>3, <2>4
<1>9. ASSUME NEW r \in Replies,
             IF r THEN thread' = [thread EXCEPT ![t].pc = "attach", ![t].vdi = Lowest(Unused)]
                  ELSE Fails(t)
      PROVE  \/ thread' = [thread EXCEPT ![t].pc = "attach", ![t].vdi = Lowest(Unused)]
             \/ Fails(t)
  BY <1>9
<1>. HIDE DEF G
<1>. QED  BY <1>5, <1>6, <1>7, <1>8, <1>9 DEF FindDisk

\* A disk that was attached is named next.
LEMMA CreateVbdDoes ==
  ASSUME Ready, NEW t \in Threads, CreateVbd(t)
  PROVE  Leads(t, {"name", FailPlace(t)}) /\ Affects(thread[t].vm)
<1>. DEFINE v == thread[t].vm
<1>0. thread[t] \in Locals /\ thread[t].devices # <<>> /\ thread[t].vdi \in Disks \cup {NoDisk}
  BY DEF Ready, Steady, Sound, CreateVbd, At, Locals
<1>1. CASE /\ CanPlug(t) /\ Plug(v, thread[t].vdi)
           /\ \E r \in Replies : IF r THEN Move(t, "name", r) ELSE Fails(t)
  <2>1. Leads(t, {"name", FailPlace(t)})
    BY <1>0, <1>1, MadeLeads
  <2>2. /\ There(v) /\ FreeSlots(v) # {}
        /\ vbds' = vbds \cup {<<v, Lowest(FreeSlots(v)), thread[t].vdi>>}
    BY <1>1 DEF CanPlug, Plug
  <2>3. UNCHANGED <<power, disk, plugged, vifs>>
        /\ disk \in [Disks -> {"none", "there", "gone"}]
    BY DEF Ready, Order, WorldType, CreateVbd
  <2>4. Affects(v)
    BY <1>0, <2>2, <2>3, PlugChange DEF Ready
  <2>. QED  BY <2>1, <2>4
<1>2. CASE Fails(t) /\ UNCHANGED vbds
  <2>1. Leads(t, {"name", FailPlace(t)})
    BY <1>2, FailsLeads
  <2>2. Affects(v)
    BY <1>2, NoChange DEF Ready, CreateVbd, world
  <2>. QED  BY <2>1, <2>2
<1>. QED  BY <1>1, <1>2 DEF CreateVbd

\* After a device comes the next one, unless the process ends.
LEMMA NameDeviceDoes ==
  ASSUME Ready, NEW t \in Threads, NameDevice(t)
  PROVE  Leads(t, {"device", "crashed"}) /\ Affects(thread[t].vm)
<1>1. thread[t] \in Locals /\ Sound(thread[t]) /\ thread[t].devices # <<>>
  BY DEF Ready, Steady, Sound, NameDevice, At
<1>2. Tail(thread[t].devices) \in Asked
  BY <1>1, DeviceType
<1>3. Affects(thread[t].vm)
  BY NoChange DEF Ready, NameDevice
<1>. DEFINE q(ok) == [thread[t] EXCEPT !.pc = "device", !.devices = Tail(@), !.ok = ok]
<1>4. ASSUME NEW ok \in BOOLEAN
      PROVE  q(ok) \in Locals /\ q(ok).pc = "device" /\ Keeps(thread[t], q(ok)) /\ Sound(q(ok))
  <2>1. /\ q(ok) \in Locals /\ q(ok).pc = "device" /\ Keeps(thread[t], q(ok))
        /\ q(ok).left = thread[t].left
    <3>1. "device" \in Places
      BY DEF Places
    <3>. QED  BY <1>1, <1>2, <3>1 DEF Locals, Keeps
  <2>. HIDE DEF q
  <2>. QED  BY <1>1, <2>1 DEF Keeps, Sound
<1>5. \/ \E ok \in BOOLEAN : thread' = [thread EXCEPT ![t] = q(ok)]
      \/ Move(t, "crashed", FALSE)
  <2>1. CASE thread[t].ok /\ thread' = [thread EXCEPT ![t].pc = "device", ![t].devices = Tail(@)]
    <3>1. thread[t].ok = TRUE
      BY <1>1, <2>1 DEF Locals
    <3>2. [thread[t] EXCEPT !.pc = "device", !.devices = Tail(@)] = q(TRUE)
      BY <1>1, <3>1 DEF Locals
    <3>3. thread' = [thread EXCEPT ![t] = [thread[t] EXCEPT !.pc = "device", !.devices = Tail(@)]]
      BY <1>1, <2>1 DEF Ready
    <3>. QED  BY <3>2, <3>3
  <2>2. CASE thread' = [[thread EXCEPT ![t].pc = "device", ![t].devices = Tail(@)]
                          EXCEPT ![t].ok = FALSE]
    <3>1. thread' = [thread EXCEPT ![t] = q(FALSE)]
      BY <1>1, <2>2 DEF Ready
    <3>. QED  BY <3>1
  <2>. QED  BY <2>1, <2>2 DEF NameDevice
<1>. HIDE DEF q
<1>6. CASE \E ok \in BOOLEAN : thread' = [thread EXCEPT ![t] = q(ok)]
  <2>1. PICK ok \in BOOLEAN : thread' = [thread EXCEPT ![t] = q(ok)]
    BY <1>6
  <2>2. Leads(t, {"device", "crashed"})
    BY <1>4, <2>1, NextLeads
  <2>. QED  BY <1>3, <2>2
<1>7. CASE Move(t, "crashed", FALSE)
  <2>1. Leads(t, {"device", "crashed"})
    BY <1>7, BadLeads DEF Places, Plain
  <2>. QED  BY <1>3, <2>1
<1>. QED  BY <1>5, <1>6, <1>7

-----------------------------------------------------------------------------
(* Destroying a machine                                                    *)

\* The VBDs of a machine are listed before they are gone through.
LEMMA ListVbdsDoes ==
  ASSUME Ready, NEW t \in Threads, ListVbds(t), thread[t].call # "remove"
  PROVE  Leads(t, {"look", "destroy_vm"}) /\ Affects(thread[t].vm)
<1>1. thread[t] \in Locals
  BY DEF Ready
<1>2. Affects(thread[t].vm)
  BY NoChange DEF Ready, ListVbds
<1>. DEFINE v == thread[t].vm
            p == IF VbdsOf(v) = {} THEN "destroy_vm" ELSE "look"
            r == [thread[t] EXCEPT !.pc = p, !.left = VbdsOf(v), !.ok = TRUE]
<1>3. CASE thread' = [thread EXCEPT ![t].pc = p, ![t].left = VbdsOf(v), ![t].ok = TRUE]
  <2>0. VbdsOf(v) \subseteq Vbds /\ \A b \in VbdsOf(v) : b[1] = v
    BY DEF VbdsOf, Ready, Order, WorldType
  <2>1. p \in {"look", "destroy_vm"} /\ p \in Places
    BY DEF Places
  <2>2. /\ r \in Locals /\ r.pc = p /\ Keeps(thread[t], r) /\ r.left = VbdsOf(v)
    <3>. HIDE DEF p
    <3>. QED  BY <1>1, <2>0, <2>1 DEF Locals, Keeps
  <2>3. thread' = [thread EXCEPT ![t] = r]
    <3>. HIDE DEF p
    <3>. QED  BY <1>1, <1>3 DEF Ready
  <2>. HIDE DEF r, p
  <2>4. Sound(r)
    BY <2>0, <2>1, <2>2 DEF Keeps, Sound
  <2>5. Leads(t, {"look", "destroy_vm"})
    BY <2>1, <2>2, <2>3, <2>4, NextLeads
  <2>. QED  BY <1>2, <2>5
<1>4. CASE Move(t, "destroy_vm", TRUE)
  <2>1. Leads(t, {"look", "destroy_vm"})
    BY <1>4, GoodLeads DEF Places, Plain
  <2>. QED  BY <1>2, <2>1
<1>. QED  BY <1>3, <1>4 DEF ListVbds

\* What a disk is seen to be decides what becomes of it.
LEMMA LookAtDiskDoes ==
  ASSUME Ready, NEW t \in Threads, LookAtDisk(t)
  PROVE  Leads(t, {"destroy_vdi", "destroy_vbd"}) /\ Affects(thread[t].vm)
<1>1. thread[t] \in Locals /\ Sound(thread[t]) /\ thread[t].pc = "look"
  BY DEF Ready, Steady, LookAtDisk, At
<1>2. Affects(thread[t].vm)
  BY NoChange DEF Ready, LookAtDisk
<1>3. PICK b \in thread[t].left :
        LET next == [thread EXCEPT ![t].vbd = b, ![t].seen = UsersOf(b[3])] IN
        \/ thread' = [next EXCEPT ![t].pc = "destroy_vdi"]
        \/ thread' = [next EXCEPT ![t].pc = "destroy_vbd"]
        \/ thread' = [next EXCEPT ![t].pc = "destroy_vbd", ![t].ok = FALSE]
  BY DEF LookAtDisk
<1>4. b \in Vbds /\ UsersOf(b[3]) \subseteq Vbds
  BY <1>1 DEF Locals, UsersOf, Ready, Order, WorldType
<1>. DEFINE r(p, ok) == [thread[t] EXCEPT !.vbd = b, !.seen = UsersOf(b[3]), !.pc = p, !.ok = ok]
<1>5. ASSUME NEW p \in {"destroy_vdi", "destroy_vbd"}, NEW ok \in BOOLEAN,
             thread' = [thread EXCEPT ![t] = r(p, ok)]
      PROVE  Leads(t, {"destroy_vdi", "destroy_vbd"})
  <2>1. p \in Places /\ p # "idle"
    BY DEF Places
  <2>2. /\ r(p, ok) \in Locals /\ r(p, ok).pc = p /\ Keeps(thread[t], r(p, ok))
        /\ r(p, ok).left = thread[t].left /\ r(p, ok).vbd = b
    BY <1>1, <1>4, <2>1 DEF Locals, Keeps
  <2>. HIDE DEF r
  <2>3. Sound(r(p, ok))
    BY <1>1, <2>2 DEF Keeps, Sound
  <2>. QED  BY <1>5, <2>1, <2>2, <2>3, NextLeads
<1>6. thread[t].ok \in BOOLEAN /\ thread[t].ok = thread[t].ok
  BY <1>1 DEF Locals
<1>7. \/ thread' = [thread EXCEPT ![t] = r("destroy_vdi", thread[t].ok)]
      \/ thread' = [thread EXCEPT ![t] = r("destroy_vbd", thread[t].ok)]
      \/ thread' = [thread EXCEPT ![t] = r("destroy_vbd", FALSE)]
  <2>1. CASE thread' = [[thread EXCEPT ![t].vbd = b, ![t].seen = UsersOf(b[3])]
                          EXCEPT ![t].pc = "destroy_vdi"]
    BY <1>1, <2>1 DEF Ready, Locals
  <2>2. CASE thread' = [[thread EXCEPT ![t].vbd = b, ![t].seen = UsersOf(b[3])]
                          EXCEPT ![t].pc = "destroy_vbd"]
    BY <1>1, <2>2 DEF Ready, Locals
  <2>3. CASE thread' = [[thread EXCEPT ![t].vbd = b, ![t].seen = UsersOf(b[3])]
                          EXCEPT ![t].pc = "destroy_vbd", ![t].ok = FALSE]
    BY <1>1, <2>3 DEF Ready, Locals
  <2>. QED  BY <1>3, <2>1, <2>2, <2>3
<1>. HIDE DEF r
<1>8. Leads(t, {"destroy_vdi", "destroy_vbd"})
  BY <1>5, <1>6, <1>7
<1>. QED  BY <1>2, <1>8

\* A disk is destroyed before the VBD that it was seen through.
LEMMA DestroyDiskDoes ==
  ASSUME Ready, NEW t \in Threads, DestroyDisk(t)
  PROVE  Leads(t, {"destroy_vbd"}) /\ Affects(thread[t].vm)
<1>1. Move(t, "destroy_vbd", TRUE) /\ At(t, "destroy_vdi")
  BY DEF DestroyDisk
<1>2. "destroy_vbd" \in Places /\ "destroy_vbd" \notin {"attach", "name"}
  BY DEF Places
<1>3. ASSUME NEW c \in BOOLEAN, NEW P, Move(t, "destroy_vbd", c), "destroy_vbd" \in P
      PROVE  Leads(t, P)
  BY <1>1, <1>2, <1>3, MoveLeads
<1>4. Leads(t, {"destroy_vbd"})
  BY <1>1, <1>3
<1>5. disk' \in [Disks -> {"none", "there", "gone"}]
  BY DEF DestroyDisk, Ready, Order, WorldType
<1>6. Affects(thread[t].vm)
  BY <1>5, DiskChange DEF DestroyDisk, Ready
<1>. QED  BY <1>4, <1>6

\* After a VBD comes the next one, and after the last one the machine.
LEMMA DestroyVbdDoes ==
  ASSUME Ready, NEW t \in Threads, DestroyVbd(t), thread[t].vm \in Vms,
         thread[t].call # "remove"
  PROVE  Leads(t, {"look", "destroy_vm"}) /\ Affects(thread[t].vm)
<1>1. thread[t] \in Locals /\ Sound(thread[t]) /\ thread[t].pc = "destroy_vbd"
  BY DEF Ready, Steady, DestroyVbd, At
<1>. DEFINE v == thread[t].vm
            b == thread[t].vbd
            left == thread[t].left \ {b}
            p == IF left = {} THEN "destroy_vm" ELSE "look"
            r == [thread[t] EXCEPT !.pc = p, !.left = left, !.vbd = <<>>, !.seen = {}, !.ok = TRUE]
<1>2. b[1] = v
  BY <1>1 DEF Sound
<1>3. Affects(v)
  <2>1. CASE b \in vbds \ plugged /\ vbds' = vbds \ {b}
    <3>. DEFINE B == {b}
    <3>1. B \in SUBSET vbds /\ vbds' = vbds \ B /\ B \cap plugged = {}
      BY <2>1
    <3>2. \A a \in B : a[1] = v
      BY <1>2
    <3>. HIDE DEF B
    <3>. QED  BY <3>1, <3>2, UnplugChange DEF Ready, DestroyVbd
  <2>2. CASE UNCHANGED vbds
    BY <2>2, NoChange DEF Ready, DestroyVbd, world
  <2>. QED  BY <2>1, <2>2 DEF DestroyVbd
<1>4. p \in {"look", "destroy_vm"} /\ p \in Places
  BY DEF Places
<1>5. /\ r \in Locals /\ r.pc = p /\ Keeps(thread[t], r) /\ r.left = left
  <2>1. left \subseteq Vbds
    BY <1>1 DEF Locals
  <2>. HIDE DEF p, left
  <2>. QED  BY <1>1, <1>4, <2>1 DEF Locals, Keeps
<1>6. thread' = [thread EXCEPT ![t] = r]
  <2>1. thread' = [thread EXCEPT ![t].pc = p, ![t].left = left, ![t].vbd = <<>>,
                                 ![t].seen = {}, ![t].ok = TRUE]
    BY DEF DestroyVbd
  <2>. HIDE DEF p, left
  <2>. QED  BY <1>1, <2>1 DEF Ready
<1>7. Sound(r)
  <2>1. \A a \in left : a[1] = v
    BY <1>1 DEF Sound
  <2>. HIDE DEF r, p, left
  <2>. QED  BY <1>4, <1>5, <2>1 DEF Keeps, Sound
<1>8. Leads(t, {"look", "destroy_vm"})
  <2>. HIDE DEF r, p
  <2>. QED  BY <1>4, <1>5, <1>6, <1>7, NextLeads
<1>. QED  BY <1>3, <1>8

\* With the machine a destruction ends.
LEMMA DestroyVmDoes ==
  ASSUME Ready, NEW t \in Threads, DestroyVm(t), thread[t].vm \in Vms
  PROVE  Leads(t, {IF t = Worker THEN "report" ELSE "idle"}) /\ Affects(thread[t].vm)
<1>. DEFINE v == thread[t].vm
            p == IF t = Worker THEN "report" ELSE "idle"
<1>1. p \in Plain
  BY DEF Plain, Places
<1>2. Affects(v)
  <2>1. CASE /\ power[v] = "Halted" /\ power' = [power EXCEPT ![v] = "gone"]
             /\ vbds' = vbds \ VbdsOf(v) /\ vifs' = [vifs EXCEPT ![v] = 0]
    BY <2>1, VmGone DEF Ready, DestroyVm
  <2>2. CASE UNCHANGED <<power, vbds, vifs>>
    BY <2>2, NoChange DEF Ready, DestroyVm, world
  <2>. QED  BY <2>1, <2>2 DEF DestroyVm
<1>3. PICK c \in BOOLEAN : Move(t, p, c)
  <2>1. CASE \E r \in Replies : Answered(t, r)
    BY <2>1, RepliesType DEF Answered
  <2>2. CASE Answered(t, FALSE)
    BY <2>2 DEF Answered
  <2>. QED  BY <2>1, <2>2 DEF DestroyVm
<1>4. Leads(t, {p})
  <2>. HIDE DEF p
  <2>. QED  BY <1>1, <1>3, MoveLeads DEF Plain
<1>. QED  BY <1>2, <1>4

-----------------------------------------------------------------------------
(* The worker                                                              *)

\* What a task may be after job_change_state.
LEMMA ChangedType ==
  ASSUME NEW k \in Tasks \ {Absent}, NEW st \in States, NEW err \in BOOLEAN,
         faults \in BOOLEAN, NEW o \in ChangeState(k, st, err, faults)
  PROVE  /\ o.ok \in BOOLEAN /\ o.task \in Tasks \ {Absent}
         /\ o.task = k \/ o.task = [state |-> st, error |-> err]
<1>1. /\ o.task = k \/ o.task = [state |-> st, error |-> err]
      /\ o.ok \in BOOLEAN
  <2>. DEFINE w(c) == [ok |-> c, task |-> [state |-> st, error |-> err]]
  <2>1. o = w(TRUE) \/ o = w(FALSE) \/ o = [ok |-> FALSE, task |-> k]
    BY DEF ChangeState, Written
  <2>2. \A c \in BOOLEAN : w(c).ok = c /\ w(c).task = [state |-> st, error |-> err]
    OBVIOUS
  <2>3. CASE o = [ok |-> FALSE, task |-> k]
    BY <2>3
  <2>. HIDE DEF w
  <2>. QED  BY <2>1, <2>2, <2>3
<1>2. [state |-> st, error |-> err] \in Recorded
  BY DEF Recorded
<1>3. [state |-> st, error |-> err] \in Tasks \ {Absent}
  BY <1>2, JobTaskAssumption DEF Tasks
<1>. QED  BY <1>1, <1>3

\* The worker is a thread of its own.
LEMMA WorkerIs == Worker \in Threads /\ Worker \notin Callers
  BY SystemManagementAssumption DEF Threads

\* The types of the jobs' contexts, and of the tasks.
JobsType ==
    /\ current \in Jobs \cup {NoJob} /\ served \subseteq Jobs
    /\ task \in [Jobs -> Tasks] /\ faults \in BOOLEAN
    /\ context \in [Jobs -> [vm : Vms \cup {NoVm}, devices : Asked,
                              provision : BOOLEAN, remove : BOOLEAN]]

\* The worker takes the first job that waits, with its devices.
LEMMA TakeJobDoes ==
  ASSUME Ready, JobsType, Accepted, TakeJob
  PROVE  /\ Only(Worker) /\ Sound(thread'[Worker]) /\ thread'[Worker].pc \in {"announce", "free"}
         /\ thread'[Worker].call = "none" /\ thread'[Worker].vm = NoVm
         /\ thread'[Worker].rc = "Failed"
         /\ thread'[Worker].pc = "announce" => thread'[Worker].devices = context[current'].devices
         /\ current' \in Jobs /\ pending # <<>> /\ current' = Head(pending)
         /\ pending' = Tail(pending) /\ current = NoJob /\ served' = served
<1>1. /\ pending # <<>> /\ pending' = Tail(pending) /\ current' = Head(pending)
      /\ current = NoJob /\ served' = served
  BY DEF TakeJob, Service!Take
<1>2. current' \in Jobs
  BY <1>1 DEF Accepted
<1>. DEFINE D == context[current'].devices
            q == [Idle EXCEPT !.pc = "announce", !.job = current', !.devices = D]
            r == [Idle EXCEPT !.pc = "free"]
<1>3. D \in Asked
  BY <1>2 DEF JobsType
<1>4. /\ q \in Locals /\ q.pc = "announce" /\ q.call = "none" /\ q.vm = NoVm
      /\ q.devices = D /\ q.rc = "Failed"
  <2>1. Idle.rc = "Failed" /\ Idle.left = {} /\ "announce" \in Places
    BY DEF Idle, Places
  <2>. HIDE DEF D
  <2>. QED  BY <1>2, <1>3, <2>1, IdleType DEF Locals
<1>5. r \in Locals /\ r.pc = "free" /\ r.call = "none" /\ r.vm = NoVm /\ r.rc = "Failed"
  <2>1. Idle.rc = "Failed" /\ Idle.left = {} /\ "free" \in Places
    BY DEF Idle, Places
  <2>. QED  BY <2>1, IdleType DEF Locals
<1>6. thread' = [thread EXCEPT ![Worker] = q] \/ thread' = [thread EXCEPT ![Worker] = r]
  BY DEF TakeJob
<1>. HIDE DEF q, r
<1>7. CASE thread' = [thread EXCEPT ![Worker] = q]
  <2>1. Only(Worker) /\ thread'[Worker] = q
    BY <1>4, <1>7, UpdateOnly, WorkerIs DEF Ready
  <2>2. Sound(q)
    BY <1>4 DEF Sound
  <2>. QED  BY <1>1, <1>2, <1>4, <2>1, <2>2
<1>8. CASE thread' = [thread EXCEPT ![Worker] = r]
  <2>1. Only(Worker) /\ thread'[Worker] = r
    BY <1>5, <1>8, UpdateOnly, WorkerIs DEF Ready
  <2>2. Sound(r)
    BY <1>5 DEF Sound
  <2>. QED  BY <1>1, <1>2, <1>5, <2>1, <2>2
<1>. QED  BY <1>6, <1>7, <1>8

\* The start of a job is announced in its own task only.
LEMMA AnnounceDoes ==
  ASSUME Ready, JobsType, Accepted, current \in Jobs, Announce
  PROVE  /\ Leads(Worker, {"find"}) /\ task' \in [Jobs -> Tasks]
         /\ task'[current] # Absent /\ \A j \in Jobs \ {current} : task'[j] = task[j]
<1>1. task[current] \in Tasks \ {Absent} /\ "Running" \in States /\ FALSE \in BOOLEAN
  <2>1. current # NoJob
    BY SystemManagementAssumption
  <2>. QED  BY <2>1 DEF JobsType, Accepted, States
<1>2. PICK o \in ChangeState(task[current], "Running", FALSE, faults) :
         Move(Worker, "find", o.ok) /\ task' = [task EXCEPT ![current] = o.task]
  BY DEF Announce
<1>3. o.ok \in BOOLEAN /\ o.task \in Tasks \ {Absent}
  BY <1>1, ChangedType DEF JobsType
<1>4. "find" \in Plain /\ "find" \in {"find"}
  BY DEF Plain, Places
<1>5. Leads(Worker, {"find"})
  BY <1>2, <1>3, <1>4, WorkerIs, MoveLeads DEF Plain
<1>. QED  BY <1>2, <1>3, <1>5 DEF JobsType

\* The machine of the job is found, or the job fails.
LEMMA FindMachineDoes ==
  ASSUME Ready, JobsType, current \in Jobs, FindMachine, thread[Worker].call # "remove"
  PROVE  \/ Leads(Worker, {"report"})
         \/ /\ Only(Worker) /\ Sound(thread'[Worker]) /\ There(context[current].vm)
            /\ thread'[Worker].vm = context[current].vm
            /\ thread'[Worker].call = thread[Worker].call
            /\ thread'[Worker].rc = thread[Worker].rc
            /\ thread'[Worker].devices = thread[Worker].devices
            /\ thread'[Worker].pc = IF context[current].provision THEN "provision" ELSE "device"
<1>. DEFINE v == context[current].vm
            p == IF context[current].provision THEN "provision" ELSE "device"
            r == [thread[Worker] EXCEPT !.vm = v, !.pc = p]
<1>0. thread[Worker] \in Locals /\ v \in Vms \cup {NoVm}
  BY WorkerIs DEF Ready, JobsType
<1>1. p \in Places /\ p \in {"provision", "device"}
  BY DEF Places
<1>2. CASE There(v) /\ thread' = [thread EXCEPT ![Worker].vm = v, ![Worker].pc = p]
  <2>. HIDE DEF p
  <2>1. /\ r \in Locals /\ r.vm = v /\ r.call = thread[Worker].call /\ r.pc = p
        /\ r.rc = thread[Worker].rc /\ r.devices = thread[Worker].devices
    BY <1>0, <1>1 DEF Locals
  <2>2. thread' = [thread EXCEPT ![Worker] = r]
    BY <1>0, <1>2 DEF Ready
  <2>. HIDE DEF r
  <2>3. Only(Worker) /\ thread'[Worker] = r /\ Sound(r)
    BY <1>1, <2>1, <2>2, UpdateOnly, WorkerIs DEF Ready, Sound
  <2>. QED  BY <1>2, <2>1, <2>3 DEF p
<1>3. CASE Move(Worker, "report", FALSE)
  <2>1. Leads(Worker, {"report"})
    BY <1>3, WorkerIs, BadLeads DEF Plain, Places
  <2>. QED  BY <2>1
<1>. QED  BY <1>2, <1>3 DEF FindMachine

\* The disk of the template is made, or not.
LEMMA ProvisionDisksDoes ==
  ASSUME Ready, ProvisionDisks
  PROVE  Leads(Worker, {"modify", "list", "report"}) /\ Affects(thread[Worker].vm)
<1>. DEFINE v == thread[Worker].vm
            P == {"modify", "list", "report"}
<1>0. thread[Worker] \in Locals /\ Sound(thread[Worker])
  BY WorkerIs DEF Ready, Steady
<1>1. FailPlace(Worker) \in P /\ "modify" \in Plain /\ "modify" \in P
  BY DEF FailPlace, Plain, Places
<1>2. Fails(Worker) => Leads(Worker, P)
  BY <1>1, FailsLeads, WorkerIs
<1>3. CASE /\ There(v) /\ FreeSlots(v) # {} /\ Unused # {}
           /\ disk' = [disk EXCEPT ![Lowest(Unused)] = "there"]
           /\ Plug(v, Lowest(Unused))
           /\ \E r \in Replies : IF r THEN Move(Worker, "modify", r) ELSE Fails(Worker)
  <2>1. Lowest(Unused) \in Disks
    BY <1>3, UnusedIs
  <2>2. disk' \in [Disks -> {"none", "there", "gone"}]
    BY <1>3 DEF Ready, Order, WorldType
  <2>3. vbds' = vbds \cup {<<v, Lowest(FreeSlots(v)), Lowest(Unused)>>}
        /\ UNCHANGED <<power, plugged, vifs>>
    BY <1>3 DEF Plug, ProvisionDisks
  <2>4. Affects(v)
    BY <1>3, <2>1, <2>2, <2>3, PlugChange DEF Ready
  <2>5. Move(Worker, "modify", TRUE) => Leads(Worker, P)
    BY <1>1, WorkerIs, GoodLeads
  <2>6. Leads(Worker, P)
    <3>1. PICK r \in BOOLEAN : IF r THEN Move(Worker, "modify", r) ELSE Fails(Worker)
      BY <1>3, RepliesType
    <3>2. CASE r = TRUE
      BY <2>5, <3>1, <3>2
    <3>3. CASE r = FALSE
      BY <1>2, <3>1, <3>3
    <3>. QED  BY <3>2, <3>3
  <2>. QED  BY <2>4, <2>6
<1>4. CASE Fails(Worker) /\ UNCHANGED <<disk, vbds>>
  <2>1. Affects(v)
    BY <1>4, NoChange DEF Ready, ProvisionDisks, world
  <2>. QED  BY <1>2, <1>4, <2>1
<1>5. CASE /\ thread' = [thread EXCEPT ![Worker].rc = "unset", ![Worker].ok = FALSE,
                ![Worker].pc = IF context[current].remove THEN "list" ELSE "report"]
           /\ UNCHANGED <<disk, vbds>>
  <2>1. Affects(v)
    BY <1>5, NoChange DEF Ready, ProvisionDisks, world
  <2>. DEFINE p == IF context[current].remove THEN "list" ELSE "report"
              r == [thread[Worker] EXCEPT !.rc = "unset", !.ok = FALSE, !.pc = p]
  <2>2. p \in Places /\ p \in {"list", "report"}
    BY DEF Places
  <2>. HIDE DEF p
  <2>3. /\ r \in Locals /\ r.pc = p /\ Keeps(thread[Worker], r) /\ r.left = thread[Worker].left
    BY <1>0, <2>2 DEF Locals, Keeps
  <2>4. thread' = [thread EXCEPT ![Worker] = r]
    BY <1>0, <1>5 DEF Ready, p
  <2>. HIDE DEF r
  <2>5. Sound(r)
    BY <1>0, <2>2, <2>3 DEF Sound, Keeps
  <2>6. Leads(Worker, P)
    BY <2>2, <2>3, <2>4, <2>5, NextLeads, WorkerIs
  <2>. QED  BY <2>1, <2>6
<1>. QED  BY <1>3, <1>4, <1>5 DEF ProvisionDisks

\* After processors and memory come the devices.
LEMMA ModifyResourcesDoes ==
  ASSUME Ready, ModifyResources
  PROVE  Leads(Worker, {"device"})
<1>1. PICK r \in BOOLEAN : Move(Worker, "device", r)
  BY DEF ModifyResources
<1>2. "device" \in Plain /\ "device" \in {"device"}
  BY DEF Plain, Places
<1>. QED  BY <1>1, <1>2, WorkerIs, MoveLeads DEF Plain

\* The end of a job is recorded in its task, unless that is gone.
LEMMA ReportDoes ==
  ASSUME Ready, JobsType, Accepted, current \in Jobs, Report
  PROVE  /\ Leads(Worker, {"free", "crashed"}) /\ task' \in [Jobs -> Tasks]
         /\ task'[current] # Absent /\ \A j \in Jobs \ {current} : task'[j] = task[j]
<1>. DEFINE failed == thread[Worker].rc # "NoError"
            st == IF failed THEN "Exception" ELSE "Completed"
            P == {"free", "crashed"}
<1>1. task[current] \in Tasks \ {Absent} /\ st \in States
  <2>1. current # NoJob
    BY SystemManagementAssumption
  <2>. QED  BY <2>1 DEF JobsType, Accepted, States
<1>2. {"free", "crashed"} \subseteq Plain /\ "free" \in P /\ "crashed" \in P
  BY DEF Plain, Places
<1>3. CASE Move(Worker, "crashed", FALSE) /\ UNCHANGED task
  <2>1. Leads(Worker, P)
    BY <1>2, <1>3, WorkerIs, BadLeads
  <2>. QED  BY <1>1, <1>3, <2>1 DEF JobsType
<1>4. ASSUME NEW err \in BOOLEAN, NEW o \in ChangeState(task[current], st, err, faults),
             Move(Worker, "free", o.ok), task' = [task EXCEPT ![current] = o.task]
      PROVE  /\ Leads(Worker, P) /\ task' \in [Jobs -> Tasks]
             /\ task'[current] # Absent /\ \A j \in Jobs \ {current} : task'[j] = task[j]
  <2>. HIDE DEF st, P
  <2>1. o.ok \in BOOLEAN /\ o.task \in Tasks \ {Absent}
    BY <1>1, ChangedType DEF JobsType
  <2>2. Leads(Worker, P)
    BY <1>2, <1>4, <2>1, WorkerIs, MoveLeads DEF Plain
  <2>. QED  BY <1>4, <2>1, <2>2 DEF JobsType
<1>5. (IF thread[Worker].rc = "unset" THEN BOOLEAN ELSE {failed}) \subseteq BOOLEAN
  OBVIOUS
<1>. HIDE DEF st, P, failed
<1>6. CASE \E err \in BOOLEAN : \E o \in ChangeState(task[current], st, err, faults) :
              Move(Worker, "free", o.ok) /\ task' = [task EXCEPT ![current] = o.task]
  BY <1>4, <1>6 DEF P
<1>7. \/ \E err \in BOOLEAN : \E o \in ChangeState(task[current], st, err, faults) :
            Move(Worker, "free", o.ok) /\ task' = [task EXCEPT ![current] = o.task]
      \/ Move(Worker, "crashed", FALSE) /\ UNCHANGED task
  BY <1>5 DEF Report, st, failed
<1>. QED  BY <1>3, <1>6, <1>7 DEF P

\* After a job the worker is idle.
LEMMA FreeJobDoes ==
  ASSUME Ready, FreeJob
  PROVE  Only(Worker) /\ thread'[Worker] = Idle
  BY UpdateOnly, WorkerIs, IdleType DEF Ready, FreeJob

-----------------------------------------------------------------------------
(* The control of the threads is kept                                      *)

HistoryType ==
    /\ touched \subseteq Vms /\ disturbed \subseteq Vms
    /\ owned \in [Vms -> SUBSET Disks] /\ lost \subseteq Vbds
    /\ requests \in 0..MaxRequests /\ events \in 0..MaxEvents[faults]

\* The parts of the type invariant.
LEMMA TypeParts ==
  ASSUME Control
  PROVE  Ready /\ JobsType /\ HistoryType
<1>1. thread \in [Threads -> Locals]
  BY DEF Control, TypeOK, Locals
<1>2. Order /\ Steady
  BY DEF Control, TypeOK, Order, WorldType
<1>3. JobsType /\ HistoryType
  BY DEF Control, TypeOK, JobsType, HistoryType
<1>. QED  BY <1>1, <1>2, <1>3 DEF Ready

\* The parts of the type invariant are the whole of it.
LEMMA TypeWhole ==
  ASSUME (thread \in [Threads -> Locals] /\ WorldType /\ JobsType /\ HistoryType
            /\ pending \in Seq(Jobs))'
  PROVE  TypeOK'
<1>1. Service!Waiting' \subseteq Jobs
  BY DEF Service!Waiting
<1>. QED  BY <1>1 DEF TypeOK, Locals, WorldType, JobsType, HistoryType

\* The places of each request.
LEMMA PlacesAre ==
  /\ PlacesOf["none"] = {"idle"}
  /\ PlacesOf["define"] = {"create", "created", "set_up", "submit", "crashed"} \cup Destroying
  /\ PlacesOf["add"] = {"set_up", "submit"}
  /\ PlacesOf["add_one"] = Adding \cup {"crashed"}
  /\ PlacesOf["remove"] = {"set_up", "remove"}
  /\ PlacesOf["destroy"] = {"power"} \cup Destroying
  BY DEF PlacesOf

\* The machine a thread is busy with is one that is there, or was.
LEMMA BusyWith ==
  ASSUME Control, NEW c \in Callers, thread[c].pc \notin {"create", "idle"}
  PROVE  thread[c].vm \in Vms /\ power[thread[c].vm] # "none"
<1>1. thread[c] \in Locals /\ c \in Threads
  BY TypeParts DEF Ready, Threads
<1>2. Asking(c)
  BY DEF Control, Requesting
<1>3. thread[c].call \in {"define", "add", "add_one", "remove", "destroy"}
  BY <1>1, <1>2, PlacesAre DEF Asking, Locals
<1>4. CASE thread[c].call = "define"
  BY <1>2, <1>4 DEF Asking
<1>5. CASE thread[c].call # "define"
  <2>1. thread[c].vm \in touched /\ touched \subseteq Vms
    BY <1>2, <1>3, <1>5, TypeParts DEF Asking, HistoryType
  <2>. QED  BY <2>1 DEF Control, Unmade
<1>. QED  BY <1>4, <1>5

\* The worker is busy only with a machine that is there, or was.
LEMMA WorkerWith ==
  ASSUME Control, thread[Worker].vm # NoVm
  PROVE  thread[Worker].vm \in Vms /\ power[thread[Worker].vm] # "none"
<1>1. thread[Worker] \in Locals
  BY TypeParts, WorkerIs DEF Ready
<1>. QED  BY <1>1 DEF Control, Working, Locals

\* What a step leaves of the jobs.
JobsStay ==
    /\ \A j \in Jobs : context[j].vm \in Vms => context'[j] = context[j]
    /\ touched \subseteq touched'

\* A request in progress that is none of the step's business goes on.
LEMMA AskingStays ==
  ASSUME Control, NEW v, Affects(v), JobsStay, NEW d \in Callers, thread'[d] = thread[d],
         thread[d].pc = "create" => context[thread[d].job].vm # v,
         thread[d].call \in {"define", "add"} =>
           /\ task'[thread[d].job] = Absent
           /\ \A e \in Callers : (/\ thread'[e].call \in {"define", "add"}
                                 /\ thread'[e].job = thread[d].job) => e = d
  PROVE  Asking(d)'
<1>. DEFINE r == thread[d]
<1>1. Asking(d)
  BY DEF Control, Requesting
<1>2. \A w \in Vms : power[w] # "none" => power'[w] # "none"
  BY DEF Affects, Grown
<1>3. touched \subseteq Vms
  BY TypeParts DEF HistoryType
<1>4. r.pc \in PlacesOf[r.call] /\ (r.call = "none" => r = Idle)
  BY <1>1 DEF Asking
<1>5. r.call \in {"define", "add"} =>
        /\ r.job \in Jobs /\ context'[r.job].vm \in Vms /\ task'[r.job] = Absent
        /\ context'[r.job].remove <=> r.call = "define"
        /\ context'[r.job] = context[r.job]
  BY <1>1 DEF Asking, JobsStay
<1>6. r.call = "define" =>
        IF r.pc = "create" THEN r.vm = NoVm /\ power'[context'[r.job].vm] = "none"
                           ELSE r.vm = context'[r.job].vm /\ power'[r.vm] # "none"
  <2>. SUFFICES ASSUME r.call = "define"
                PROVE  IF r.pc = "create"
                         THEN r.vm = NoVm /\ power'[context'[r.job].vm] = "none"
                         ELSE r.vm = context'[r.job].vm /\ power'[r.vm] # "none"
    OBVIOUS
  <2>1. /\ context[r.job].vm \in Vms
        /\ IF r.pc = "create" THEN r.vm = NoVm /\ power[context[r.job].vm] = "none"
                              ELSE r.vm = context[r.job].vm /\ power[r.vm] # "none"
    BY <1>1 DEF Asking
  <2>2. CASE r.pc = "create"
    <3>1. power'[context[r.job].vm] = power[context[r.job].vm]
      BY <2>1, <2>2 DEF Affects, Spares
    <3>. QED  BY <1>5, <2>1, <2>2, <3>1
  <2>3. CASE r.pc # "create"
    BY <1>2, <1>5, <2>1, <2>3
  <2>. QED  BY <2>2, <2>3
<1>7. r.call \in {"add", "add_one", "remove", "destroy"} => r.vm \in touched'
  BY <1>1 DEF Asking, JobsStay
<1>. QED  BY <1>4, <1>5, <1>6, <1>7 DEF Asking

\* So does the job that is being served.
LEMMA WorkingStays ==
  ASSUME Control, NEW v, Affects(v), JobsStay, thread'[Worker] = thread[Worker],
         UNCHANGED current
  PROVE  Working'
<1>. DEFINE r == thread[Worker]
<1>1. \A w \in Vms : power[w] # "none" => power'[w] # "none"
  BY DEF Affects, Grown
<1>2. Working /\ (r.vm # NoVm => r.vm \in Vms)
  BY WorkerWith DEF Control
<1>3. \A j \in {current} \ {NoJob} : context'[j] = context[j]
  BY TypeParts DEF Control, Accepted, JobsType, JobsStay
<1>4. r.vm \in {NoVm} \cup {context'[j].vm : j \in {current} \ {NoJob}}
  BY <1>2, <1>3 DEF Working
<1>5. r.vm # NoVm => power'[r.vm] # "none"
  BY <1>1, <1>2 DEF Working
<1>. QED  BY <1>2, <1>4, <1>5 DEF Working

\* Jobs about one machine stay in order when no job is added and nothing is unmade.
LEMMA ContextsStay ==
  ASSUME Control, NEW v, Affects(v), UNCHANGED context, touched \subseteq touched'
  PROVE  Contexts'
<1>1. \A w \in Vms : power[w] # "none" => power'[w] # "none"
  BY DEF Affects, Grown
<1>. QED  BY <1>1 DEF Control, Contexts

\* A machine that is not there yet has nothing when steps give it nothing.
LEMMA UnmadeStays ==
  ASSUME Control, NEW v, Affects(v), \A w \in touched' \ touched : power'[w] # "none"
  PROVE  Unmade'
  BY DEF Control, Unmade, Affects, Grown

\* The queue stays in order when nobody puts a job in it or takes one out.
LEMMA AcceptedStays ==
  ASSUME Control, UNCHANGED service, JobsStay,
         \A j \in Jobs : task'[j] = Absent <=> task[j] = Absent
  PROVE  Accepted'
<1>1. /\ pending' = pending /\ current' = current
      /\ \A j \in Jobs : context[j].vm \in Vms => context'[j] = context[j]
  BY DEF service, JobsStay
<1>2. pending \in Seq(Jobs) /\ \A n \in DOMAIN pending : pending[n] \in Jobs
  BY DEF Control, Accepted
<1>3. current \in Jobs \cup {NoJob}
  BY TypeParts DEF JobsType
<1>. QED  BY <1>1, <1>2, <1>3 DEF Control, Accepted

\* The destructions stay in order when the one thread that moves is in order.
LEMMA SteadyStays ==
  ASSUME Control, NEW t \in Threads, Only(t), Sound(thread'[t])
  PROVE  Steady'
  BY DEF Control, Steady, Only

Rest == Requesting /\ Working /\ Steady /\ Accepted /\ Contexts /\ Unmade

\* A caller that is done.
LEMMA DoneAsking ==
  ASSUME NEW c \in Callers, thread'[c] = Idle
  PROVE  Asking(c)'
  BY IdleType, PlacesAre DEF Asking

\* A caller that goes on asks for the same.
LEMMA LedAsking ==
  ASSUME Control, NEW c \in Callers, NEW P, Leads(c, P), Affects(thread[c].vm),
         thread[c].pc \notin {"create", "idle"}, "create" \notin P,
         P \ {"idle"} \subseteq PlacesOf[thread[c].call],
         UNCHANGED <<context, touched, task>>
  PROVE  Asking(c)'
<1>. DEFINE q == thread[c]
            r == thread'[c]
<1>1. CASE thread'[c] = Idle
  BY <1>1, DoneAsking
<1>2. CASE r.pc \in P \ {"idle"} /\ Keeps(q, r)
  <2>1. Asking(c)
    BY DEF Control, Requesting
  <2>2. r.pc \in PlacesOf[r.call] /\ r.pc # "create"
    BY <1>2 DEF Keeps
  <2>3. r.call # "none"
    BY <1>2, <2>2, PlacesAre
  <2>4. r.call \in {"define", "add"} =>
           /\ r.job \in Jobs /\ context'[r.job].vm \in Vms /\ task'[r.job] = Absent
           /\ context'[r.job].remove <=> r.call = "define"
    BY <1>2, <2>1 DEF Asking, Keeps
  <2>5. \A d \in Callers \ {c} : thread'[d] = thread[d]
    BY WorkerIs DEF Leads, Only, Threads
  <2>6. r.call \in {"define", "add"} =>
           \A d \in Callers : thread'[d].call \in {"define", "add"} /\ thread'[d].job = r.job
                                => d = c
    BY <1>2, <2>1, <2>5 DEF Asking, Keeps
  <2>7. q.vm \in Vms /\ power[q.vm] # "none"
    BY BusyWith
  <2>8. power'[r.vm] # "none"
    BY <1>2, <2>7 DEF Keeps, Affects, Grown
  <2>9. r.call = "define" => r.vm = context'[r.job].vm
    BY <1>2, <2>1 DEF Asking, Keeps
  <2>10. r.call \in {"add", "add_one", "remove", "destroy"} => r.vm \in touched'
    BY <1>2, <2>1 DEF Asking, Keeps
  <2>. QED  BY <2>2, <2>3, <2>4, <2>6, <2>8, <2>9, <2>10 DEF Asking
<1>. QED  BY <1>1, <1>2 DEF Leads

\* The requests of the others go on meanwhile.
LEMMA OthersAsk ==
  ASSUME Control, NEW t \in Threads, NEW v, Affects(v), JobsStay, Only(t),
         \A d \in Callers \ {t} : thread[d].pc = "create" => context[thread[d].job].vm # v,
         \A d \in Callers \ {t} : thread[d].call \in {"define", "add"} =>
           /\ task'[thread[d].job] = Absent
           /\ (t \in Callers /\ thread'[t].call \in {"define", "add"}
                 => thread'[t].job # thread[d].job)
  PROVE  \A d \in Callers \ {t} : Asking(d)'
<1>. SUFFICES ASSUME NEW d \in Callers \ {t} PROVE Asking(d)'
  OBVIOUS
<1>1. \A u \in Callers \ {t} : thread'[u] = thread[u]
  BY DEF Only, Threads
<1>2. Asking(d)
  BY DEF Control, Requesting
<1>3. thread[d].call \in {"define", "add"} =>
         \A e \in Callers : (/\ thread'[e].call \in {"define", "add"}
                            /\ thread'[e].job = thread[d].job) => e = d
  <2>. SUFFICES ASSUME thread[d].call \in {"define", "add"}, NEW e \in Callers,
                       thread'[e].call \in {"define", "add"}, thread'[e].job = thread[d].job
                PROVE  e = d
    OBVIOUS
  <2>1. e # t
    OBVIOUS
  <2>2. thread'[e] = thread[e]
    BY <1>1, <2>1
  <2>. QED  BY <1>2, <2>2 DEF Asking
<1>. QED  BY <1>1, <1>3, AskingStays

\* A machine that is there is none that is still to be made.
LEMMA NoCreator ==
  ASSUME Control, NEW v, v \in Vms => power[v] # "none", NEW d \in Callers, At(d, "create")
  PROVE  context[thread[d].job].vm # v
<1>1. Asking(d) /\ thread[d] \in Locals
  BY TypeParts DEF Control, Requesting, Ready, Threads
<1>2. thread[d].call = "define"
  BY <1>1, PlacesAre DEF Asking, Locals, At, Adding, Destroying
<1>. QED  BY <1>1, <1>2 DEF Asking, At

\* A step of a caller after which it asks for what it has asked for, or for nothing.
LEMMA CallerRest ==
  ASSUME Control, NEW c \in Callers, NEW v, Only(c), Affects(v), Sound(thread'[c]), Asking(c)',
         \A d \in Callers \ {c} : thread[d].pc = "create" => context[thread[d].job].vm # v,
         \/ thread'[c].call = "none"
         \/ thread'[c].call = thread[c].call /\ thread'[c].job = thread[c].job,
         UNCHANGED <<service, context, touched, task>>
  PROVE  Rest'
<1>1. JobsStay /\ c \in Threads
  BY DEF JobsStay, Threads
<1>2. \A d \in Callers \ {c} : thread[d].call \in {"define", "add"} =>
           /\ task'[thread[d].job] = Absent
           /\ (c \in Callers /\ thread'[c].call \in {"define", "add"}
                 => thread'[c].job # thread[d].job)
  <2>. SUFFICES ASSUME NEW d \in Callers \ {c}, thread[d].call \in {"define", "add"}
                PROVE  /\ task'[thread[d].job] = Absent
                       /\ (thread'[c].call \in {"define", "add"}
                             => thread'[c].job # thread[d].job)
    OBVIOUS
  <2>1. Asking(d)
    BY DEF Control, Requesting
  <2>. QED  BY <2>1 DEF Asking
<1>3. \A d \in Callers \ {c} : Asking(d)'
  BY <1>1, <1>2, OthersAsk
<1>4. Working'
  <2>1. thread'[Worker] = thread[Worker] /\ UNCHANGED current
    BY WorkerIs DEF Only, service
  <2>. QED  BY <1>1, <2>1, WorkingStays
<1>5. Steady' /\ Accepted' /\ Contexts' /\ Unmade'
  BY <1>1, SteadyStays, AcceptedStays, ContextsStay, UnmadeStays
<1>. QED  BY <1>3, <1>4, <1>5 DEF Rest, Requesting

\* A step of a caller in the middle of its request that submits no job.
LEMMA CallerKeeps ==
  ASSUME Control, NEW c \in Callers, NEW P, Leads(c, P), Affects(thread[c].vm),
         thread[c].pc \notin {"create", "idle"}, "create" \notin P,
         P \ {"idle"} \subseteq PlacesOf[thread[c].call],
         UNCHANGED <<service, context, touched, task>>
  PROVE  Rest'
<1>1. thread[c].vm \in Vms /\ power[thread[c].vm] # "none"
  BY BusyWith
<1>2. \A d \in Callers : thread[d].pc = "create" => context[thread[d].job].vm # thread[c].vm
  BY <1>1, NoCreator DEF At
<1>3. Asking(c)' /\ Only(c) /\ Sound(thread'[c])
  BY LedAsking DEF Leads
<1>4. \/ thread'[c].call = "none"
      \/ thread'[c].call = thread[c].call /\ thread'[c].job = thread[c].job
  BY IdleType DEF Leads, Keeps
<1>. QED  BY <1>2, <1>3, <1>4, CallerRest

\* What the devices and the destruction leave alone, for whichever thread.
LEMMA SharedLeaves ==
  ASSUME NEW t \in Threads, Devices(t) \/ Destruction(t)
  PROVE  UNCHANGED <<service, context, touched, task, faults>>
<1>1. CASE AllAdded(t) \/ CreateVif(t)
  BY <1>1 DEF AllAdded, CreateVif, history
<1>2. CASE FindDisk(t) \/ NameDevice(t)
  BY <1>2 DEF FindDisk, NameDevice, history
<1>3. CASE CreateVbd(t)
  BY <1>3 DEF CreateVbd
<1>4. CASE ListVbds(t) \/ LookAtDisk(t)
  BY <1>4 DEF ListVbds, LookAtDisk, history
<1>5. CASE DestroyDisk(t) \/ DestroyVbd(t)
  BY <1>5 DEF DestroyDisk, DestroyVbd, history
<1>6. CASE DestroyVm(t)
  BY <1>6 DEF DestroyVm, history
<1>. QED  BY <1>1, <1>2, <1>3, <1>4, <1>5, <1>6 DEF Devices, Destruction

\* The requests that a caller may be in the middle of.
LEMMA CallOf ==
  ASSUME Control, NEW c \in Callers
  PROVE  /\ thread[c] \in Locals /\ Asking(c) /\ c \in Threads /\ c # Worker
         /\ thread[c].pc \in {"create", "created"} => thread[c].call = "define"
         /\ thread[c].pc = "set_up" => thread[c].call \in {"define", "add", "remove"}
         /\ thread[c].pc = "submit" => thread[c].call \in {"define", "add"}
         /\ thread[c].pc = "power" => thread[c].call = "destroy"
         /\ thread[c].pc = "remove" => thread[c].call = "remove"
         /\ thread[c].pc \in Adding => thread[c].call = "add_one"
         /\ thread[c].pc \in Destroying => thread[c].call \in {"define", "destroy"}
         /\ thread[c].pc = "idle" => thread[c].call = "none"
<1>1. thread[c] \in Locals /\ Asking(c) /\ c \in Threads
  BY TypeParts DEF Ready, Threads, Control, Requesting
<1>2. thread[c].call \in {"none", "define", "add", "add_one", "remove", "destroy"}
  BY <1>1 DEF Locals
<1>3. thread[c].pc \in PlacesOf[thread[c].call]
  BY <1>1 DEF Asking
<1>. QED  BY <1>1, <1>2, <1>3, PlacesAre, WorkerIs DEF Adding, Destroying

\* A caller goes on in the middle of its request.
Goes(c, P) ==
    /\ Leads(c, P) /\ Affects(thread[c].vm)
    /\ thread[c].pc \notin {"create", "idle"} /\ "create" \notin P
    /\ P \ {"idle"} \subseteq PlacesOf[thread[c].call]

\* A caller that adds devices goes from place to place in its own request.
LEMMA DevicesGo ==
  ASSUME Control, NEW c \in Callers, Devices(c)
  PROVE  \E P : Goes(c, P)
<1>. USE TypeParts, CallOf
<1>1. FailPlace(c) = "idle"
  BY DEF FailPlace
<1>2. thread[c].pc \in {"device", "attach"} \/ thread[c].pc = "name"
  BY DEF Devices, AllAdded, CreateVif, FindDisk, CreateVbd, NameDevice, At
<1>3. thread[c].call = "add_one"
  BY <1>2 DEF Adding
<1>4. \A P : Leads(c, P) /\ Affects(thread[c].vm)
               /\ P \subseteq {"idle", "device", "attach", "name", "crashed"} => Goes(c, P)
  BY <1>2, <1>3, PlacesAre DEF Goes, Adding
<1>5. CASE AllAdded(c)
  BY <1>4, <1>5, AllAddedDoes
<1>6. CASE CreateVif(c)
  BY <1>1, <1>4, <1>6, CreateVifDoes
<1>7. CASE FindDisk(c)
  BY <1>1, <1>4, <1>7, FindDiskDoes
<1>8. CASE CreateVbd(c)
  BY <1>1, <1>4, <1>8, CreateVbdDoes
<1>9. CASE NameDevice(c)
  BY <1>4, <1>9, NameDeviceDoes
<1>. QED  BY <1>5, <1>6, <1>7, <1>8, <1>9 DEF Devices

\* A caller that destroys a machine goes on destroying it, or has done.
LEMMA DestructionGoes ==
  ASSUME Control, NEW c \in Callers, Destruction(c)
  PROVE  \E P \in SUBSET (Destroying \cup {"idle"}) : Goes(c, P)
<1>. USE TypeParts, CallOf
<1>1. thread[c].pc \in Destroying
  BY DEF Destruction, ListVbds, LookAtDisk, DestroyDisk, DestroyVbd, DestroyVm, At, Destroying
<1>2. thread[c].call \in {"define", "destroy"}
  BY <1>1
<1>3. thread[c].vm \in Vms
  BY <1>1, BusyWith DEF Destroying
<1>4. \A P : Leads(c, P) /\ Affects(thread[c].vm) /\ P \subseteq Destroying \cup {"idle"}
               => Goes(c, P)
  BY <1>1, <1>2, PlacesAre DEF Goes, Destroying
<1>5. CASE ListVbds(c)
  BY <1>2, <1>4, <1>5, ListVbdsDoes DEF Destroying
<1>6. CASE LookAtDisk(c)
  BY <1>4, <1>6, LookAtDiskDoes DEF Destroying
<1>7. CASE DestroyDisk(c)
  BY <1>4, <1>7, DestroyDiskDoes DEF Destroying
<1>8. CASE DestroyVbd(c)
  BY <1>2, <1>3, <1>4, <1>8, DestroyVbdDoes DEF Destroying
<1>9. CASE DestroyVm(c)
  BY <1>3, <1>4, <1>9, DestroyVmDoes
<1>. QED  BY <1>5, <1>6, <1>7, <1>8, <1>9 DEF Destruction

\* So does a caller in the places that the worker never visits.
LEMMA OwnStepsGo ==
  ASSUME Control, NEW c \in Callers,
         ReadCreated(c) \/ SetUp(c) \/ ReadPowerState(c) \/ RemoveVbd(c)
  PROVE  \E P : Goes(c, P)
<1>. USE TypeParts, CallOf
<1>1. CASE ReadCreated(c)
  <2>1. At(c, "created")
    BY <1>1 DEF ReadCreated
  <2>2. Goes(c, {"set_up", "crashed"})
    BY <1>1, <2>1, ReadCreatedDoes, PlacesAre DEF Goes, At
  <2>. QED  BY <2>2
<1>2. CASE SetUp(c)
  <2>1. At(c, "set_up")
    BY <1>2 DEF SetUp
  <2>2. Leads(c, SetUpLeads(c)) /\ Affects(thread[c].vm)
    BY <1>2, <2>1, SetUpDoes DEF At
  <2>3. Goes(c, SetUpLeads(c))
    BY <2>1, <2>2, PlacesAre DEF Goes, At, SetUpLeads, Destroying
  <2>. QED  BY <2>3
<1>3. CASE ReadPowerState(c)
  <2>1. At(c, "power")
    BY <1>3 DEF ReadPowerState
  <2>2. Goes(c, {"list", "idle"})
    BY <1>3, <2>1, ReadPowerStateDoes, BusyWith, PlacesAre DEF Goes, At, Destroying
  <2>. QED  BY <2>2
<1>4. CASE RemoveVbd(c)
  <2>1. At(c, "remove")
    BY <1>4 DEF RemoveVbd
  <2>2. Goes(c, {"remove", "idle"})
    BY <1>4, <2>1, RemoveVbdDoes, BusyWith, PlacesAre DEF Goes, At
  <2>. QED  BY <2>2
<1>. QED  BY <1>1, <1>2, <1>3, <1>4

\* What every step of the control keeps.
Held == Rest' /\ WorldType' /\ thread' \in [Threads -> Locals] /\ JobsType'

\* The variables of the jobs stay in range when nobody writes them.
LEMMA JobsTypeStays ==
  ASSUME JobsType, UNCHANGED <<service, context, faults>>, task' \in [Jobs -> Tasks]
  PROVE  JobsType'
  BY DEF JobsType, service

\* A caller that goes from place to place keeps the control.
LEMMA GoesHolds ==
  ASSUME Control, NEW c \in Callers, \E P : Goes(c, P),
         UNCHANGED <<service, context, touched, task, faults>>
  PROVE  Held
<1>1. PICK P : Goes(c, P)
  OBVIOUS
<1>2. Rest'
  BY <1>1, CallerKeeps DEF Goes
<1>3. JobsType'
  BY TypeParts, JobsTypeStays DEF JobsType
<1>. QED  BY <1>1, <1>2, <1>3 DEF Held, Goes, Leads, Only, Affects

\* A machine that is made was in nobody's hands.
LEMMA CreateMachineHolds ==
  ASSUME Control, NEW c \in Callers, CreateMachine(c)
  PROVE  Held
<1>. DEFINE j == thread[c].job
            v == context[j].vm
<1>1. At(c, "create") /\ UNCHANGED <<service, context, touched, task, faults>>
  BY DEF CreateMachine, history
<1>2. /\ thread[c].call = "define" /\ j \in Jobs /\ v \in Vms /\ task[j] = Absent
      /\ context[j].remove /\ power[v] = "none"
      /\ \A d \in Callers : thread[d].call \in {"define", "add"} /\ thread[d].job = j => d = c
  BY <1>1, CallOf DEF At, Asking
<1>3. /\ Only(c) /\ Affects(v) /\ Sound(thread'[c])
      /\ \/ thread'[c] = Idle
         \/ /\ power'[v] = "Halted"
            /\ thread'[c].pc = "created" /\ thread'[c].call = thread[c].call
            /\ thread'[c].job = thread[c].job /\ thread'[c].vm = v
  BY <1>2, TypeParts, CallOf, CreateMachineDoes
<1>4. Asking(c)'
  <2>1. CASE thread'[c] = Idle
    BY <2>1, DoneAsking
  <2>2. CASE thread'[c] # Idle
    <3>. DEFINE r == thread'[c]
    <3>1. /\ power'[v] = "Halted" /\ r.pc = "created" /\ r.call = "define"
          /\ r.job = j /\ r.vm = v
      BY <1>2, <1>3, <2>2
    <3>2. \A d \in Callers : thread'[d].call \in {"define", "add"} /\ thread'[d].job = j => d = c
      <4>1. \A d \in Callers \ {c} : thread'[d] = thread[d]
        BY <1>3 DEF Only, Threads
      <4>. QED  BY <1>2, <4>1
    <3>3. context'[j] = context[j] /\ task'[j] = task[j]
      BY <1>1
    <3>. QED  BY <1>2, <3>1, <3>2, <3>3, PlacesAre DEF Asking
  <2>. QED  BY <2>1, <2>2
<1>5. \A d \in Callers \ {c} : thread[d].pc = "create" => context[thread[d].job].vm # v
  <2>. SUFFICES ASSUME NEW d \in Callers \ {c}, thread[d].pc = "create",
                       context[thread[d].job].vm = v
                PROVE  FALSE
    OBVIOUS
  <2>1. thread[d].call = "define" /\ thread[d].job \in Jobs
    BY CallOf DEF Asking
  <2>2. thread[d].job # j
    BY <1>2, <2>1
  <2>. QED  BY <1>2, <2>1, <2>2 DEF Control, Contexts
<1>6. \/ thread'[c].call = "none"
      \/ thread'[c].call = thread[c].call /\ thread'[c].job = thread[c].job
  BY <1>3, IdleType
<1>7. Rest'
  BY <1>1, <1>3, <1>4, <1>5, <1>6, CallerRest
<1>8. JobsType'
  BY <1>1, TypeParts, JobsTypeStays DEF JobsType
<1>. QED  BY <1>3, <1>7, <1>8 DEF Held, Only, Affects

\* The job that is submitted is nobody else's.
LEMMA SubmitJobHolds ==
  ASSUME Control, NEW c \in Callers, SubmitJob(c)
  PROVE  Held
<1>. DEFINE j == thread[c].job
<1>. USE TypeParts, CallOf
<1>1. At(c, "submit") /\ UNCHANGED <<context, touched, faults>>
  BY DEF SubmitJob, history
<1>2. /\ thread[c].call \in {"define", "add"} /\ j \in Jobs /\ context[j].vm \in Vms
      /\ \A d \in Callers : thread[d].call \in {"define", "add"} /\ thread[d].job = j => d = c
  BY <1>1 DEF At, Asking
<1>3. /\ Leads(c, {"idle"} \cup IF thread[c].call = "define" THEN {"list"} ELSE {})
      /\ Affects(thread[c].vm)
  BY SubmitJobDoes
<1>4. CASE UNCHANGED <<service, task>>
  <2>1. Goes(c, {"idle"} \cup IF thread[c].call = "define" THEN {"list"} ELSE {})
    BY <1>1, <1>2, <1>3, PlacesAre DEF Goes, At, Destroying
  <2>. QED  BY <1>1, <1>4, <2>1, GoesHolds
<1>5. CASE Service!Accept(j) /\ task' = [task EXCEPT ![j] = NewTask] /\ Move(c, "idle", TRUE)
  <2>1. thread'[c] = Idle /\ Only(c)
    BY <1>5, MoveWent DEF Went, Ready, Places
  <2>2. Asking(c)'
    BY <2>1, DoneAsking
  <2>3. NewTask \in Tasks /\ NewTask # Absent
    <3>1. NewTask \in Recorded
      BY DEF NewTask, Recorded, States
    <3>. QED  BY <3>1, JobTaskAssumption DEF Tasks
  <2>4. task' \in [Jobs -> Tasks] /\ task'[j] # Absent /\ \A k \in Jobs \ {j} : task'[k] = task[k]
    BY <1>2, <1>5, <2>3 DEF JobsType
  <2>5. JobsStay
    BY <1>1 DEF JobsStay
  <2>6. \A d \in Callers \ {c} : Asking(d)'
    <3>1. thread[c].pc # "create"
      BY <1>1 DEF At
    <3>2. \A d \in Callers \ {c} :
            thread[d].pc = "create" => context[thread[d].job].vm # thread[c].vm
      BY <1>1, BusyWith, NoCreator DEF At
    <3>3. \A d \in Callers \ {c} : thread[d].call \in {"define", "add"} =>
             /\ task'[thread[d].job] = Absent
             /\ (c \in Callers /\ thread'[c].call \in {"define", "add"}
                   => thread'[c].job # thread[d].job)
      <4>. SUFFICES ASSUME NEW d \in Callers \ {c}, thread[d].call \in {"define", "add"}
                    PROVE  task'[thread[d].job] = Absent
        BY <2>1, IdleType
      <4>1. thread[d].job \in Jobs \ {j} /\ task[thread[d].job] = Absent
        BY <1>2 DEF Asking
      <4>. QED  BY <2>4, <4>1
    <3>. QED  BY <1>3, <2>1, <2>5, <3>2, <3>3, OthersAsk
  <2>7. Working'
    <3>1. thread'[Worker] = thread[Worker] /\ UNCHANGED current
      BY <1>5, <2>1, WorkerIs DEF Only, Service!Accept
    <3>. QED  BY <1>3, <2>5, <3>1, WorkingStays
  <2>8. Accepted'
    <3>1. /\ pending \in Seq(Jobs) /\ pending' = Append(pending, j)
          /\ current' = current /\ j # current
          /\ \A n \in DOMAIN pending : pending[n] # j
      BY <1>5 DEF Service!Accept, Service!Waiting, Control, Accepted
    <3>2. /\ pending' \in Seq(Jobs)
          /\ \A n \in DOMAIN pending' :
               IF n \in DOMAIN pending THEN pending'[n] = pending[n] /\ pending'[n] \in Jobs
               ELSE n = Len(pending) + 1 /\ pending'[n] = j
      BY <1>2, <3>1
    <3>3. \A n \in DOMAIN pending' : task'[pending'[n]] # Absent /\ pending'[n] # current'
      BY <2>4, <3>1, <3>2 DEF Control, Accepted
    <3>4. \A m, n \in DOMAIN pending' : pending'[m] = pending'[n] => m = n
      BY <3>1, <3>2 DEF Control, Accepted
    <3>5. current' # NoJob => task'[current'] # Absent
      BY <2>4, <3>1 DEF Control, Accepted, JobsType
    <3>6. \A k \in Jobs : task'[k] # Absent => context'[k].vm \in Vms
      BY <1>1, <1>2, <2>4 DEF Control, Accepted
    <3>. QED  BY <3>2, <3>3, <3>4, <3>5, <3>6 DEF Accepted
  <2>9. Steady' /\ Contexts' /\ Unmade'
    BY <1>1, <1>3, <2>1, SteadyStays, ContextsStay, UnmadeStays DEF Leads
  <2>10. JobsType'
    BY <1>1, <1>5, <2>4 DEF JobsType, Service!Accept
  <2>. QED  BY <1>3, <2>1, <2>2, <2>6, <2>7, <2>8, <2>9, <2>10
            DEF Held, Rest, Requesting, Only, Affects
<1>. QED  BY <1>4, <1>5 DEF SubmitJob

\* The steps of a caller that serves its request.
LEMMA ServeHolds ==
  ASSUME Control, NEW c \in Callers, Serve(c)
  PROVE  Held
<1>1. CASE CreateMachine(c) \/ SubmitJob(c)
  BY <1>1, CreateMachineHolds, SubmitJobHolds
<1>2. CASE ReadCreated(c) \/ SetUp(c) \/ ReadPowerState(c) \/ RemoveVbd(c)
  <2>1. UNCHANGED <<service, context, touched, task, faults>>
    BY <1>2 DEF ReadCreated, SetUp, ReadPowerState, RemoveVbd, history
  <2>. QED  BY <1>2, <2>1, OwnStepsGo, GoesHolds
<1>3. CASE Devices(c)
  BY <1>3, CallOf, SharedLeaves, DevicesGo, GoesHolds
<1>4. CASE Destruction(c)
  BY <1>4, CallOf, SharedLeaves, DestructionGoes, GoesHolds
<1>. QED  BY <1>1, <1>2, <1>3, <1>4 DEF Serve

\* A new request.
LEMMA AskedHolds ==
  ASSUME Control, NEW c \in Callers, Only(c), Sound(thread'[c]), Asking(c)',
         UNCHANGED <<service, task, faults, world>>, JobsStay, JobsType', Contexts',
         \A w \in touched' \ touched : power[w] # "none",
         thread'[c].call \in {"define", "add"} =>
           \A d \in Callers \ {c} : thread[d].call \in {"define", "add"}
                                      => thread[d].job # thread'[c].job
  PROVE  Held
<1>1. Affects(NoVm) /\ c \in Threads
  BY TypeParts, NoChange, CallOf DEF Ready
<1>2. \A d \in Callers \ {c} : Asking(d)'
  <2>1. \A d \in Callers \ {c} : thread[d].pc = "create" => context[thread[d].job].vm # NoVm
    BY NoCreator, SystemManagementAssumption DEF At
  <2>2. \A d \in Callers \ {c} : thread[d].call \in {"define", "add"} =>
             /\ task'[thread[d].job] = Absent
             /\ (c \in Callers /\ thread'[c].call \in {"define", "add"}
                   => thread'[c].job # thread[d].job)
    BY CallOf DEF Asking
  <2>. QED  BY <1>1, <2>1, <2>2, OthersAsk
<1>3. Working'
  <2>1. thread'[Worker] = thread[Worker] /\ UNCHANGED current
    BY WorkerIs DEF Only, service
  <2>. QED  BY <1>1, <2>1, WorkingStays
<1>4. \A w \in touched' \ touched : power'[w] # "none"
  BY DEF world
<1>5. Steady' /\ Accepted' /\ Unmade'
  BY <1>1, <1>4, SteadyStays, AcceptedStays, UnmadeStays
<1>. QED  BY <1>1, <1>2, <1>3, <1>5 DEF Held, Rest, Requesting, Only, Affects

\* The job of a request is a new one.
LEMMA NewJob ==
  ASSUME Control, NEW j \in Jobs, context[j] = NoContext
  PROVE  /\ context[j].vm \notin Vms /\ task[j] = Absent
         /\ \A d \in Callers : thread[d].call \in {"define", "add"} => thread[d].job # j
<1>1. context[j].vm \notin Vms
  BY SystemManagementAssumption DEF NoContext
<1>. QED  BY <1>1, CallOf DEF Control, Accepted, Asking

\* A definition begins with a job that is new and a machine that is not there.
LEMMA DefineSystemHolds ==
  ASSUME Control, NEW c \in Callers, NEW j \in Jobs, NEW v \in Vms,
         NEW template \in BOOLEAN, NEW array \in BOOLEAN, NEW devices \in Requests,
         DefineSystem(c, j, v, template, array, devices)
  PROVE  Held
<1>. DEFINE r == thread'[c]
            k == [vm |-> v, devices |-> devices, provision |-> template, remove |-> TRUE]
<1>1. /\ power[v] = "none" /\ \A i \in Jobs : context[i].vm # v
      /\ context' = [context EXCEPT ![j] = k]
      /\ UNCHANGED <<service, task, faults, world, touched>>
  BY DEF DefineSystem, history
<1>2. /\ context[j].vm \notin Vms /\ task[j] = Absent
      /\ \A d \in Callers : thread[d].call \in {"define", "add"} => thread[d].job # j
  BY NewJob DEF DefineSystem
<1>3. Only(c) /\ r.pc = "create" /\ r.call = "define" /\ r.job = j /\ r.vm = NoVm
  BY TypeParts, DefineSystemDoes DEF Ready
<1>4. /\ context' \in [Jobs -> [vm : Vms \cup {NoVm}, devices : Asked,
                                provision : BOOLEAN, remove : BOOLEAN]]
      /\ context'[j] = k /\ \A i \in Jobs \ {j} : context'[i] = context[i]
  <2>1. k \in [vm : Vms \cup {NoVm}, devices : Asked, provision : BOOLEAN, remove : BOOLEAN]
    BY SystemManagementAssumption
  <2>. QED  BY <1>1, <2>1, TypeParts DEF JobsType
<1>5. k.vm = v /\ k.remove
  OBVIOUS
<1>. HIDE DEF k
<1>6. JobsStay
  BY <1>1, <1>2, <1>4 DEF JobsStay
<1>7. JobsType'
  BY <1>1, <1>4, TypeParts DEF JobsType, service
<1>8. Contexts'
  <2>1. \A i \in Jobs \ {j} : context'[i].vm # v
    BY <1>1, <1>4
  <2>2. \A i, l \in Jobs : i # l /\ context'[i].vm = context'[l].vm
                             => context'[i] = context[i] /\ context'[l] = context[l]
    BY <1>4, <1>5, <2>1
  <2>3. power' = power /\ touched' = touched
    BY <1>1 DEF world
  <2>. QED  BY <2>2, <2>3 DEF Control, Contexts
<1>9. Asking(c)'
  <2>1. \A d \in Callers : thread'[d].call \in {"define", "add"} /\ thread'[d].job = r.job => d = c
    BY <1>2, <1>3, CallOf DEF Only, Threads
  <2>2. task'[j] = Absent /\ power'[v] = "none"
    BY <1>1, <1>2 DEF world
  <2>. QED  BY <1>3, <1>4, <1>5, <2>1, <2>2, PlacesAre DEF Asking
<1>10. Sound(r)
  BY <1>3 DEF Sound
<1>. QED  BY <1>1, <1>2, <1>3, <1>6, <1>7, <1>8, <1>9, <1>10, AskedHolds

\* A machine that a request is about is there.
LEMMA AsksDoes ==
  ASSUME NEW c, NEW v, Asks(c, v)
  PROVE  /\ v \in Vms /\ power[v] \in {"Halted", "Running"} /\ touched' = touched \cup {v}
         /\ UNCHANGED <<service, task, faults, world>>
  BY DEF Asks, There

\* A request for devices begins with a job that is new.
LEMMA AddResourceSettingsHolds ==
  ASSUME Control, NEW c \in Callers, NEW j \in Jobs, NEW v \in Vms, NEW devices \in Requests,
         AddResourceSettings(c, j, v, devices)
  PROVE  Held
<1>. DEFINE r == thread'[c]
            k == [vm |-> v, devices |-> devices, provision |-> FALSE, remove |-> FALSE]
<1>1. /\ context' = [context EXCEPT ![j] = k] /\ Asks(c, v)
  BY DEF AddResourceSettings
<1>2. /\ context[j].vm \notin Vms /\ task[j] = Absent
      /\ \A d \in Callers : thread[d].call \in {"define", "add"} => thread[d].job # j
  BY NewJob DEF AddResourceSettings
<1>3. Only(c) /\ r.pc = "set_up" /\ r.call = "add" /\ r.job = j /\ r.vm = v
  BY TypeParts, AddResourceSettingsDoes DEF Ready
<1>4. /\ context' \in [Jobs -> [vm : Vms \cup {NoVm}, devices : Asked,
                                provision : BOOLEAN, remove : BOOLEAN]]
      /\ context'[j] = k /\ \A i \in Jobs \ {j} : context'[i] = context[i]
  <2>1. k \in [vm : Vms \cup {NoVm}, devices : Asked, provision : BOOLEAN, remove : BOOLEAN]
    BY SystemManagementAssumption
  <2>. QED  BY <1>1, <2>1, TypeParts DEF JobsType
<1>5. k.vm = v /\ k.remove = FALSE
  OBVIOUS
<1>. HIDE DEF k
<1>6. JobsStay
  BY <1>1, <1>2, <1>4, AsksDoes DEF JobsStay
<1>7. JobsType'
  BY <1>1, <1>4, TypeParts, AsksDoes DEF JobsType, service
<1>8. Contexts'
  <2>1. \A i, l \in Jobs : (/\ i # l /\ context'[i].vm = context'[l].vm
                            /\ context'[i].vm \in Vms /\ context'[i].vm # v)
                             => context'[i] = context[i] /\ context'[l] = context[l]
    BY <1>4, <1>5
  <2>2. power' = power /\ power[v] # "none" /\ touched' = touched \cup {v}
    BY <1>1, AsksDoes DEF world
  <2>. QED  BY <2>1, <2>2 DEF Control, Contexts
<1>9. Asking(c)'
  <2>1. \A d \in Callers : thread'[d].call \in {"define", "add"} /\ thread'[d].job = r.job => d = c
    BY <1>2, <1>3, CallOf DEF Only, Threads
  <2>2. task'[j] = Absent /\ v \in touched'
    BY <1>1, <1>2, AsksDoes
  <2>. QED  BY <1>3, <1>4, <1>5, <2>1, <2>2, PlacesAre DEF Asking
<1>10. Sound(r)
  BY <1>3 DEF Sound
<1>11. \A w \in touched' \ touched : power[w] # "none"
  BY <1>1, AsksDoes
<1>. QED  BY <1>1, <1>2, <1>3, <1>6, <1>7, <1>8, <1>9, <1>10, <1>11, AsksDoes, AskedHolds

\* A request that starts no job.
LEMMA JoblessHolds ==
  ASSUME Control, NEW c \in Callers, NEW v, Asks(c, v), UNCHANGED context, Only(c),
         thread'[c].vm = v, Sound(thread'[c]),
         thread'[c].call \in {"add_one", "remove", "destroy"},
         thread'[c].pc \in PlacesOf[thread'[c].call]
  PROVE  Held
<1>1. JobsStay
  BY AsksDoes DEF JobsStay
<1>2. JobsType'
  <2>1. task' \in [Jobs -> Tasks] /\ UNCHANGED <<service, context, faults>>
    BY TypeParts, AsksDoes DEF JobsType
  <2>. QED  BY <2>1, TypeParts, JobsTypeStays
<1>3. \A w \in touched' \ touched : power[w] # "none"
  BY AsksDoes
<1>4. Contexts'
  <2>1. Affects(NoVm) /\ touched \subseteq touched'
    BY TypeParts, NoChange, AsksDoes DEF Ready
  <2>. QED  BY <2>1, ContextsStay
<1>5. Asking(c)'
  BY AsksDoes DEF Asking
<1>. QED  BY <1>1, <1>2, <1>3, <1>4, <1>5, AsksDoes, AskedHolds

\* Every request keeps the control.
LEMMA RequestHolds ==
  ASSUME Control, NEW c \in Callers, Request(c)
  PROVE  Held
<1>1. ASSUME NEW j \in Jobs, NEW v \in Vms, NEW template \in BOOLEAN, NEW array \in BOOLEAN,
             NEW devices \in Requests, DefineSystem(c, j, v, template, array, devices)
      PROVE  Held
  BY <1>1, DefineSystemHolds
<1>2. ASSUME NEW j \in Jobs, NEW v \in Vms, NEW devices \in Requests,
             AddResourceSettings(c, j, v, devices)
      PROVE  Held
  BY <1>2, AddResourceSettingsHolds
<1>3. ASSUME NEW v \in Vms, NEW devices \in Requests, Len(devices) = 1,
             AddResourceSetting(c, v, devices[1])
      PROVE  Held
  <2>1. Asks(c, v) /\ UNCHANGED context
    BY <1>3 DEF AddResourceSetting
  <2>2. /\ Only(c) /\ thread'[c].pc = "device" /\ thread'[c].call = "add_one"
        /\ thread'[c].vm = v
    BY <1>3, TypeParts, AddResourceSettingDoes DEF Ready
  <2>3. Sound(thread'[c])
    BY <2>2 DEF Sound
  <2>. QED  BY <2>1, <2>2, <2>3, PlacesAre, JoblessHolds DEF Adding
<1>4. ASSUME NEW v \in Vms, NEW B, RemoveResourceSettings(c, v, B)
      PROVE  Held
  <2>1. Asks(c, v) /\ UNCHANGED context
    BY <1>4 DEF RemoveResourceSettings
  <2>2. /\ Only(c) /\ thread'[c].pc = "set_up" /\ thread'[c].call = "remove"
        /\ thread'[c].vm = v /\ \A b \in thread'[c].left : b[1] = v
    BY <1>4, TypeParts, RemoveResourceSettingsDoes DEF Ready, Order, WorldType
  <2>3. Sound(thread'[c])
    BY <2>2 DEF Sound
  <2>. QED  BY <2>1, <2>2, <2>3, PlacesAre, JoblessHolds
<1>5. ASSUME NEW v \in Vms, DestroySystem(c, v)
      PROVE  Held
  <2>1. Asks(c, v) /\ UNCHANGED context
    BY <1>5 DEF DestroySystem
  <2>2. /\ Only(c) /\ thread'[c].pc = "power" /\ thread'[c].call = "destroy"
        /\ thread'[c].vm = v
    BY <1>5, TypeParts, DestroySystemDoes DEF Ready
  <2>3. Sound(thread'[c])
    BY <2>2 DEF Sound
  <2>. QED  BY <2>1, <2>2, <2>3, PlacesAre, JoblessHolds
<1>. QED  BY <1>1, <1>2, <1>3, <1>4, <1>5 DEF Request

-----------------------------------------------------------------------------
(* The steps of the worker                                                 *)

\* The job that the worker serves, and its machine.
LEMMA WorkerAt ==
  ASSUME Control
  PROVE  /\ thread[Worker] \in Locals /\ Worker \in Threads /\ Working
         /\ thread[Worker].call = "none"
         /\ thread[Worker].pc # "idle" => current \in Jobs /\ task[current] # Absent
         /\ thread[Worker].pc \in {"provision", "modify"} \cup Adding \cup Destroying =>
              thread[Worker].vm \in Vms /\ thread[Worker].vm # NoVm
<1>1. thread[Worker] \in Locals /\ Working
  BY TypeParts, WorkerIs DEF Ready, Control
<1>2. thread[Worker].pc # "idle" => current \in Jobs /\ task[current] # Absent
  BY <1>1, TypeParts DEF JobsType, Working, Control, Accepted
<1>. QED  BY <1>1, <1>2, WorkerIs, WorkerWith DEF Working

\* The worker goes on with its job.
WorkerGoes(P) ==
    /\ Leads(Worker, P) /\ Affects(thread[Worker].vm)
    /\ thread[Worker].pc # "idle" /\ P \subseteq WorkerPlaces \ {"idle"}
    /\ \/ thread[Worker].vm # NoVm
       \/ P \subseteq {"announce", "find", "report", "free", "crashed"}

\* A step that is not a caller's.
LEMMA WorkerRest ==
  ASSUME Control, NEW v, Only(Worker), Affects(v), Sound(thread'[Worker]), Working', Accepted',
         v \in Vms => power[v] # "none", UNCHANGED context,
         touched \subseteq touched', \A w \in touched' \ touched : power'[w] # "none",
         \A j \in Jobs : task[j] = Absent => task'[j] = Absent
  PROVE  Rest'
<1>1. \A d \in Callers \ {Worker} : thread[d].pc = "create" => context[thread[d].job].vm # v
  BY NoCreator DEF At
<1>2. \A d \in Callers \ {Worker} : thread[d].call \in {"define", "add"} =>
           /\ task'[thread[d].job] = Absent
           /\ (Worker \in Callers /\ thread'[Worker].call \in {"define", "add"}
                 => thread'[Worker].job # thread[d].job)
  BY WorkerIs, CallOf DEF Asking
<1>3. JobsStay
  BY DEF JobsStay
<1>4. \A d \in Callers \ {Worker} : Asking(d)'
  BY <1>1, <1>2, <1>3, WorkerIs, OthersAsk
<1>5. Requesting'
  BY <1>4, WorkerIs DEF Requesting
<1>6. Steady' /\ Contexts' /\ Unmade'
  BY WorkerIs, SteadyStays, ContextsStay, UnmadeStays
<1>. QED  BY <1>5, <1>6 DEF Rest

\* The worker that goes from place to place keeps the control.
LEMMA WorkerHolds ==
  ASSUME Control, \E P : WorkerGoes(P), UNCHANGED <<service, context, touched, faults>>,
         task' \in [Jobs -> Tasks], \A j \in Jobs : task'[j] = Absent <=> task[j] = Absent
  PROVE  Held
<1>1. PICK P : WorkerGoes(P)
  OBVIOUS
<1>. DEFINE q == thread[Worker]
            r == thread'[Worker]
<1>2. r.pc \in P /\ r.pc # "idle" /\ Keeps(q, r) /\ Only(Worker) /\ Sound(r)
  BY <1>1 DEF WorkerGoes, Leads
<1>3. Affects(q.vm) /\ (q.vm \in Vms => power[q.vm] # "none")
  BY <1>1, WorkerWith, SystemManagementAssumption DEF WorkerGoes
<1>4. Working'
  <2>1. Working /\ current' = current /\ current # NoJob /\ context' = context
    BY <1>1, WorkerAt DEF WorkerGoes, Working, service
  <2>2. r.call = "none" /\ r.pc \in WorkerPlaces
    BY <1>1, <1>2, WorkerAt DEF WorkerGoes, Keeps
  <2>3. r.pc # "idle" /\ current' # NoJob
    BY <1>2, <2>1
  <2>4. r.vm \in {NoVm} \cup {context'[j].vm : j \in {current'} \ {NoJob}}
    BY <1>2, <2>1 DEF Keeps, Working
  <2>5. r.vm # NoVm => power'[r.vm] # "none"
    BY <1>2, <1>3, WorkerWith DEF Keeps, Affects, Grown
  <2>6. r.pc \in {"provision", "modify"} \cup Adding \cup Destroying => r.vm # NoVm
    BY <1>1, <1>2 DEF WorkerGoes, Keeps, Adding, Destroying
  <2>. QED  BY <2>2, <2>3, <2>4, <2>5, <2>6 DEF Working
<1>5. Accepted'
  BY AcceptedStays DEF JobsStay
<1>6. Rest'
  BY <1>2, <1>3, <1>4, <1>5, WorkerRest
<1>7. JobsType'
  BY TypeParts, JobsTypeStays
<1>. QED  BY <1>2, <1>3, <1>6, <1>7 DEF Held, Only, Affects

\* The places of the worker are places.
LEMMA WorkerPlacesAre ==
  /\ Adding \cup Destroying \subseteq WorkerPlaces \ {"idle"}
  /\ {"announce", "find", "provision", "modify", "report", "free", "crashed"}
       \subseteq WorkerPlaces \ {"idle"}
  /\ FailPlace(Worker) \in WorkerPlaces \ {"idle", "announce"}
  /\ "announce" \notin Adding \cup Destroying
  BY DEF WorkerPlaces, Adding, Destroying, FailPlace

\* The devices and the destruction, after the announcement.
LEMMA WorkerShares ==
  ASSUME Control, Devices(Worker) \/ Destruction(Worker)
  PROVE  \E P : WorkerGoes(P) /\ "announce" \notin P
<1>. DEFINE t == Worker
<1>. USE TypeParts, WorkerAt
<1>1. thread[t].pc \in Adding \cup Destroying
  <2>1. CASE Devices(t)
    BY <2>1 DEF Devices, AllAdded, CreateVif, FindDisk, CreateVbd, NameDevice, At, Adding
  <2>2. CASE Destruction(t)
    BY <2>2 DEF Destruction, ListVbds, LookAtDisk, DestroyDisk, DestroyVbd, DestroyVm, At,
                Destroying
  <2>. QED  BY <2>1, <2>2
<1>2. thread[t].vm \in Vms /\ thread[t].vm # NoVm /\ thread[t].pc # "idle"
  BY <1>1 DEF Adding, Destroying
<1>3. \A P : Leads(t, P) /\ Affects(thread[t].vm) /\ P \subseteq WorkerPlaces \ {"idle"}
                 /\ "announce" \notin P
               => WorkerGoes(P) /\ "announce" \notin P
  BY <1>2 DEF WorkerGoes
<1>. USE WorkerPlacesAre
<1>4. CASE AllAdded(t) \/ CreateVif(t) \/ FindDisk(t)
  BY <1>3, <1>4, AllAddedDoes, CreateVifDoes, FindDiskDoes DEF Adding
<1>5. CASE CreateVbd(t) \/ NameDevice(t)
  BY <1>3, <1>5, CreateVbdDoes, NameDeviceDoes DEF Adding
<1>6. CASE ListVbds(t) \/ LookAtDisk(t)
  BY <1>3, <1>6, ListVbdsDoes, LookAtDiskDoes DEF Destroying
<1>7. CASE DestroyDisk(t) \/ DestroyVbd(t) \/ DestroyVm(t)
  BY <1>2, <1>3, <1>7, DestroyDiskDoes, DestroyVbdDoes, DestroyVmDoes DEF Destroying
<1>. QED  BY <1>4, <1>5, <1>6, <1>7 DEF Devices, Destruction

\* The first job that waits is taken.
LEMMA TakeJobHolds ==
  ASSUME Control, TakeJob
  PROVE  Held
<1>. USE TypeParts
<1>. DEFINE r == thread'[Worker]
<1>1. UNCHANGED <<task, faults, context, world, touched>>
  BY DEF TakeJob, history
<1>2. Affects(NoVm)
  BY <1>1, NoChange DEF Ready
<1>3. /\ Only(Worker) /\ Sound(r) /\ r.pc \in {"announce", "free"}
      /\ r.call = "none" /\ r.vm = NoVm
      /\ current' \in Jobs /\ pending # <<>> /\ current' = Head(pending)
      /\ pending' = Tail(pending) /\ served' = served
  BY TakeJobDoes DEF Control
<1>4. Working'
  BY <1>3, WorkerPlacesAre, SystemManagementAssumption DEF Working, Adding, Destroying
<1>5. Accepted'
  <2>1. /\ pending \in Seq(Jobs) /\ pending' \in Seq(Jobs) /\ 1 \in DOMAIN pending
        /\ current' = pending[1]
        /\ \A n \in DOMAIN pending' : n + 1 \in DOMAIN pending /\ pending'[n] = pending[n + 1]
                                      /\ n \in Nat /\ n # 0
    BY <1>3 DEF Control, Accepted
  <2>2. \A n \in DOMAIN pending' : task'[pending'[n]] # Absent /\ pending'[n] # current'
    BY <1>1, <2>1 DEF Control, Accepted
  <2>3. \A m, n \in DOMAIN pending' : pending'[m] = pending'[n] => m = n
    <3>. SUFFICES ASSUME NEW m \in DOMAIN pending', NEW n \in DOMAIN pending',
                         pending'[m] = pending'[n]
                  PROVE  m = n
      OBVIOUS
    <3>1. m + 1 = n + 1
      BY <2>1 DEF Control, Accepted
    <3>. QED  BY <2>1, <3>1
  <2>4. task'[current'] # Absent
    BY <1>1, <2>1 DEF Control, Accepted
  <2>5. \A j \in Jobs : task'[j] # Absent => context'[j].vm \in Vms
    BY <1>1 DEF Control, Accepted
  <2>. QED  BY <2>1, <2>2, <2>3, <2>4, <2>5 DEF Accepted
<1>6. Rest'
  BY <1>1, <1>2, <1>3, <1>4, <1>5, WorkerRest, SystemManagementAssumption
<1>7. JobsType'
  BY <1>1, <1>3 DEF JobsType
<1>. QED  BY <1>2, <1>3, <1>6, <1>7 DEF Held, Only, Affects

\* The machine of the job is found, or not.
LEMMA FindMachineHolds ==
  ASSUME Control, FindMachine
  PROVE  Held
<1>. USE TypeParts, WorkerAt
<1>. DEFINE r == thread'[Worker]
            v == context[current].vm
<1>1. At(Worker, "find") /\ UNCHANGED <<service, task, faults, context, world, touched>>
  BY DEF FindMachine, history
<1>2. Affects(thread[Worker].vm) /\ Affects(v)
  BY <1>1, NoChange DEF Ready
<1>3. current \in Jobs /\ current # NoJob
  BY <1>1, SystemManagementAssumption DEF At
<1>4. \/ Leads(Worker, {"report"})
      \/ /\ Only(Worker) /\ Sound(r) /\ There(v) /\ r.vm = v /\ r.call = "none"
         /\ r.pc = IF context[current].provision THEN "provision" ELSE "device"
  BY <1>3, FindMachineDoes
<1>5. CASE Leads(Worker, {"report"})
  <2>1. WorkerGoes({"report"})
    BY <1>1, <1>2, <1>5, WorkerPlacesAre DEF WorkerGoes, At
  <2>. QED  BY <1>1, <2>1, WorkerHolds DEF JobsType
<1>6. CASE /\ Only(Worker) /\ Sound(r) /\ There(v) /\ r.vm = v /\ r.call = "none"
           /\ r.pc = IF context[current].provision THEN "provision" ELSE "device"
  <2>1. v \in Vms /\ power[v] # "none"
    BY <1>6 DEF There
  <2>2. Working'
    <3>1. r.pc \in WorkerPlaces \ {"idle"}
      BY <1>6, WorkerPlacesAre DEF Adding
    <3>2. current' = current /\ context' = context /\ power' = power
      BY <1>1 DEF service, world
    <3>3. r.vm # NoVm
      BY <1>6, <2>1, SystemManagementAssumption
    <3>. QED  BY <1>3, <1>6, <2>1, <3>1, <3>2, <3>3 DEF Working
  <2>3. Accepted'
    BY <1>1, AcceptedStays DEF JobsStay
  <2>4. Rest'
    BY <1>1, <1>2, <1>6, <2>1, <2>2, <2>3, WorkerRest
  <2>5. JobsType'
    BY <1>1, JobsTypeStays DEF JobsType
  <2>. QED  BY <1>2, <1>6, <2>4, <2>5 DEF Held, Only, Affects
<1>. QED  BY <1>4, <1>5, <1>6

\* The job is over.
LEMMA FreeJobHolds ==
  ASSUME Control, FreeJob
  PROVE  Held
<1>. USE TypeParts, WorkerAt
<1>1. At(Worker, "free") /\ UNCHANGED <<task, faults, context, world, touched>>
  BY DEF FreeJob, history
<1>2. Affects(NoVm)
  BY <1>1, NoChange DEF Ready
<1>3. Only(Worker) /\ thread'[Worker] = Idle
  BY FreeJobDoes
<1>4. /\ current \in Jobs /\ current' = NoJob /\ pending' = pending
      /\ served' = served \cup {current}
  BY <1>1 DEF FreeJob, Service!Finish, At
<1>5. Sound(thread'[Worker])
  BY <1>3, IdleType DEF Sound
<1>6. Working'
  BY <1>3, <1>4, IdleType DEF Working, WorkerPlaces, Adding, Destroying
<1>7. Accepted'
  <2>1. \A n \in DOMAIN pending : pending[n] \in Jobs /\ pending[n] # NoJob
    BY SystemManagementAssumption DEF Control, Accepted
  <2>. QED  BY <1>1, <1>4, <2>1 DEF Control, Accepted
<1>8. Rest'
  BY <1>1, <1>2, <1>3, <1>5, <1>6, <1>7, WorkerRest, SystemManagementAssumption
<1>9. JobsType'
  BY <1>1, <1>4 DEF JobsType
<1>. QED  BY <1>2, <1>3, <1>8, <1>9 DEF Held, Only, Affects

\* Every step of the worker keeps the control.
LEMMA WorkHolds ==
  ASSUME Control, Work
  PROVE  Held
<1>. USE TypeParts, WorkerAt, WorkerPlacesAre
<1>. DEFINE w == thread[Worker]
<1>1. CASE Announce
  <2>1. At(Worker, "announce") /\ UNCHANGED <<service, faults, context, world, touched>>
    BY <1>1 DEF Announce, history
  <2>2. /\ Leads(Worker, {"find"}) /\ task' \in [Jobs -> Tasks] /\ current \in Jobs
        /\ task[current] # Absent /\ task'[current] # Absent
        /\ \A j \in Jobs \ {current} : task'[j] = task[j]
    BY <1>1, <2>1, AnnounceDoes DEF At, Control
  <2>3. WorkerGoes({"find"})
    BY <2>1, <2>2, NoChange DEF WorkerGoes, At, Ready
  <2>. QED  BY <2>1, <2>2, <2>3, WorkerHolds
<1>2. CASE ProvisionDisks
  <2>1. At(Worker, "provision") /\ UNCHANGED <<service, faults, context, task, touched>>
    BY <1>2 DEF ProvisionDisks
  <2>2. WorkerGoes({"modify", "list", "report"})
    BY <1>2, <2>1, ProvisionDisksDoes DEF WorkerGoes, At, Destroying
  <2>. QED  BY <2>1, <2>2, WorkerHolds DEF JobsType
<1>3. CASE ModifyResources
  <2>1. At(Worker, "modify") /\ UNCHANGED <<service, faults, context, task, touched, world>>
    BY <1>3 DEF ModifyResources, history
  <2>2. WorkerGoes({"device"})
    BY <1>3, <2>1, ModifyResourcesDoes, NoChange DEF WorkerGoes, At, Adding, Ready
  <2>. QED  BY <2>1, <2>2, WorkerHolds DEF JobsType
<1>4. CASE Report
  <2>1. At(Worker, "report") /\ UNCHANGED <<service, faults, context, world, touched>>
    BY <1>4 DEF Report, history
  <2>2. /\ Leads(Worker, {"free", "crashed"}) /\ task' \in [Jobs -> Tasks] /\ current \in Jobs
        /\ task[current] # Absent /\ task'[current] # Absent
        /\ \A j \in Jobs \ {current} : task'[j] = task[j]
    BY <1>4, <2>1, ReportDoes DEF At, Control
  <2>3. WorkerGoes({"free", "crashed"})
    BY <2>1, <2>2, NoChange DEF WorkerGoes, At, Ready
  <2>. QED  BY <2>1, <2>2, <2>3, WorkerHolds
<1>5. CASE Devices(Worker) \/ Destruction(Worker)
  BY <1>5, WorkerShares, SharedLeaves, WorkerHolds DEF JobsType
<1>6. CASE TakeJob \/ FindMachine \/ FreeJob
  BY <1>6, TakeJobHolds, FindMachineHolds, FreeJobHolds
<1>. QED  BY <1>1, <1>2, <1>3, <1>4, <1>5, <1>6 DEF Work

-----------------------------------------------------------------------------
(* Other clients, the history, and the whole                               *)

\* A halted machine is started.
LEMMA PowerOn ==
  ASSUME Order, NEW v \in Vms, power' = [power EXCEPT ![v] = "Running"],
         plugged' = plugged \cup VbdsOf(v), UNCHANGED <<disk, vbds, vifs>>
  PROVE  Affects(v)
<1>1. WorldType'
  BY DEF Order, WorldType, VbdsOf
<1>2. power' \in [Vms -> {"none", "Halted", "Running", "gone"}] /\ power'[v] = "Running"
      /\ \A w \in Vms \ {v} : power'[w] = power[w]
  BY DEF Order, WorldType
<1>3. \A w : VbdsOf(w)' = VbdsOf(w)
  BY DEF VbdsOf
<1>. QED  BY <1>1, <1>2, <1>3 DEF Affects, Grown, Spares

\* What another client does to a machine that is there.
LEMMA OtherHolds ==
  ASSUME Control, NEW v, Affects(v), v \in Vms => power[v] # "none",
         UNCHANGED <<service, context, faults, thread>>,
         touched \subseteq touched', \A w \in touched' \ touched : power'[w] # "none",
         task' \in [Jobs -> Tasks], \A j \in Jobs : task'[j] = Absent <=> task[j] = Absent
  PROVE  Held
<1>1. Only(Worker) /\ Sound(thread'[Worker])
  BY TypeParts, WorkerIs DEF Only, Ready, Steady
<1>2. Working'
  BY WorkingStays DEF JobsStay, service
<1>3. Accepted'
  BY AcceptedStays DEF JobsStay
<1>4. Rest'
  BY <1>1, <1>2, <1>3, WorkerRest
<1>5. JobsType'
  BY TypeParts, JobsTypeStays
<1>. QED  BY <1>1, <1>4, <1>5 DEF Held, Only, Affects

\* Every step of the other clients keeps the control.
LEMMA OthersHold ==
  ASSUME Control, Others
  PROVE  Held
<1>. USE TypeParts
<1>1. ASSUME NEW j \in Jobs, KillJob(j)
      PROVE  Held
  <2>1. /\ UNCHANGED <<service, context, faults, thread, world, touched>>
        /\ task[j] \in Recorded /\ task' = [task EXCEPT ![j] = Gone]
    BY <1>1 DEF KillJob, Destroy, history
  <2>2. task[j] # Absent /\ Gone # Absent /\ Gone \in Tasks
    BY <2>1, JobTaskAssumption DEF Tasks
  <2>3. task' \in [Jobs -> Tasks] /\ \A i \in Jobs : task'[i] = Absent <=> task[i] = Absent
    BY <2>1, <2>2 DEF JobsType
  <2>4. Affects(NoVm)
    BY <2>1, NoChange DEF Ready
  <2>. QED  BY <2>1, <2>3, <2>4, OtherHolds, SystemManagementAssumption
<1>2. ASSUME NEW v \in Vms, StartVm(v)
      PROVE  Held
  <2>1. /\ UNCHANGED <<service, task, context, faults, thread>> /\ power[v] = "Halted"
        /\ touched' = touched \cup {v}
    BY <1>2 DEF StartVm
  <2>2. Affects(v)
    BY <1>2, PowerOn DEF StartVm, Ready
  <2>3. power'[v] # "none"
    BY <2>1, <2>2 DEF Affects, Grown
  <2>. QED  BY <2>1, <2>2, <2>3, OtherHolds DEF JobsType
<1>3. ASSUME NEW v \in Vms, StopVm(v)
      PROVE  Held
  <2>1. UNCHANGED <<service, task, context, faults, thread, touched>> /\ power[v] = "Running"
    BY <1>3 DEF StopVm, history
  <2>2. Affects(v)
    BY <1>3, PowerOff DEF StopVm, Ready
  <2>. QED  BY <2>1, <2>2, OtherHolds DEF JobsType
<1>4. ASSUME NEW v \in Vms, NEW d \in Disks, Attach(v, d)
      PROVE  Held
  <2>1. /\ UNCHANGED <<service, task, context, faults, thread>> /\ power[v] = "Halted"
        /\ touched' = touched \cup {v} /\ power' = power
    BY <1>4 DEF Attach
  <2>2. Affects(v)
    <3>1. There(v) /\ disk' \in [Disks -> {"none", "there", "gone"}]
      BY <1>4, <2>1 DEF There, Attach, Ready, Order, WorldType
    <3>. QED  BY <1>4, <3>1, PlugChange DEF Attach, Plug, Ready
  <2>. QED  BY <2>1, <2>2, OtherHolds DEF JobsType
<1>. QED  BY <1>1, <1>2, <1>3, <1>4 DEF Others

\* The ranges of the history.
Past ==
    /\ touched \subseteq Vms /\ disturbed \subseteq Vms
    /\ owned \in [Vms -> SUBSET Disks] /\ lost \subseteq Vbds

\* A new VBD leaves the history in range.
LEMMA PlugPast ==
  ASSUME Ready, Past, NEW v \in Vms, NEW d, Plug(v, d), UNCHANGED <<owned, lost>>,
         touched' \subseteq Vms
  PROVE  Past'
<1>1. \A u \in UsersOf(d) : u[1] \in Vms
  BY DEF UsersOf, Ready, Order, WorldType, Vbds
<1>. QED  BY <1>1 DEF Plug, Past

\* So does all that callers and the worker have in common.
LEMMA SharedPast ==
  ASSUME Ready, Past, NEW t \in Threads, Devices(t) \/ Destruction(t)
  PROVE  Past'
<1>1. CASE UNCHANGED history
  BY <1>1 DEF history, Past
<1>2. CASE CreateVbd(t) /\ ~UNCHANGED history
  <2>1. There(thread[t].vm) /\ Plug(thread[t].vm, thread[t].vdi)
    BY <1>2 DEF CreateVbd, CanPlug, history
  <2>2. thread[t].vm \in Vms /\ UNCHANGED <<owned, lost, touched>>
    BY <1>2, <2>1 DEF CreateVbd, There
  <2>. QED  BY <2>1, <2>2, PlugPast DEF Past
<1>3. CASE ListVbds(t) /\ ~UNCHANGED history
  <2>. DEFINE v == thread[t].vm
  <2>1. /\ v \in Vms /\ UNCHANGED <<touched, lost>> /\ owned' = [owned EXCEPT ![v] = Owned(v)]
        /\ disturbed' \in {disturbed \ {v}, disturbed \cup {v}}
    BY <1>3 DEF ListVbds, There, history
  <2>2. Owned(v) \in SUBSET Disks
    BY DEF Owned
  <2>. QED  BY <2>1, <2>2 DEF Past
<1>4. CASE DestroyDisk(t) /\ ~UNCHANGED history
  <2>1. /\ UNCHANGED <<touched, disturbed, owned>>
        /\ lost' = lost \cup {b \in thread[t].seen \cap vbds : b[1] # thread[t].vm}
    BY <1>4 DEF DestroyDisk, history
  <2>. QED  BY <2>1 DEF Past, Ready, Order, WorldType
<1>5. \/ UNCHANGED history \/ CreateVbd(t) \/ ListVbds(t) \/ DestroyDisk(t)
  BY DEF Devices, Destruction, AllAdded, CreateVif, FindDisk, NameDevice, LookAtDisk,
         DestroyVbd, DestroyVm
<1>. QED  BY <1>1, <1>2, <1>3, <1>4, <1>5

\* So does what else callers do.
LEMMA ServePast ==
  ASSUME Control, Past, NEW c \in Callers, Serve(c)
  PROVE  Past'
<1>1. CASE CreateMachine(c) \/ ReadCreated(c) \/ SetUp(c) \/ SubmitJob(c) \/ ReadPowerState(c)
  <2>1. UNCHANGED history
    BY <1>1 DEF CreateMachine, ReadCreated, SetUp, SubmitJob, ReadPowerState
  <2>. QED  BY <2>1 DEF history, Past
<1>2. CASE RemoveVbd(c)
  <2>1. /\ disturbed' = disturbed \cup {thread[c].vm} /\ At(c, "remove")
        /\ UNCHANGED <<touched, owned, lost>>
    BY <1>2 DEF RemoveVbd
  <2>2. thread[c].vm \in Vms
    BY <2>1, BusyWith DEF At
  <2>. QED  BY <2>1, <2>2 DEF Past
<1>3. CASE Devices(c) \/ Destruction(c)
  BY <1>3, TypeParts, CallOf, SharedPast
<1>. QED  BY <1>1, <1>2, <1>3 DEF Serve

\* So does what else the worker does.
LEMMA WorkPast ==
  ASSUME Control, Past, Work
  PROVE  Past'
<1>1. CASE TakeJob \/ Announce \/ FindMachine \/ ModifyResources \/ Report \/ FreeJob
  <2>1. UNCHANGED history
    BY <1>1 DEF TakeJob, Announce, FindMachine, ModifyResources, Report, FreeJob
  <2>. QED  BY <2>1 DEF history, Past
<1>2. CASE ProvisionDisks
  <2>1. UNCHANGED <<touched, owned, lost>>
    BY <1>2 DEF ProvisionDisks
  <2>2. \/ UNCHANGED disturbed
        \/ There(thread[Worker].vm) /\ Plug(thread[Worker].vm, Lowest(Unused))
    BY <1>2 DEF ProvisionDisks
  <2>. QED  BY <2>1, <2>2, TypeParts, PlugPast DEF Past, There
<1>3. CASE Devices(Worker) \/ Destruction(Worker)
  BY <1>3, TypeParts, WorkerIs, SharedPast
<1>. QED  BY <1>1, <1>2, <1>3 DEF Work

\* So does every request.
LEMMA RequestPast ==
  ASSUME Past, NEW c \in Callers, Request(c)
  PROVE  Past'
<1>1. UNCHANGED <<disturbed, owned, lost>>
  BY DEF Request, DefineSystem, AddResourceSettings, AddResourceSetting,
         RemoveResourceSettings, DestroySystem, Asks, history
<1>2. touched' = touched \/ \E v \in Vms : touched' = touched \cup {v}
  BY DEF Request, DefineSystem, AddResourceSettings, AddResourceSetting,
         RemoveResourceSettings, DestroySystem, Asks, history
<1>. QED  BY <1>1, <1>2 DEF Past

\* So do the other clients.
LEMMA OthersPast ==
  ASSUME Ready, Past, Others
  PROVE  Past'
<1>1. ASSUME NEW j \in Jobs, KillJob(j)
      PROVE  Past'
  BY <1>1 DEF KillJob, Past, history
<1>2. ASSUME NEW v \in Vms, StartVm(v)
      PROVE  Past'
  BY <1>2 DEF StartVm, Past
<1>3. ASSUME NEW v \in Vms, StopVm(v)
      PROVE  Past'
  BY <1>3 DEF StopVm, Past, history
<1>4. ASSUME NEW v \in Vms, NEW d \in Disks, Attach(v, d)
      PROVE  Past'
  BY <1>4, PlugPast DEF Attach, Past
<1>. QED  BY <1>1, <1>2, <1>3, <1>4 DEF Others

\* Whether calls may fail does not change.
LEMMA FaultsStay ==
  ASSUME Next
  PROVE  faults' = faults
<1>1. ASSUME NEW c \in Callers, Serve(c)
      PROVE  faults' = faults
  <2>1. CASE CreateMachine(c) \/ ReadCreated(c) \/ SetUp(c) \/ SubmitJob(c)
    BY <2>1 DEF CreateMachine, ReadCreated, SetUp, SubmitJob
  <2>2. CASE ReadPowerState(c) \/ RemoveVbd(c)
    BY <2>2 DEF ReadPowerState, RemoveVbd
  <2>3. CASE Devices(c) \/ Destruction(c)
    BY <2>3, SharedLeaves DEF Threads
  <2>. QED  BY <1>1, <2>1, <2>2, <2>3 DEF Serve
<1>2. CASE Work
  <2>1. CASE TakeJob \/ Announce \/ FindMachine \/ ProvisionDisks
    BY <2>1 DEF TakeJob, Announce, FindMachine, ProvisionDisks
  <2>2. CASE ModifyResources \/ Report \/ FreeJob
    BY <2>2 DEF ModifyResources, Report, FreeJob
  <2>3. CASE Devices(Worker) \/ Destruction(Worker)
    BY <2>3, SharedLeaves, WorkerIs
  <2>. QED  BY <1>2, <2>1, <2>2, <2>3 DEF Work
<1>3. ASSUME NEW c \in Callers, Request(c)
      PROVE  faults' = faults
  BY <1>3 DEF Request, DefineSystem, AddResourceSettings, AddResourceSetting,
              RemoveResourceSettings, DestroySystem, Asks
<1>4. CASE Others
  BY <1>4 DEF Others, KillJob, StartVm, StopVm, Attach
<1>. QED  BY <1>1, <1>2, <1>3, <1>4 DEF Next

\* Nobody asks for anything, and nothing waits, at first.
LEMMA InitControl == Init => Control
<1>. SUFFICES ASSUME Init PROVE Control
  OBVIOUS
<1>. USE SystemManagementAssumption
<1>1. thread = [t \in Threads |-> Idle] /\ thread \in [Threads -> Locals]
  BY IdleType DEF Init
<1>2. pending = <<>> /\ current = NoJob /\ served = {}
  BY DEF Init, Service!Init
<1>3. context = [j \in Jobs |-> NoContext] /\ NoContext.vm = NoVm
      /\ NoContext \in [vm : Vms \cup {NoVm}, devices : Asked,
                        provision : BOOLEAN, remove : BOOLEAN]
  BY DEF Init, NoContext, Asked
<1>4. WorldType
  <2>1. power \in [Vms -> {"none", "Halted", "Running", "gone"}]
    BY DEF Init
  <2>2. disk \in [Disks -> {"none", "there", "gone"}] /\ plugged = {}
    BY DEF Init
  <2>3. vbds \subseteq Vbds /\ \A a, b \in vbds : a[1] = b[1] /\ a[2] = b[2] => a = b
    BY DEF Init, Vbds
  <2>4. vifs \in [Vms -> 0..MaxVifs]
    BY DEF Init
  <2>. QED  BY <2>1, <2>2, <2>3, <2>4 DEF WorldType
<1>5. JobsType
  BY <1>2, <1>3 DEF Init, JobsType, Tasks
<1>6. HistoryType
  BY DEF Init, HistoryType
<1>7. TypeOK
  BY <1>1, <1>2, <1>4, <1>5, <1>6
     DEF TypeOK, Locals, WorldType, JobsType, HistoryType, Service!Waiting
<1>8. Requesting
  BY <1>1, IdleType, PlacesAre DEF Requesting, Asking, Threads
<1>9. Working
  BY <1>1, <1>2, IdleType, WorkerIs DEF Working, WorkerPlaces, Adding, Destroying
<1>10. Steady
  BY <1>1, IdleType DEF Steady, Sound
<1>11. Accepted
  BY <1>2 DEF Accepted, Init
<1>12. Contexts
  BY <1>3 DEF Contexts
<1>13. Unmade
  <2>1. \A v \in Vms : power[v] = "none" => v \notin Existing
    BY DEF Init
  <2>. QED  BY <2>1 DEF Init, Unmade, VbdsOf
<1>. QED  BY <1>7, <1>8, <1>9, <1>10, <1>11, <1>12, <1>13 DEF Control

\* Every step keeps the control of the threads.
LEMMA NextControl == Control /\ [Next]_vars => Control'
<1>. SUFFICES ASSUME Control, [Next]_vars PROVE Control'
  OBVIOUS
<1>1. CASE UNCHANGED vars
  BY <1>1 DEF vars, service, world, history, bounds, Control, TypeOK, Service!Waiting,
              Requesting, Asking, Working, Steady, Sound, Accepted, Contexts, Unmade, VbdsOf
<1>2. CASE Next
  <2>1. Past
    BY TypeParts DEF HistoryType, Past
  <2>2. Held /\ Past'
    <3>1. ASSUME NEW c \in Callers, Serve(c)
          PROVE  Held /\ Past'
      BY <2>1, <3>1, ServeHolds, ServePast
    <3>2. CASE Work
      BY <2>1, <3>2, WorkHolds, WorkPast
    <3>3. ASSUME NEW c \in Callers, Request(c)
          PROVE  Held /\ Past'
      BY <2>1, <3>3, RequestHolds, RequestPast
    <3>4. CASE Others
      BY <2>1, <3>4, TypeParts, OthersHold, OthersPast
    <3>. QED  BY <1>2, <3>1, <3>2, <3>3, <3>4 DEF Next
  <2>3. requests' \in 0..MaxRequests /\ events' \in 0..MaxEvents[faults']
    <3>1. /\ requests \in 0..MaxRequests /\ events \in 0..MaxEvents[faults]
          /\ MaxRequests \in Nat /\ MaxEvents[faults] \in Nat
      BY TypeParts, SystemManagementAssumption DEF HistoryType, JobsType
    <3>2. faults' = faults
      BY <1>2, FaultsStay
    <3>3. \/ requests' = requests /\ events' = events
          \/ requests < MaxRequests /\ requests' = requests + 1 /\ events' = events
          \/ events < MaxEvents[faults] /\ events' = events + 1 /\ requests' = requests
      BY <1>2 DEF Next, bounds
    <3>. QED  BY <3>1, <3>2, <3>3
  <2>4. HistoryType'
    BY <2>2, <2>3 DEF Past, HistoryType
  <2>5. TypeOK'
    BY <2>2, <2>4, TypeWhole DEF Held, Rest, Accepted
  <2>. QED  BY <2>2, <2>5 DEF Held, Rest, Control
<1>. QED  BY <1>1, <1>2

\* Threads and the worker keep to their places, whatever the order of their steps: a
\* machine that is busy is there or was, a job has one task, VBDs have slots of their
\* own, and only machines that run use them.
THEOREM TypeCorrect == Spec => []TypeOK
<1>1. Control => TypeOK
  BY DEF Control
<1>. QED  BY InitControl, NextControl, <1>1, PTL DEF Spec

-----------------------------------------------------------------------------
(* Counting the devices                                                    *)

\* The devices of some types are finitely many, and those after the first one are as
\* many but for it.
LEMMA CountTail ==
  ASSUME NEW s \in Asked, NEW T
  PROVE  /\ CountOf(s, T) \in Nat
         /\ s # <<>> => CountOf(s, T) = CountOf(Tail(s), T) + (IF Head(s).type \in T THEN 1 ELSE 0)
<1>. DEFINE A == {i \in DOMAIN s : s[i].type \in T}
            B == {i \in DOMAIN Tail(s) : Tail(s)[i].type \in T}
<1>1. s \in Seq([type : Types, vdi : Disks \cup {NoDisk}]) /\ Len(s) \in Nat
      /\ DOMAIN s = 1..Len(s)
  BY DEF Asked
<1>2. IsFiniteSet(A) /\ Cardinality(A) \in Nat
  <2>1. IsFiniteSet(1..Len(s))
    BY <1>1, FS_Interval
  <2>2. A \in SUBSET (1..Len(s))
    BY <1>1
  <2>. QED  BY <2>1, <2>2, FS_Subset, FS_CardinalityType
<1>3. ASSUME s # <<>>
      PROVE  Cardinality(A) = Cardinality(B) + (IF Head(s).type \in T THEN 1 ELSE 0)
  <2>1. /\ Len(Tail(s)) = Len(s) - 1 /\ Len(s) >= 1 /\ Head(s) = s[1]
        /\ DOMAIN Tail(s) = 1 .. (Len(s) - 1)
        /\ \A i \in 1 .. (Len(s) - 1) : Tail(s)[i] = s[i + 1]
    BY <1>1, <1>3
  <2>2. B = {i \in 1 .. (Len(s) - 1) : s[i + 1].type \in T}
    BY <2>1
  <2>3. IsFiniteSet(B)
    <3>1. IsFiniteSet(1 .. (Len(s) - 1))
      BY <1>1, FS_Interval
    <3>. QED  BY <2>2, <3>1, FS_Subset
  <2>. DEFINE f == [i \in B |-> i + 1]
              C == A \ {1}
  <2>4. f \in Bijection(B, C)
    <3>1. f \in [B -> C]
      BY <1>1, <2>2
    <3>2. \A i, k \in B : f[i] = f[k] => i = k
      BY <2>2
    <3>3. \A c \in C : \E i \in B : f[i] = c
      <4>. SUFFICES ASSUME NEW c \in C PROVE \E i \in B : f[i] = c
        OBVIOUS
      <4>1. c \in Int /\ c > 1 /\ c <= Len(s) /\ s[c].type \in T
        BY <1>1
      <4>2. c - 1 \in B
        BY <1>1, <2>2, <4>1
      <4>3. f[c - 1] = c
        BY <4>1, <4>2
      <4>. QED  BY <4>2, <4>3
    <3>. HIDE DEF f, B, C
    <3>4. f \in Injection(B, C)
      BY <3>1, <3>2 DEF Injection, IsInjective
    <3>5. f \in Surjection(B, C)
      BY <3>1, <3>3 DEF Surjection
    <3>. QED  BY <3>4, <3>5 DEF Bijection
  <2>5. IsFiniteSet(C) /\ Cardinality(C) = Cardinality(B)
    <3>. HIDE DEF f
    <3>1. ExistsBijection(B, C)
      BY <2>4 DEF ExistsBijection
    <3>. QED  BY <2>3, <3>1, FS_Bijection
  <2>6. 1 \in A <=> Head(s).type \in T
    BY <1>1, <2>1
  <2>7. Cardinality(C) = IF 1 \in A THEN Cardinality(A) - 1 ELSE Cardinality(A)
    BY <1>2, FS_RemoveElement
  <2>8. Cardinality(B) \in Nat
    BY <2>3, FS_CardinalityType
  <2>. HIDE DEF A, B, C
  <2>. QED  BY <1>2, <2>5, <2>6, <2>7, <2>8
<1>. QED  BY <1>2, <1>3 DEF CountOf

\* Of no devices none is of any type.
LEMMA CountNone ==
  ASSUME NEW T
  PROVE  CountOf(<<>>, T) = 0
<1>1. {i \in DOMAIN <<>> : <<>>[i].type \in T} = {}
  OBVIOUS
<1>. QED  BY <1>1, FS_EmptySet DEF CountOf

-----------------------------------------------------------------------------
(* Whose machine a step may change                                         *)

\* The machine of job j stays as it is.
Spared(j) ==
    LET v == context[j].vm IN
      power'[v] = power[v] /\ vifs'[v] = vifs[v] /\ {b \in vbds' : b[1] = v} = VbdsOf(v)

\* A step that changes nothing in xapi changes no machine.
LEMMA IdleSpares ==
  ASSUME UNCHANGED world, NEW j
  PROVE  Spared(j)
  BY DEF Spared, world, VbdsOf

\* Nobody but its own job is busy with the machine of a definition.
LEMMA OwnVm ==
  ASSUME Control, NEW j \in Jobs, Own(j), context[j].vm \in Vms
  PROVE  /\ \A c \in Callers : thread[c].vm = context[j].vm =>
              thread[c].call = "define" /\ thread[c].job = j
         /\ thread[Worker].vm = context[j].vm => current = j
<1>. DEFINE v == context[j].vm
<1>1. \A k \in Jobs : context[k].vm = v => k = j
  BY DEF Control, Contexts, Own
<1>2. v # NoVm
  BY SystemManagementAssumption
<1>3. ASSUME NEW c \in Callers, thread[c].vm = v
      PROVE  thread[c].call = "define" /\ thread[c].job = j
  <2>1. /\ Asking(c)
        /\ thread[c].call \in {"none", "define", "add", "add_one", "remove", "destroy"}
    BY CallOf DEF Locals
  <2>2. thread[c].call \notin {"add", "add_one", "remove", "destroy"}
    BY <1>3, <2>1 DEF Asking, Own
  <2>3. thread[c].call # "none"
    BY <1>2, <1>3, <2>1, IdleType DEF Asking
  <2>4. thread[c].call = "define"
    BY <2>1, <2>2, <2>3
  <2>5. thread[c].job \in Jobs /\ context[thread[c].job].vm = v
    BY <1>2, <1>3, <2>1, <2>4 DEF Asking
  <2>. QED  BY <1>1, <2>4, <2>5
<1>4. ASSUME thread[Worker].vm = v
      PROVE  current = j
  BY <1>1, <1>2, <1>4, WorkerAt, TypeParts DEF Working, JobsType
<1>. QED  BY <1>3, <1>4

\* A caller changes the machine of a job only before it has submitted that job.
LEMMA ServeSpares ==
  ASSUME Control, NEW c \in Callers, Serve(c), NEW j \in Jobs, Own(j), context[j].vm \in Vms,
         \/ ~(thread[c].call = "define" /\ thread[c].job = j)
         \/ thread[c].pc \in {"created", "set_up", "submit"}
  PROVE  Spared(j)
<1>1. CASE ReadCreated(c) \/ SetUp(c) \/ SubmitJob(c)
  <2>1. UNCHANGED world
    BY <1>1 DEF ReadCreated, SetUp, SubmitJob
  <2>. QED  BY <2>1, IdleSpares
<1>2. CASE CreateMachine(c)
  <2>. DEFINE k == thread[c].job
  <2>1. At(c, "create")
    BY <1>2 DEF CreateMachine
  <2>2. thread[c].call = "define" /\ k \in Jobs /\ context[k].vm \in Vms /\ k # j
        /\ power[context[k].vm] = "none"
    BY <2>1, CallOf DEF At, Asking
  <2>3. Affects(context[k].vm)
    BY <1>2, <2>2, TypeParts, CallOf, CreateMachineDoes
  <2>4. context[k].vm # context[j].vm
    BY <2>2 DEF Control, Contexts
  <2>. QED  BY <2>3, <2>4 DEF Affects, Spares, Spared, VbdsOf
<1>3. CASE ReadPowerState(c) \/ RemoveVbd(c) \/ Devices(c) \/ Destruction(c)
  <2>1. PICK P : Goes(c, P)
    BY <1>3, OwnStepsGo, DevicesGo, DestructionGoes
  <2>2. thread[c].pc \notin {"created", "set_up", "submit"}
    BY <1>3 DEF ReadPowerState, RemoveVbd, Devices, AllAdded, CreateVif, FindDisk, CreateVbd,
       NameDevice, Destruction, ListVbds, LookAtDisk, DestroyDisk, DestroyVbd, DestroyVm, At
  <2>3. thread[c].vm # context[j].vm
    BY <2>2, OwnVm
  <2>. QED  BY <2>1, <2>3 DEF Goes, Affects, Spares, Spared, VbdsOf
<1>. QED  BY <1>1, <1>2, <1>3 DEF Serve

\* The worker changes the machine of the job it serves.
LEMMA WorkSpares ==
  ASSUME Control, Work, NEW j \in Jobs, Own(j), context[j].vm \in Vms, j # current
  PROVE  Spared(j)
<1>1. CASE TakeJob \/ Announce \/ FindMachine \/ ModifyResources \/ Report \/ FreeJob
  <2>1. UNCHANGED world
    BY <1>1 DEF TakeJob, Announce, FindMachine, ModifyResources, Report, FreeJob
  <2>. QED  BY <2>1, IdleSpares
<1>2. CASE ProvisionDisks \/ Devices(Worker) \/ Destruction(Worker)
  <2>1. Affects(thread[Worker].vm)
    BY <1>2, TypeParts, ProvisionDisksDoes, WorkerShares DEF WorkerGoes
  <2>2. thread[Worker].vm # context[j].vm
    BY OwnVm
  <2>. QED  BY <2>1, <2>2 DEF Affects, Spares, Spared, VbdsOf
<1>. QED  BY <1>1, <1>2 DEF Work

\* Other clients change a machine that does not run only by touching it.
LEMMA OthersSpare ==
  ASSUME Control, Others, NEW j \in Jobs, Own(j)', context[j].vm \in Vms,
         power[context[j].vm] # "Running"
  PROVE  Spared(j)
<1>. DEFINE v == context[j].vm
<1>1. context'[j].vm = v
  BY DEF Others, KillJob, StartVm, StopVm, Attach
<1>2. v \notin touched'
  BY <1>1 DEF Own
<1>3. ASSUME NEW i \in Jobs, KillJob(i)
      PROVE  Spared(j)
  BY <1>3, IdleSpares DEF KillJob
<1>4. ASSUME NEW u \in Vms, StartVm(u)
      PROVE  Spared(j)
  BY <1>2, <1>4, TypeParts DEF StartVm, Spared, VbdsOf, Ready, Order, WorldType
<1>5. ASSUME NEW u \in Vms, StopVm(u)
      PROVE  Spared(j)
  BY <1>5, TypeParts DEF StopVm, Spared, VbdsOf, Ready, Order, WorldType
<1>6. ASSUME NEW u \in Vms, NEW d \in Disks, Attach(u, d)
      PROVE  Spared(j)
  <2>1. u # v /\ power' = power /\ vifs' = vifs
        /\ vbds' = vbds \cup {<<u, Lowest(FreeSlots(u)), d>>}
    BY <1>2, <1>6 DEF Attach, Plug
  <2>. QED  BY <2>1 DEF Spared, VbdsOf
<1>. QED  BY <1>3, <1>4, <1>5, <1>6 DEF Others

-----------------------------------------------------------------------------
(* Who does a step                                                         *)

\* A caller moves no thread but its own and takes nothing from the queue.
LEMMA ServeOnly ==
  ASSUME Control, NEW c \in Callers, Serve(c)
  PROVE  Only(c) /\ UNCHANGED <<context, touched, current, served>>
<1>1. CASE CreateMachine(c)
  <2>1. At(c, "create") /\ UNCHANGED <<service, context, touched>>
    BY <1>1 DEF CreateMachine, history
  <2>2. thread[c].call = "define" /\ context[thread[c].job].vm \in Vms
        /\ power[context[thread[c].job].vm] = "none"
    BY <2>1, CallOf DEF At, Asking
  <2>. QED  BY <1>1, <2>1, <2>2, TypeParts, CallOf, CreateMachineDoes DEF service
<1>2. CASE SubmitJob(c)
  BY <1>2, TypeParts, CallOf, SubmitJobDoes DEF Leads, SubmitJob, Service!Accept, service, history
<1>3. CASE ReadCreated(c) \/ SetUp(c) \/ ReadPowerState(c) \/ RemoveVbd(c)
  <2>1. Only(c)
    BY <1>3, OwnStepsGo DEF Goes, Leads
  <2>. QED  BY <1>3, <2>1 DEF ReadCreated, SetUp, ReadPowerState, RemoveVbd, service, history
<1>4. CASE Devices(c) \/ Destruction(c)
  <2>1. Only(c)
    BY <1>4, DevicesGo, DestructionGoes DEF Goes, Leads
  <2>. QED  BY <1>4, <2>1, CallOf, SharedLeaves DEF service
<1>. QED  BY <1>1, <1>2, <1>3, <1>4 DEF Serve

\* The worker moves no thread but its own.
LEMMA WorkOnly ==
  ASSUME Control, Work
  PROVE  Only(Worker) /\ UNCHANGED <<context, touched>>
<1>. USE TypeParts, WorkerAt
<1>1. CASE TakeJob \/ FreeJob
  BY <1>1, TakeJobDoes, FreeJobDoes DEF Control, TakeJob, FreeJob, history
<1>2. CASE Announce \/ Report
  <2>1. At(Worker, "announce") \/ At(Worker, "report")
    BY <1>2 DEF Announce, Report
  <2>2. Only(Worker)
    BY <1>2, <2>1, AnnounceDoes, ReportDoes DEF Control, At, Leads
  <2>. QED  BY <1>2, <2>2 DEF Announce, Report, history
<1>3. CASE FindMachine
  BY <1>3, FindMachineDoes DEF FindMachine, At, Leads, history
<1>4. CASE ProvisionDisks \/ ModifyResources
  BY <1>4, ProvisionDisksDoes, ModifyResourcesDoes
     DEF ProvisionDisks, ModifyResources, Leads, history
<1>5. CASE Devices(Worker) \/ Destruction(Worker)
  BY <1>5, WorkerShares, SharedLeaves DEF WorkerGoes, Leads
<1>. QED  BY <1>1, <1>2, <1>3, <1>4, <1>5 DEF Work

\* A request moves no thread but the caller's, and changes nothing in xapi.
LEMMA RequestOnly ==
  ASSUME Control, NEW c \in Callers, Request(c)
  PROVE  /\ Only(c) /\ JobsStay /\ UNCHANGED <<service, task, world>>
         /\ thread'[c].pc \in {"create", "set_up", "device", "power"}
         /\ thread'[c].call = "define" => thread'[c].pc = "create"
<1>. DEFINE Done == /\ Only(c) /\ JobsStay /\ UNCHANGED <<service, task, world>>
                    /\ thread'[c].pc \in {"create", "set_up", "device", "power"}
                    /\ thread'[c].call = "define" => thread'[c].pc = "create"
<1>1. ASSUME NEW j \in Jobs, NEW v \in Vms, NEW template \in BOOLEAN, NEW array \in BOOLEAN,
             NEW devices \in Requests, DefineSystem(c, j, v, template, array, devices)
      PROVE  Done
  <2>1. context[j].vm \notin Vms
    BY <1>1, NewJob DEF DefineSystem
  <2>2. \A i \in Jobs \ {j} : context'[i] = context[i]
    BY <1>1, TypeParts DEF DefineSystem, JobsType
  <2>3. JobsStay
    BY <1>1, <2>1, <2>2 DEF JobsStay, DefineSystem, history
  <2>. QED  BY <1>1, <2>3, TypeParts, DefineSystemDoes DEF Ready, DefineSystem
<1>2. ASSUME NEW j \in Jobs, NEW v \in Vms, NEW devices \in Requests,
             AddResourceSettings(c, j, v, devices)
      PROVE  Done
  <2>1. context[j].vm \notin Vms
    BY <1>2, NewJob DEF AddResourceSettings
  <2>2. \A i \in Jobs \ {j} : context'[i] = context[i]
    BY <1>2, TypeParts DEF AddResourceSettings, JobsType
  <2>3. JobsStay /\ UNCHANGED <<service, task, world>>
    BY <1>2, <2>1, <2>2, AsksDoes DEF JobsStay, AddResourceSettings
  <2>. QED  BY <1>2, <2>3, TypeParts, AddResourceSettingsDoes DEF Ready
<1>3. ASSUME NEW v \in Vms, NEW devices \in Requests, Len(devices) = 1,
             AddResourceSetting(c, v, devices[1])
      PROVE  Done
  <2>1. JobsStay /\ UNCHANGED <<service, task, world>>
    BY <1>3, AsksDoes DEF JobsStay, AddResourceSetting
  <2>. QED  BY <1>3, <2>1, TypeParts, AddResourceSettingDoes DEF Ready
<1>4. ASSUME NEW v \in Vms, NEW B, RemoveResourceSettings(c, v, B)
      PROVE  Done
  <2>1. JobsStay /\ UNCHANGED <<service, task, world>>
    BY <1>4, AsksDoes DEF JobsStay, RemoveResourceSettings
  <2>. QED  BY <1>4, <2>1, TypeParts, RemoveResourceSettingsDoes DEF Ready, Order, WorldType
<1>5. ASSUME NEW v \in Vms, DestroySystem(c, v)
      PROVE  Done
  <2>1. JobsStay /\ UNCHANGED <<service, task, world>>
    BY <1>5, AsksDoes DEF JobsStay, DestroySystem
  <2>. QED  BY <1>5, <2>1, TypeParts, DestroySystemDoes DEF Ready
<1>. QED  BY <1>1, <1>2, <1>3, <1>4, <1>5 DEF Request

\* Other clients move no thread of this process.
LEMMA OthersOnly ==
  ASSUME Others
  PROVE  UNCHANGED <<service, context, thread>> /\ JobsStay
<1>1. UNCHANGED <<service, context, thread>>
  BY DEF Others, KillJob, StartVm, StopVm, Attach
<1>2. touched \subseteq touched'
  BY DEF Others, KillJob, StartVm, StopVm, Attach, history
<1>. QED  BY <1>1, <1>2 DEF JobsStay

\* A definition that nobody has interfered with is one that nobody had.
LEMMA NextStays ==
  ASSUME Control, Next
  PROVE  /\ JobsStay
         /\ \A j \in Jobs : context[j].vm \in Vms =>
              context'[j] = context[j] /\ (Own(j)' => Own(j))
<1>1. JobsStay
  <2>1. ASSUME NEW c \in Callers, Serve(c)
        PROVE  JobsStay
    BY <2>1, ServeOnly DEF JobsStay
  <2>2. CASE Work
    BY <2>2, WorkOnly DEF JobsStay
  <2>3. ASSUME NEW c \in Callers, Request(c)
        PROVE  JobsStay
    BY <2>3, RequestOnly
  <2>4. CASE Others
    BY <2>4, OthersOnly
  <2>. QED  BY <2>1, <2>2, <2>3, <2>4 DEF Next
<1>. QED  BY <1>1 DEF JobsStay, Own

\* Of the machine of a job, the steps that its own thread does not do change nothing.
LEMMA OtherSpares ==
  ASSUME Control, Next, NEW j \in Jobs, Own(j)', context[j].vm \in Vms,
         power[context[j].vm] = "Halted",
         Work => j # current,
         \A c \in Callers : Serve(c) =>
           \/ ~(thread[c].call = "define" /\ thread[c].job = j)
           \/ thread[c].pc \in {"created", "set_up", "submit"}
  PROVE  Spared(j)
<1>1. Own(j)
  BY NextStays
<1>2. ASSUME NEW c \in Callers, Serve(c)
      PROVE  Spared(j)
  BY <1>1, <1>2, ServeSpares
<1>3. CASE Work
  BY <1>1, <1>3, WorkSpares
<1>4. ASSUME NEW c \in Callers, Request(c)
      PROVE  Spared(j)
  BY <1>4, RequestOnly, IdleSpares
<1>5. CASE Others
  BY <1>5, OthersSpare
<1>. QED  BY <1>2, <1>3, <1>4, <1>5 DEF Next

-----------------------------------------------------------------------------
(* A machine that waits for its devices has none                           *)

\* What is spared stays empty.
LEMMA FreshStays ==
  ASSUME NEW j, Spared(j), context'[j] = context[j], Fresh(context[j].vm)
  PROVE  Fresh(context[j].vm)'
  BY DEF Spared, Fresh, VbdsOf

\* A caller that has not submitted its job yet finds the machine as it made it.
LEMMA OwnWaits ==
  ASSUME Control, Waits, NEW c \in Callers, Serve(c), thread'[c].call = "define",
         thread'[c].pc \in {"created", "set_up", "submit"},
         NEW k \in Jobs, thread'[c].job = k, Own(k)'
  PROVE  Fresh(context[k].vm)'
<1>. USE TypeParts, CallOf
<1>1. CASE CreateMachine(c)
  <2>. DEFINE v == context[k].vm
  <2>1. At(c, "create") /\ UNCHANGED <<context, vbds, vifs>>
    BY <1>1 DEF CreateMachine
  <2>2. /\ thread[c].call = "define" /\ context[thread[c].job].vm \in Vms
        /\ power[context[thread[c].job].vm] = "none"
    BY <2>1 DEF At, Asking
  <2>3. thread[c].job = k /\ power'[v] = "Halted"
    BY <1>1, <2>2, CreateMachineDoes, IdleType
  <2>4. VbdsOf(v) = {} /\ vifs[v] = 0
    BY <2>2, <2>3 DEF Control, Unmade
  <2>. QED  BY <2>1, <2>3, <2>4 DEF Fresh, VbdsOf
<1>2. CASE ReadCreated(c) \/ SetUp(c)
  <2>1. /\ At(c, "created") \/ At(c, "set_up")
        /\ UNCHANGED <<context, world, touched>>
    BY <1>2 DEF ReadCreated, SetUp, history
  <2>2. PICK P : Leads(c, P)
    BY <1>2, OwnStepsGo DEF Goes
  <2>3. thread[c].call = "define" /\ thread[c].job = k
    BY <2>2, IdleType DEF Leads, Keeps
  <2>4. Own(k)
    BY <2>1 DEF Own
  <2>5. Fresh(context[k].vm)
    BY <2>1, <2>3, <2>4 DEF Waits, At
  <2>6. Spared(k)
    BY <2>1, IdleSpares
  <2>. QED  BY <2>1, <2>5, <2>6, FreshStays
<1>3. CASE SubmitJob(c)
  BY <1>3, SubmitJobDoes, IdleType DEF Leads
<1>4. CASE ReadPowerState(c) \/ RemoveVbd(c) \/ Devices(c)
  <2>1. thread[c].pc \in {"power", "remove"} \cup Adding
    BY <1>4 DEF ReadPowerState, RemoveVbd, Devices, AllAdded, CreateVif, FindDisk, CreateVbd,
                NameDevice, At, Adding
  <2>2. thread[c].call # "define"
    BY <2>1
  <2>3. PICK P : Leads(c, P)
    BY <1>4, OwnStepsGo, DevicesGo DEF Goes
  <2>. QED  BY <2>2, <2>3, IdleType DEF Leads, Keeps
<1>5. CASE Destruction(c)
  BY <1>5, DestructionGoes, IdleType DEF Goes, Leads, Destroying
<1>. QED  BY <1>1, <1>2, <1>3, <1>4, <1>5 DEF Serve

\* So does one that others have overtaken.
LEMMA CallersWait ==
  ASSUME Control, Waits, Next, NEW e \in Callers, thread'[e].call = "define",
         thread'[e].pc \in {"created", "set_up", "submit"},
         NEW k \in Jobs, thread'[e].job = k, Own(k)'
  PROVE  Fresh(context[k].vm)'
<1>1. CASE Serve(e)
  BY <1>1, OwnWaits
<1>2. CASE Request(e)
  BY <1>2, RequestOnly
<1>3. CASE ~Serve(e) /\ ~Request(e)
  <2>1. thread'[e] = thread[e]
    <3>1. ASSUME NEW c \in Callers, Serve(c) \/ Request(c)
          PROVE  thread'[e] = thread[e]
      BY <1>3, <3>1, ServeOnly, RequestOnly, CallOf DEF Only
    <3>2. CASE Work
      BY <3>2, WorkOnly, CallOf DEF Only
    <3>3. CASE Others
      BY <3>3, OthersOnly
    <3>. QED  BY <3>1, <3>2, <3>3 DEF Next
  <2>2. /\ thread[e].job = k /\ context[k].vm \in Vms /\ task[k] = Absent
        /\ \A d \in Callers : thread[d].call \in {"define", "add"} /\ thread[d].job = k => d = e
    BY <2>1, CallOf DEF Asking
  <2>4. context'[k] = context[k] /\ Own(k)
    BY <2>2, NextStays
  <2>5. Fresh(context[k].vm)
    BY <2>1, <2>2, <2>4 DEF Waits
  <2>6. Work => k # current
    BY <2>2, SystemManagementAssumption DEF Control, Accepted
  <2>7. Spared(k)
    BY <1>3, <2>2, <2>5, <2>6, OtherSpares DEF Fresh
  <2>. QED  BY <2>4, <2>5, <2>7, FreshStays
<1>. QED  BY <1>1, <1>2, <1>3

\* What a step does to the jobs that wait.
LEMMA QueueMoves ==
  ASSUME Control, Next
  PROVE  \/ pending' = pending
         \/ Work /\ pending # <<>> /\ pending' = Tail(pending)
         \/ \E c \in Callers : /\ SubmitJob(c) /\ At(c, "submit")
                               /\ thread[c].job \notin Service!Waiting \cup {current} \cup served
                               /\ pending' = Append(pending, thread[c].job)
<1>1. ASSUME NEW c \in Callers, Serve(c)
      PROVE  \/ pending' = pending
             \/ /\ SubmitJob(c) /\ At(c, "submit")
                /\ thread[c].job \notin Service!Waiting \cup {current} \cup served
                /\ pending' = Append(pending, thread[c].job)
  <2>1. CASE CreateMachine(c) \/ ReadCreated(c) \/ SetUp(c) \/ ReadPowerState(c) \/ RemoveVbd(c)
    BY <2>1 DEF CreateMachine, ReadCreated, SetUp, ReadPowerState, RemoveVbd, service
  <2>2. CASE SubmitJob(c)
    BY <2>2 DEF SubmitJob, service, Service!Accept
  <2>3. CASE Devices(c) \/ Destruction(c)
    BY <2>3, CallOf, SharedLeaves DEF service
  <2>. QED  BY <1>1, <2>1, <2>2, <2>3 DEF Serve
<1>2. CASE Work
  <2>1. CASE TakeJob
    BY <1>2, <2>1 DEF TakeJob, Service!Take
  <2>2. CASE Announce \/ FindMachine \/ ProvisionDisks
    BY <2>2 DEF Announce, FindMachine, ProvisionDisks, service
  <2>3. CASE ModifyResources \/ Report \/ FreeJob
    BY <2>3 DEF ModifyResources, Report, FreeJob, service, Service!Finish
  <2>4. CASE Devices(Worker) \/ Destruction(Worker)
    BY <2>4, WorkerIs, SharedLeaves DEF service
  <2>. QED  BY <1>2, <2>1, <2>2, <2>3, <2>4 DEF Work
<1>3. ASSUME NEW c \in Callers, Request(c)
      PROVE  pending' = pending
  BY <1>3, RequestOnly DEF service
<1>4. CASE Others
  BY <1>4, OthersOnly DEF service
<1>. QED  BY <1>1, <1>2, <1>3, <1>4 DEF Next

\* A job that was submitted or waits is one whose machine is empty.
LEMMA JobsWait ==
  ASSUME Control, Waits, Next, NEW n \in DOMAIN pending', NEW j \in Jobs, pending'[n] = j,
         Own(j)'
  PROVE  Fresh(context[j].vm)'
<1>1. /\ context[j].vm \in Vms
      /\ Own(j) => Fresh(context[j].vm)
      /\ Work => j # current
      /\ \A c \in Callers : thread[c].call = "define" /\ thread[c].job = j => At(c, "submit")
  <2>1. CASE \E m \in DOMAIN pending : j = pending[m]
    <3>1. PICK m \in DOMAIN pending : j = pending[m]
      BY <2>1
    <3>2. task[j] # Absent /\ context[j].vm \in Vms /\ j # current
      BY <3>1 DEF Control, Accepted
    <3>3. Own(j) => Fresh(context[j].vm)
      BY <3>1 DEF Waits
    <3>. QED  BY <3>2, <3>3, CallOf DEF Asking
  <2>2. CASE \A m \in DOMAIN pending : j # pending[m]
    <3>1. pending' # pending /\ pending \in Seq(Jobs)
      BY <2>2 DEF Control, Accepted
    <3>2. ~(pending # <<>> /\ pending' = Tail(pending))
      <4>. SUFFICES ASSUME pending # <<>>, pending' = Tail(pending) PROVE FALSE
        OBVIOUS
      <4>1. n + 1 \in DOMAIN pending /\ j = pending[n + 1]
        BY <3>1
      <4>. QED  BY <2>2, <4>1
    <3>3. PICK c \in Callers : /\ At(c, "submit") /\ pending' = Append(pending, thread[c].job)
                               /\ thread[c].job \notin Service!Waiting \cup {current} \cup served
      BY <3>1, <3>2, QueueMoves
    <3>4. j = thread[c].job
      BY <2>2, <3>1, <3>3
    <3>5. /\ thread[c].call \in {"define", "add"} /\ context[j].vm \in Vms
          /\ \A d \in Callers : thread[d].call \in {"define", "add"} /\ thread[d].job = j => d = c
          /\ Own(j) => thread[c].call = "define"
      BY <3>3, <3>4, CallOf DEF At, Asking, Own
    <3>6. Own(j) => Fresh(context[j].vm)
      BY <3>3, <3>4, <3>5 DEF Waits, At
    <3>. QED  BY <3>3, <3>4, <3>5, <3>6
  <2>. QED  BY <2>1, <2>2
<1>3. context'[j] = context[j] /\ Own(j)
  BY <1>1, NextStays
<1>4. Fresh(context[j].vm)
  BY <1>1, <1>3
<1>5. Spared(j)
  BY <1>1, <1>4, OtherSpares DEF Fresh, At
<1>. QED  BY <1>3, <1>4, <1>5, FreshStays

\* A machine that waits for its devices stays empty.
LEMMA WaitsKept ==
  ASSUME Control, Waits, Next
  PROVE  Waits'
<1>1. Control'
  BY NextControl
<1>2. ASSUME NEW c \in Callers, thread'[c].call = "define", Own(thread[c].job)',
             thread'[c].pc \in {"created", "set_up", "submit"}
      PROVE  Fresh(context[thread[c].job].vm)'
  <2>1. PICK k : k = thread'[c].job
    OBVIOUS
  <2>2. k \in Jobs
    BY <1>1, <1>2, <2>1 DEF Control, Requesting, Asking
  <2>3. Own(k)'
    BY <1>2, <2>1 DEF Own
  <2>4. Fresh(context[k].vm)'
    BY <1>2, <2>1, <2>2, <2>3, CallersWait
  <2>. QED  BY <2>1, <2>4 DEF Fresh, VbdsOf
<1>3. ASSUME NEW n \in DOMAIN pending', Own(pending[n])'
      PROVE  Fresh(context[pending[n]].vm)'
  <2>1. PICK j : j = pending'[n]
    OBVIOUS
  <2>2. j \in Jobs
    BY <1>1, <2>1 DEF Control, Accepted
  <2>3. Own(j)'
    BY <1>3, <2>1 DEF Own
  <2>4. Fresh(context[j].vm)'
    BY <2>1, <2>2, <2>3, JobsWait
  <2>. QED  BY <2>1, <2>4 DEF Fresh, VbdsOf
<1>. QED  BY <1>2, <1>3 DEF Waits

-----------------------------------------------------------------------------
(* What is still to come                                                   *)

\* What a machine lacks stays the same as long as nobody changes it.
LEMMA LacksStays ==
  ASSUME NEW j, NEW D, Spared(j), context'[j] = context[j], Lacks(j, D)
  PROVE  Lacks(j, D)'
  BY DEF Spared, Lacks, VbdsOf

\* An empty machine lacks everything.
LEMMA LacksAll ==
  ASSUME Control, NEW j \in Jobs, Fresh(context[j].vm), ~context[j].provision
  PROVE  Lacks(j, context[j].devices)
<1>. DEFINE D == context[j].devices
<1>1. CountOf(D, Nics) \in Nat /\ CountOf(D, Drives) \in Nat
  <2>1. D \in Asked
    BY TypeParts DEF JobsType
  <2>. QED  BY <2>1, CountTail
<1>2. Cardinality({}) = 0
  BY FS_EmptySet
<1>. QED  BY <1>1, <1>2 DEF Lacks, Fresh

\* With the disk of the template it lacks all the devices.
LEMMA LacksDevices ==
  ASSUME Control, NEW j \in Jobs, context'[j] = context[j], Fresh(context[j].vm),
         context[j].provision, UNCHANGED <<power, vifs>>,
         NEW b, b[1] = context[j].vm, vbds' = vbds \cup {b},
         NEW D, D = context[j].devices
  PROVE  Lacks(j, D)'
<1>. DEFINE v == context[j].vm
<1>1. CountOf(D, Nics) \in Nat /\ CountOf(D, Drives) \in Nat
  <2>1. D \in Asked
    BY TypeParts DEF JobsType
  <2>. QED  BY <2>1, CountTail
<1>2. {u \in vbds' : u[1] = v} = {b}
  BY DEF Fresh, VbdsOf
<1>3. Cardinality({b}) = 1
  BY FS_Singleton
<1>4. power'[v] = "Halted" /\ vifs'[v] = 0
  BY DEF Fresh
<1>5. Cardinality(VbdsOf(v)') = 1
  BY <1>2, <1>3 DEF VbdsOf
<1>6. context'[j].vm = v /\ context'[j].devices = D /\ context'[j].provision
  OBVIOUS
<1>. QED  BY <1>1, <1>4, <1>5, <1>6 DEF Lacks

\* A network interface or a console was added.
LEMMA LacksVif ==
  ASSUME NEW j \in Jobs, context'[j] = context[j], NEW D \in Asked, D # <<>>, Lacks(j, D),
         Head(D).type \in Nics, UNCHANGED <<power, vbds>>,
         vifs[context[j].vm] \in Nat, vifs'[context[j].vm] = vifs[context[j].vm] + 1,
         context[j].devices \in Asked
  PROVE  Lacks(j, Tail(D))'
<1>. DEFINE v == context[j].vm
            devices == context[j].devices
<1>1. /\ CountOf(D, Nics) = CountOf(Tail(D), Nics) + 1
      /\ CountOf(D, Drives) = CountOf(Tail(D), Drives)
      /\ CountOf(Tail(D), Nics) \in Nat /\ CountOf(Tail(D), Drives) \in Nat
      /\ CountOf(devices, Nics) \in Nat
  <2>1. Head(D).type \notin Drives
    BY DEF Nics, Drives
  <2>2. Tail(D) \in Asked
    BY DEF Asked
  <2>. QED  BY <2>1, <2>2, CountTail
<1>2. \A i \in DOMAIN devices : devices[i].type = "disk" =>
         \/ \E b \in VbdsOf(v) : b[3] = devices[i].vdi
         \/ \E k \in DOMAIN Tail(D) : Tail(D)[k] = devices[i]
  <2>. SUFFICES ASSUME NEW i \in DOMAIN devices, devices[i].type = "disk",
                       NEW k \in DOMAIN D, D[k] = devices[i]
                PROVE  \E l \in DOMAIN Tail(D) : Tail(D)[l] = devices[i]
    BY DEF Lacks
  <2>1. k # 1
    BY DEF Nics, Asked
  <2>2. k - 1 \in DOMAIN Tail(D) /\ Tail(D)[k - 1] = devices[i]
    BY <2>1 DEF Asked
  <2>. QED  BY <2>2
<1>. QED  BY <1>1, <1>2 DEF Lacks, VbdsOf

\* A disk or a drive was attached.
LEMMA LacksVbd ==
  ASSUME NEW j \in Jobs, context'[j] = context[j], NEW D \in Asked, D # <<>>, Lacks(j, D),
         Head(D).type \in Drives, UNCHANGED <<power, vifs>>, IsFiniteSet(vbds),
         NEW b, b \notin vbds, b[1] = context[j].vm, vbds' = vbds \cup {b},
         Head(D).type = "disk" => b[3] = Head(D).vdi, context[j].devices \in Asked
  PROVE  Lacks(j, Tail(D))'
<1>. DEFINE v == context[j].vm
            devices == context[j].devices
            V == {u \in vbds' : u[1] = v}
<1>1. /\ CountOf(D, Drives) = CountOf(Tail(D), Drives) + 1
      /\ CountOf(D, Nics) = CountOf(Tail(D), Nics)
      /\ CountOf(Tail(D), Nics) \in Nat /\ CountOf(Tail(D), Drives) \in Nat
      /\ CountOf(devices, Drives) \in Nat
  <2>1. Head(D).type \notin Nics
    BY DEF Nics, Drives
  <2>2. Tail(D) \in Asked
    BY DEF Asked
  <2>. QED  BY <2>1, <2>2, CountTail
<1>2. /\ V = VbdsOf(v) \cup {b} /\ Cardinality(V) = Cardinality(VbdsOf(v)) + 1
      /\ Cardinality(VbdsOf(v)) \in Nat
  <2>1. V = VbdsOf(v) \cup {b} /\ b \notin VbdsOf(v)
    BY DEF VbdsOf
  <2>2. IsFiniteSet(VbdsOf(v))
    BY FS_Subset DEF VbdsOf
  <2>. QED  BY <2>1, <2>2, FS_AddElement, FS_CardinalityType
<1>3. \A i \in DOMAIN devices : devices[i].type = "disk" =>
         \/ \E u \in V : u[3] = devices[i].vdi
         \/ \E k \in DOMAIN Tail(D) : Tail(D)[k] = devices[i]
  <2>. SUFFICES ASSUME NEW i \in DOMAIN devices, devices[i].type = "disk"
                PROVE  \/ \E u \in V : u[3] = devices[i].vdi
                       \/ \E k \in DOMAIN Tail(D) : Tail(D)[k] = devices[i]
    OBVIOUS
  <2>1. CASE \E u \in VbdsOf(v) : u[3] = devices[i].vdi
    BY <1>2, <2>1
  <2>2. ASSUME NEW k \in DOMAIN D, D[k] = devices[i]
        PROVE  \/ \E u \in V : u[3] = devices[i].vdi
               \/ \E l \in DOMAIN Tail(D) : Tail(D)[l] = devices[i]
    <3>1. CASE k = 1
      <4>1. Head(D) = devices[i]
        BY <2>2, <3>1 DEF Asked
      <4>. QED  BY <1>2, <4>1
    <3>2. CASE k # 1
      <4>1. k - 1 \in DOMAIN Tail(D) /\ Tail(D)[k - 1] = devices[i]
        BY <2>2, <3>2 DEF Asked
      <4>. QED  BY <4>1
    <3>. QED  BY <3>1, <3>2
  <2>. QED  BY <2>1, <2>2 DEF Lacks
<1>. HIDE DEF V
<1>4. VbdsOf(v)' = V
  BY DEF VbdsOf, V
<1>. QED  BY <1>1, <1>2, <1>3, <1>4 DEF Lacks

-----------------------------------------------------------------------------
(* The worker adds all that is asked for                                   *)

\* Where the worker is not at the devices there is nothing to count.
LEMMA NotAdding ==
  ASSUME thread'[Worker].pc \in Destroying \cup {"idle", "crashed", "report", "free"},
         thread'[Worker].rc # "NoError" \/ thread'[Worker].pc = "free"
  PROVE  Builds'
  BY DEF Builds, Destroying

\* A step of somebody else.
LEMMA BuildsStay ==
  ASSUME Control, Builds, Next, ~Work, UNCHANGED current, thread'[Worker] = thread[Worker]
  PROVE  Builds'
<1>. USE DEF Spared
<1>1. PICK j, D : j = current /\ D = thread[Worker].devices
  OBVIOUS
<1>2. ASSUME thread[Worker].pc # "idle"
      PROVE  /\ j \in Jobs /\ context[j].vm \in Vms /\ context'[j] = context[j]
             /\ Own(j)' => Own(j)
             /\ Own(j)' /\ power[context[j].vm] = "Halted" => Spared(j)
  <2>1. j \in Jobs /\ task[j] # Absent /\ context[j].vm \in Vms
    BY <1>1, <1>2, WorkerAt DEF Control, Accepted
  <2>2. \A c \in Callers : ~(thread[c].call = "define" /\ thread[c].job = j)
    BY <2>1, CallOf DEF Asking
  <2>. QED  BY <2>1, <2>2, NextStays, OtherSpares
<1>3. ASSUME thread[Worker].pc # "idle", Own(j)', Fresh(context[j].vm)
      PROVE  Fresh(context[j].vm)'
  <2>1. Spared(j)
    BY <1>2, <1>3 DEF Fresh
  <2>. QED  BY <1>2, <1>3, <2>1, FreshStays
<1>4. ASSUME thread[Worker].pc # "idle", Own(j)', NEW E, Lacks(j, E)
      PROVE  Lacks(j, E)'
  <2>1. Spared(j)
    BY <1>2, <1>4 DEF Lacks
  <2>. QED  BY <1>2, <1>4, <2>1, LacksStays
<1>5. PICK T : T = Tail(D)
  OBVIOUS
<1>. DEFINE r == thread[Worker]
<1>6. Own(current)' => Own(j)'
  BY <1>1 DEF Own
<1>7. r.pc \in {"announce", "find", "provision"} /\ Own(current)' => Fresh(context[current].vm)'
  <2>. SUFFICES ASSUME r.pc \in {"announce", "find", "provision"}, Own(current)'
                PROVE  Fresh(context[current].vm)'
    OBVIOUS
  <2>1. Fresh(context[j].vm)
    BY <1>1, <1>2, <1>6 DEF Builds
  <2>2. Fresh(context[j].vm)'
    BY <1>3, <1>6, <2>1
  <2>. QED  BY <1>1, <2>2 DEF Fresh, VbdsOf
<1>8. r.pc \in {"modify", "device", "attach"} /\ Own(current)' =>
         Lacks(current, thread[Worker].devices)'
  <2>. SUFFICES ASSUME r.pc \in {"modify", "device", "attach"}, Own(current)'
                PROVE  Lacks(current, thread[Worker].devices)'
    OBVIOUS
  <2>1. Lacks(j, D)
    BY <1>1, <1>2, <1>6 DEF Builds
  <2>2. Lacks(j, D)'
    BY <1>4, <1>6, <2>1
  <2>. QED  BY <1>1, <2>2 DEF Lacks
<1>9. r.pc = "name" /\ Own(current)' => Lacks(current, Tail(thread[Worker].devices))'
  <2>. SUFFICES ASSUME r.pc = "name", Own(current)'
                PROVE  Lacks(current, Tail(thread[Worker].devices))'
    OBVIOUS
  <2>1. Lacks(j, T)
    BY <1>1, <1>2, <1>5, <1>6 DEF Builds
  <2>2. Lacks(j, T)'
    BY <1>4, <1>6, <2>1
  <2>. QED  BY <1>1, <1>5, <2>2 DEF Lacks
<1>10. r.pc = "report" /\ r.rc = "NoError" /\ Own(current)' => Lacks(current, <<>>)'
  <2>. SUFFICES ASSUME r.pc = "report", r.rc = "NoError", Own(current)'
                PROVE  Lacks(current, <<>>)'
    OBVIOUS
  <2>1. Lacks(j, <<>>)
    BY <1>1, <1>2, <1>6 DEF Builds
  <2>2. Lacks(j, <<>>)'
    BY <1>4, <1>6, <2>1
  <2>. QED  BY <1>1, <2>2 DEF Lacks
<1>11. /\ r.pc \in {"announce", "find", "provision", "modify"} =>
            r.devices = context'[current].devices
       /\ r.pc = "provision" => context'[current].provision
       /\ r.pc = "attach" => /\ Head(r.devices).type \in Drives
                             /\ Head(r.devices).type = "disk" => r.vdi = Head(r.devices).vdi
       /\ r.rc = "NoError" => r.pc \in {"report", "free"}
  BY <1>1, <1>2 DEF Builds
<1>. QED  BY <1>7, <1>8, <1>9, <1>10, <1>11 DEF Builds

\* A failure is not a success.
LEMMA FailsAdding ==
  ASSUME Control, Fails(Worker), thread[Worker].rc # "NoError"
  PROVE  Builds'
<1>1. Went(Worker, FailPlace(Worker), FALSE) /\ FailPlace(Worker) \in {"list", "report"}
  <2>1. FailPlace(Worker) \in {"list", "report"}
    BY DEF FailPlace
  <2>2. Move(Worker, FailPlace(Worker), FALSE)
    BY DEF Fails, FailPlace
  <2>. QED  BY <2>1, <2>2, TypeParts, WorkerAt, MoveWent DEF Ready, Places
<1>2. thread'[Worker].pc \in {"list", "report"} /\ thread'[Worker].rc # "NoError"
  BY <1>1 DEF Went, Same
<1>. QED  BY <1>2, NotAdding DEF Destroying

\* A move of the worker.
LEMMA WorkerMoves ==
  ASSUME Control, NEW p \in Places \ {"idle"}, NEW c \in BOOLEAN, Move(Worker, p, c)
  PROVE  thread'[Worker].pc = p /\ Same(thread[Worker], thread'[Worker])
  BY TypeParts, WorkerAt, MoveWent DEF Ready, Went

\* The steps before the devices.
LEMMA TakeJobBuilds ==
  ASSUME Control, Waits, TakeJob
  PROVE  Builds'
<1>. DEFINE r == thread'[Worker]
<1>1. /\ r.pc \in {"announce", "free"} /\ r.rc = "Failed"
      /\ r.pc = "announce" => r.devices = context[current'].devices
      /\ current' \in Jobs /\ pending # <<>> /\ current' = Head(pending)
  BY TypeParts, TakeJobDoes DEF Control
<1>2. UNCHANGED <<context, world, touched>>
  BY DEF TakeJob, history
<1>3. ASSUME Own(current)'
      PROVE  Fresh(context[current].vm)'
  <2>1. 1 \in DOMAIN pending /\ current' = pending[1]
    BY <1>1 DEF Control, Accepted
  <2>2. Own(pending[1])
    BY <1>2, <1>3, <2>1 DEF Own
  <2>3. Fresh(context[pending[1]].vm)
    BY <2>1, <2>2 DEF Waits
  <2>. QED  BY <1>2, <2>1, <2>3 DEF Fresh, VbdsOf, world
<1>. QED  BY <1>1, <1>2, <1>3 DEF Builds

\* What leaves the machine and the job as they are.
LEMMA SameJob ==
  ASSUME UNCHANGED <<current, context, touched, world>>
  PROVE  /\ Own(current)' <=> Own(current)
         /\ Fresh(context[current].vm)' <=> Fresh(context[current].vm)
         /\ \A D : Lacks(current, D)' <=> Lacks(current, D)
  BY DEF Own, Fresh, Lacks, VbdsOf, world

\* The announcement of a job adds nothing to its machine.
LEMMA AnnounceBuilds ==
  ASSUME Control, Builds, Announce
  PROVE  Builds'
<1>1. At(Worker, "announce") /\ UNCHANGED <<current, context, touched, world>>
  BY DEF Announce, history, service
<1>2. thread'[Worker].pc = "find" /\ Same(thread[Worker], thread'[Worker])
  <2>1. PICK o \in ChangeState(task[current], "Running", FALSE, faults) : Move(Worker, "find", o.ok)
    BY DEF Announce
  <2>2. current \in Jobs /\ task[current] \in Tasks \ {Absent}
    BY <1>1, TypeParts, WorkerAt DEF At, JobsType
  <2>3. o.ok \in BOOLEAN
    BY <2>1, <2>2, TypeParts, ChangedType DEF States, JobsType
  <2>. QED  BY <2>1, <2>3, WorkerMoves DEF Places
<1>. QED  BY <1>1, <1>2, SameJob DEF Builds, Same, At

\* The machine that was found, if it is complete but for the devices, lacks them all.
LEMMA FindMachineBuilds ==
  ASSUME Control, Builds, FindMachine
  PROVE  Builds'
<1>. DEFINE r == thread'[Worker]
<1>1. At(Worker, "find") /\ UNCHANGED <<current, context, touched, world>>
  BY DEF FindMachine, history, service
<1>2. thread[Worker].rc # "NoError" /\ thread[Worker].devices = context[current].devices
      /\ (Own(current) => Fresh(context[current].vm)) /\ current \in Jobs
  BY <1>1, WorkerAt DEF Builds, At
<1>3. \/ r.pc = "report" /\ Same(thread[Worker], r)
      \/ /\ r.pc = IF context[current].provision THEN "provision" ELSE "device"
         /\ r.devices = thread[Worker].devices /\ r.rc = thread[Worker].rc
  <2>1. CASE Move(Worker, "report", FALSE)
    BY <2>1, WorkerMoves DEF Places
  <2>2. CASE thread' = [thread EXCEPT ![Worker].vm = context[current].vm,
               ![Worker].pc = IF context[current].provision THEN "provision" ELSE "device"]
    BY <2>2, WorkerAt, TypeParts DEF Ready, Locals
  <2>. QED  BY <2>1, <2>2 DEF FindMachine
<1>4. CASE r.pc = "report" /\ Same(thread[Worker], r)
  BY <1>2, <1>4, NotAdding DEF Same
<1>5. CASE /\ r.pc = IF context[current].provision THEN "provision" ELSE "device"
           /\ r.devices = thread[Worker].devices /\ r.rc = thread[Worker].rc
  <2>1. PICK j, D : j = current /\ D = r.devices
    OBVIOUS
  <2>2. ~context[j].provision /\ Own(j) => Lacks(j, D)
    BY <1>2, <1>5, <2>1, LacksAll
  <2>3. ~context[j].provision /\ Own(current)' => Lacks(current, thread[Worker].devices)'
    <3>1. ~context[j].provision /\ Own(current)' => Lacks(j, D)
      BY <1>1, <2>1, <2>2, SameJob
    <3>. QED  BY <1>1, <2>1, <3>1 DEF Lacks, VbdsOf, world
  <2>4. Own(current)' => Fresh(context[current].vm)'
    BY <1>1, <1>2, SameJob
  <2>. QED  BY <1>1, <1>2, <1>5, <2>1, <2>3, <2>4 DEF Builds
<1>. QED  BY <1>3, <1>4, <1>5

\* A slot that is free is free.
LEMMA NewVbd ==
  ASSUME NEW v \in Vms, FreeSlots(v) # {}, NEW d
  PROVE  <<v, Lowest(FreeSlots(v)), d>> \notin vbds
<1>1. Lowest(FreeSlots(v)) \in FreeSlots(v)
  BY LowestIs, SystemManagementAssumption DEF FreeSlots
<1>. QED  BY <1>1 DEF FreeSlots, VbdsOf

\* Once the disk of the template is there, the machine lacks the devices.
LEMMA ProvisionDisksBuilds ==
  ASSUME Control, Builds, ProvisionDisks
  PROVE  Builds'
<1>. DEFINE r == thread'[Worker]
<1>1. At(Worker, "provision") /\ UNCHANGED <<current, context, touched, power, vifs>>
  BY DEF ProvisionDisks, service
<1>2. /\ thread[Worker].rc # "NoError" /\ thread[Worker].devices = context[current].devices
      /\ (Own(current) => Fresh(context[current].vm)) /\ current \in Jobs
      /\ context[current].provision /\ thread[Worker].vm \in Vms
      /\ thread[Worker].vm = context[current].vm
  BY <1>1, WorkerAt DEF Builds, At, Working
<1>3. CASE Fails(Worker)
  BY <1>2, <1>3, FailsAdding
<1>4. CASE thread' = [thread EXCEPT ![Worker].rc = "unset", ![Worker].ok = FALSE,
                 ![Worker].pc = IF context[current].remove THEN "list" ELSE "report"]
  <2>1. r.rc = "unset" /\ r.pc \in {"list", "report"}
    BY <1>4, WorkerAt, TypeParts DEF Ready, Locals
  <2>. QED  BY <2>1, NotAdding DEF Destroying
<1>5. CASE /\ Plug(thread[Worker].vm, Lowest(Unused)) /\ FreeSlots(thread[Worker].vm) # {}
           /\ Move(Worker, "modify", TRUE)
  <2>1. r.pc = "modify" /\ Same(thread[Worker], r)
    BY <1>5, WorkerMoves DEF Places
  <2>2. PICK j, D, b : /\ j = current /\ D = context[current].devices
                       /\ b = <<thread[Worker].vm, Lowest(FreeSlots(thread[Worker].vm)),
                                 Lowest(Unused)>>
    OBVIOUS
  <2>3. vbds' = vbds \cup {b} /\ b[1] = context[j].vm
    BY <1>2, <1>5, <2>2 DEF Plug
  <2>4. Own(current)' => Fresh(context[j].vm)
    BY <1>1, <1>2, <2>2 DEF Own
  <2>5. Own(current)' => Lacks(j, D)'
    BY <1>1, <1>2, <2>2, <2>3, <2>4, LacksDevices
  <2>6. Own(current)' => Lacks(current, thread[Worker].devices)'
    BY <1>1, <1>2, <2>1, <2>2, <2>5 DEF Lacks, Same
  <2>. QED  BY <1>1, <1>2, <2>1, <2>6 DEF Builds, Same
<1>. QED  BY <1>3, <1>4, <1>5, RepliesType DEF ProvisionDisks

\* Processors and memory add no device.
LEMMA ModifyResourcesBuilds ==
  ASSUME Control, Builds, ModifyResources
  PROVE  Builds'
<1>1. At(Worker, "modify") /\ UNCHANGED <<current, context, touched, world>>
  BY DEF ModifyResources, history, service
<1>2. thread'[Worker].pc = "device" /\ Same(thread[Worker], thread'[Worker])
  <2>1. PICK c \in BOOLEAN : Move(Worker, "device", c)
    BY DEF ModifyResources
  <2>. QED  BY <2>1, WorkerMoves DEF Places
<1>3. PICK D : D = thread[Worker].devices
  OBVIOUS
<1>4. Own(current)' => Lacks(current, D)'
  BY <1>1, <1>3, SameJob DEF Builds, At
<1>5. Own(current)' => Lacks(current, thread[Worker].devices)'
  BY <1>2, <1>3, <1>4 DEF Lacks, Same
<1>. QED  BY <1>1, <1>2, <1>5 DEF Builds, Same, At

\* The steps that add a device.
LEMMA AllAddedBuilds ==
  ASSUME Control, Builds, AllAdded(Worker)
  PROVE  Builds'
<1>1. /\ At(Worker, "device") /\ thread[Worker].devices = <<>>
      /\ UNCHANGED <<current, context, touched, world>>
  BY DEF AllAdded, history, service
<1>2. thread'[Worker].pc = "report"
  BY WorkerAt, TypeParts DEF AllAdded, Ready, Locals
<1>3. Own(current)' => Lacks(current, <<>>)'
  BY <1>1, SameJob DEF Builds, At
<1>. QED  BY <1>2, <1>3 DEF Builds

\* What the worker adds a device to.
LEMMA AddingFor ==
  ASSUME Control, Builds, thread[Worker].pc \in {"device", "attach"}
  PROVE  /\ thread[Worker].rc # "NoError" /\ current \in Jobs
         /\ thread[Worker].devices \in Asked /\ context[current].devices \in Asked
         /\ thread[Worker].vm \in Vms /\ thread[Worker].vm = context[current].vm
         /\ vifs[thread[Worker].vm] \in Nat
         /\ Own(current) => Lacks(current, thread[Worker].devices)
<1>1. /\ thread[Worker] \in Locals /\ current \in Jobs /\ thread[Worker].vm \in Vms
      /\ thread[Worker].vm # NoVm
  BY WorkerAt DEF Adding
<1>2. thread[Worker].vm = context[current].vm
  BY <1>1, WorkerAt DEF Working
<1>3. thread[Worker].devices \in Asked /\ context[current].devices \in Asked
      /\ vifs[thread[Worker].vm] \in Nat
  BY <1>1, TypeParts DEF Locals, JobsType, Ready, Order, WorldType
<1>. QED  BY <1>1, <1>2, <1>3 DEF Builds

\* With a network interface that was made the machine lacks one device less.
LEMMA CreateVifBuilds ==
  ASSUME Control, Builds, CreateVif(Worker)
  PROVE  Builds'
<1>. DEFINE r == thread'[Worker]
            v == thread[Worker].vm
<1>1. /\ At(Worker, "device") /\ thread[Worker].devices # <<>>
      /\ Head(thread[Worker].devices).type \in Nics
      /\ UNCHANGED <<current, context, touched, power, vbds>>
  BY DEF CreateVif, history, service, Device, Nics
<1>2. /\ thread[Worker].rc # "NoError" /\ current \in Jobs
      /\ thread[Worker].devices \in Asked /\ context[current].devices \in Asked
      /\ v \in Vms /\ v = context[current].vm /\ vifs[v] \in Nat
      /\ Own(current) => Lacks(current, thread[Worker].devices)
  BY <1>1, AddingFor DEF At
<1>3. CASE Fails(Worker)
  BY <1>2, <1>3, FailsAdding
<1>4. CASE Move(Worker, "name", TRUE) /\ vifs' = [vifs EXCEPT ![v] = @ + 1]
  <2>1. r.pc = "name" /\ Same(thread[Worker], r)
    BY <1>4, WorkerMoves DEF Places
  <2>2. PICK j, D, T : j = current /\ D = thread[Worker].devices /\ T = Tail(thread[Worker].devices)
    OBVIOUS
  <2>3. vifs'[context[j].vm] = vifs[context[j].vm] + 1
    BY <1>2, <1>4, <2>2, TypeParts DEF Ready, Order, WorldType
  <2>4. Own(current)' => Lacks(j, D)
    BY <1>1, <1>2, <2>2 DEF Own
  <2>5. Own(current)' => Lacks(j, Tail(D))'
    BY <1>1, <1>2, <2>2, <2>3, <2>4, LacksVif
  <2>6. Own(current)' => Lacks(current, Tail(thread[Worker].devices))'
    BY <1>1, <2>1, <2>2, <2>5 DEF Lacks, Same
  <2>. QED  BY <1>2, <2>1, <2>6 DEF Builds, Same
<1>. QED  BY <1>3, <1>4, RepliesType DEF CreateVif

\* A disk that was found is not there yet, but it is the one that was asked for.
LEMMA FindDiskBuilds ==
  ASSUME Control, Builds, FindDisk(Worker)
  PROVE  Builds'
<1>. DEFINE r == thread'[Worker]
            q == thread[Worker]
<1>1. /\ At(Worker, "device") /\ q.devices # <<>>
      /\ UNCHANGED <<current, context, touched, power, vbds, vifs>>
  BY DEF FindDisk, history, service
<1>2. /\ q.rc # "NoError" /\ current \in Jobs /\ q.devices \in Asked
      /\ Own(current) => Lacks(current, q.devices)
  BY <1>1, AddingFor DEF At
<1>3. CASE Fails(Worker)
  BY <1>2, <1>3, FailsAdding
<1>4. ASSUME NEW d, thread' = [thread EXCEPT ![Worker].pc = "attach", ![Worker].vdi = d],
             Head(q.devices).type \in Drives,
             Head(q.devices).type = "disk" => d = Head(q.devices).vdi
      PROVE  Builds'
  <2>1. r.pc = "attach" /\ r.vdi = d /\ r.devices = q.devices /\ r.rc = q.rc
    BY <1>4, WorkerAt, TypeParts DEF Ready, Locals
  <2>2. Own(current)' => Lacks(current, thread[Worker].devices)'
    BY <1>1, <1>2, <2>1 DEF Own, Lacks, VbdsOf
  <2>. QED  BY <1>1, <1>2, <1>4, <2>1, <2>2 DEF Builds
<1>5. CASE Head(q.devices).type \in {"cd", "unplaced"}
  <2>1. thread' = [thread EXCEPT ![Worker].pc = "attach", ![Worker].vdi = NoDisk]
    BY <1>5 DEF FindDisk, Device
  <2>. QED  BY <1>4, <1>5, <2>1 DEF Drives
<1>6. CASE Head(q.devices).type = "disk"
  <2>1. \/ thread' = [thread EXCEPT ![Worker].pc = "attach", ![Worker].vdi = Head(q.devices).vdi]
        \/ Fails(Worker)
    BY <1>6 DEF FindDisk, Device
  <2>. QED  BY <1>3, <1>4, <1>6, <2>1 DEF Drives
<1>7. CASE Head(q.devices).type = "new"
  <2>1. \/ thread' = [thread EXCEPT ![Worker].pc = "attach", ![Worker].vdi = Lowest(Unused)]
        \/ Fails(Worker)
    BY <1>7 DEF FindDisk, Device
  <2>. QED  BY <1>3, <1>4, <1>7, <2>1 DEF Drives
<1>. QED  BY <1>5, <1>6, <1>7 DEF FindDisk, Device

\* With a disk that was attached the machine lacks one device less.
LEMMA CreateVbdBuilds ==
  ASSUME Control, Builds, CreateVbd(Worker), IsFiniteSet(vbds)
  PROVE  Builds'
<1>. DEFINE r == thread'[Worker]
            q == thread[Worker]
<1>1. At(Worker, "attach") /\ UNCHANGED <<current, context, touched, power, vifs>>
  BY DEF CreateVbd, service
<1>2. /\ q.rc # "NoError" /\ current \in Jobs /\ q.devices \in Asked
      /\ context[current].devices \in Asked /\ q.vm \in Vms /\ q.vm = context[current].vm
      /\ (Own(current) => Lacks(current, q.devices))
      /\ Head(q.devices).type \in Drives
      /\ (Head(q.devices).type = "disk" => q.vdi = Head(q.devices).vdi)
  BY <1>1, AddingFor DEF At, Builds
<1>3. CASE Fails(Worker)
  BY <1>2, <1>3, FailsAdding
<1>4. CASE Move(Worker, "name", TRUE) /\ CanPlug(Worker) /\ Plug(q.vm, q.vdi)
  <2>1. r.pc = "name" /\ Same(q, r)
    BY <1>4, WorkerMoves DEF Places
  <2>2. PICK j, D, T, b : /\ j = current /\ D = q.devices /\ T = Tail(q.devices)
                          /\ b = <<q.vm, Lowest(FreeSlots(q.vm)), q.vdi>>
    OBVIOUS
  <2>3. /\ vbds' = vbds \cup {b} /\ b[1] = context[j].vm /\ b \notin vbds
        /\ Head(D).type = "disk" => b[3] = Head(D).vdi
    BY <1>2, <1>4, <2>2, NewVbd DEF Plug, CanPlug
  <2>4. D # <<>>
    BY <1>1, <2>2, TypeParts, WorkerAt DEF Ready, Steady, Sound, At
  <2>5. Own(current)' => Lacks(j, D)
    BY <1>1, <1>2, <2>2 DEF Own
  <2>6. Own(current)' => Lacks(j, Tail(D))'
    BY <1>1, <1>2, <2>2, <2>3, <2>4, <2>5, LacksVbd
  <2>7. Own(current)' => Lacks(current, Tail(thread[Worker].devices))'
    BY <1>1, <2>1, <2>2, <2>6 DEF Lacks, Same
  <2>. QED  BY <1>2, <2>1, <2>7 DEF Builds, Same
<1>. QED  BY <1>3, <1>4, RepliesType DEF CreateVbd

\* The name of a device adds nothing.
LEMMA NameDeviceBuilds ==
  ASSUME Control, Builds, NameDevice(Worker)
  PROVE  Builds'
<1>. DEFINE r == thread'[Worker]
            q == thread[Worker]
<1>1. At(Worker, "name") /\ UNCHANGED <<current, context, touched, world>>
  BY DEF NameDevice, history, service
<1>2. q.rc # "NoError" /\ (Own(current) => Lacks(current, Tail(q.devices)))
  BY <1>1 DEF Builds, At
<1>3. CASE Move(Worker, "crashed", FALSE)
  <2>1. r.pc = "crashed" /\ Same(q, r)
    BY <1>3, WorkerMoves DEF Places
  <2>. QED  BY <1>2, <2>1, NotAdding DEF Same
<1>4. CASE ~Move(Worker, "crashed", FALSE)
  <2>1. r.pc = "device" /\ r.devices = Tail(q.devices) /\ r.rc = q.rc
    <3>1. q \in Locals /\ DOMAIN thread = Threads /\ Worker \in Threads
      BY WorkerAt, TypeParts DEF Ready
    <3>2. CASE thread' = [thread EXCEPT ![Worker].pc = "device", ![Worker].devices = Tail(@)]
      <4>1. r = [q EXCEPT !.pc = "device", !.devices = Tail(@)]
        BY <3>1, <3>2
      <4>. QED  BY <3>1, <4>1 DEF Locals
    <3>3. CASE thread' = [[thread EXCEPT ![Worker].pc = "device", ![Worker].devices = Tail(@)]
                            EXCEPT ![Worker].ok = FALSE]
      <4>1. r = [q EXCEPT !.pc = "device", !.devices = Tail(@), !.ok = FALSE]
        BY <3>1, <3>3
      <4>. QED  BY <3>1, <4>1 DEF Locals
    <3>. QED  BY <1>4, <3>2, <3>3 DEF NameDevice
  <2>2. PICK T : T = Tail(q.devices)
    OBVIOUS
  <2>3. Own(current)' => Lacks(current, T)'
    BY <1>1, <1>2, <2>2, SameJob
  <2>4. Own(current)' => Lacks(current, thread[Worker].devices)'
    BY <2>1, <2>2, <2>3 DEF Lacks
  <2>. QED  BY <1>2, <2>1, <2>4 DEF Builds
<1>. QED  BY <1>3, <1>4

\* A machine that is destroyed gets no devices.
LEMMA DestructionBuilds ==
  ASSUME Control, Builds, Destruction(Worker)
  PROVE  Builds'
<1>. DEFINE r == thread'[Worker]
            q == thread[Worker]
<1>1. q \in Locals /\ DOMAIN thread = Threads /\ Worker \in Threads /\ q.call = "none"
  BY WorkerAt, TypeParts DEF Ready
<1>2. q.pc \in Destroying
  BY DEF Destruction, ListVbds, LookAtDisk, DestroyDisk, DestroyVbd, DestroyVm, At, Destroying
<1>3. q.vm \in Vms /\ q.rc # "NoError"
  BY <1>2, WorkerAt DEF Builds, Destroying
<1>4. r.pc \in Destroying \cup {"report"}
  <2>1. CASE ListVbds(Worker)
    BY <1>1, <2>1, TypeParts, ListVbdsDoes DEF Leads, Destroying
  <2>2. CASE LookAtDisk(Worker) \/ DestroyDisk(Worker)
    BY <1>1, <2>2, TypeParts, LookAtDiskDoes, DestroyDiskDoes DEF Leads, Destroying
  <2>3. CASE DestroyVbd(Worker) \/ DestroyVm(Worker)
    BY <1>1, <1>3, <2>3, TypeParts, DestroyVbdDoes, DestroyVmDoes DEF Leads, Destroying
  <2>. QED  BY <2>1, <2>2, <2>3 DEF Destruction
<1>5. r.rc = q.rc
  <2>1. CASE ListVbds(Worker)
    <3>1. CASE Move(Worker, "destroy_vm", TRUE)
      BY <3>1, WorkerMoves DEF Places, Same
    <3>2. CASE ~Move(Worker, "destroy_vm", TRUE)
      <4>1. PICK p, L : thread' = [thread EXCEPT ![Worker].pc = p, ![Worker].left = L,
                                                 ![Worker].ok = TRUE]
        BY <2>1, <3>2 DEF ListVbds
      <4>. QED  BY <1>1, <4>1 DEF Locals
    <3>. QED  BY <3>1, <3>2
  <2>2. CASE LookAtDisk(Worker)
    <3>1. PICK b : \/ thread' = [[thread EXCEPT ![Worker].vbd = b, ![Worker].seen = UsersOf(b[3])]
                                   EXCEPT ![Worker].pc = "destroy_vdi"]
                   \/ thread' = [[thread EXCEPT ![Worker].vbd = b, ![Worker].seen = UsersOf(b[3])]
                                   EXCEPT ![Worker].pc = "destroy_vbd"]
                   \/ thread' = [[thread EXCEPT ![Worker].vbd = b, ![Worker].seen = UsersOf(b[3])]
                                   EXCEPT ![Worker].pc = "destroy_vbd", ![Worker].ok = FALSE]
      BY <2>2 DEF LookAtDisk
    <3>. QED  BY <1>1, <3>1 DEF Locals
  <2>3. CASE DestroyDisk(Worker)
    BY <2>3, WorkerMoves DEF DestroyDisk, Places, Same
  <2>4. CASE DestroyVbd(Worker)
    BY <1>1, <2>4 DEF DestroyVbd, Locals
  <2>5. CASE DestroyVm(Worker)
    <3>1. PICK c \in BOOLEAN : Move(Worker, "report", c)
      BY <2>5, RepliesType DEF DestroyVm, Answered
    <3>. QED  BY <3>1, WorkerMoves DEF Places, Same
  <2>. QED  BY <2>1, <2>2, <2>3, <2>4, <2>5 DEF Destruction
<1>. QED  BY <1>3, <1>4, <1>5, NotAdding

\* What the report of a job does to its task.
LEMMA ReportWrites ==
  ASSUME Control, Report
  PROVE  /\ current \in Jobs /\ thread'[Worker].pc \in {"free", "crashed"}
         /\ thread'[Worker].pc = "crashed" => thread[Worker].rc = "unset" /\ task' = task
         /\ Same(thread[Worker], thread'[Worker])
         /\ \A j \in Jobs \ {current} : task'[j] = task[j]
         /\ \/ task'[current] = task[current]
            \/ /\ Is(task'[current],
                     IF thread[Worker].rc # "NoError" THEN "Exception" ELSE "Completed")
               /\ thread'[Worker].pc = "free"
<1>. USE TypeParts
<1>1. At(Worker, "report")
  BY DEF Report
<1>2. current \in Jobs /\ task[current] \in Tasks \ {Absent} /\ faults \in BOOLEAN
      /\ task \in [Jobs -> Tasks]
  BY <1>1, WorkerAt DEF At, JobsType
<1>3. CASE thread[Worker].rc = "unset" /\ Move(Worker, "crashed", FALSE) /\ UNCHANGED task
  BY <1>2, <1>3, WorkerMoves DEF Places
<1>4. CASE ~(thread[Worker].rc = "unset" /\ Move(Worker, "crashed", FALSE) /\ UNCHANGED task)
  <2>. DEFINE st == IF thread[Worker].rc # "NoError" THEN "Exception" ELSE "Completed"
  <2>1. \E err \in BOOLEAN : \E o \in ChangeState(task[current], st, err, faults) :
          Move(Worker, "free", o.ok) /\ task' = [task EXCEPT ![current] = o.task]
    BY <1>4 DEF Report
  <2>2. PICK err \in BOOLEAN : \E o \in ChangeState(task[current], st, err, faults) :
          Move(Worker, "free", o.ok) /\ task' = [task EXCEPT ![current] = o.task]
    BY <2>1
  <2>3. PICK o \in ChangeState(task[current], st, err, faults) :
          Move(Worker, "free", o.ok) /\ task' = [task EXCEPT ![current] = o.task]
    BY <2>2
  <2>4. /\ o.ok \in BOOLEAN
        /\ o.task = task[current] \/ o.task = [state |-> st, error |-> err]
    BY <1>2, <2>3, ChangedType DEF States
  <2>5. thread'[Worker].pc = "free" /\ Same(thread[Worker], thread'[Worker])
    BY <2>3, <2>4, WorkerMoves DEF Places
  <2>6. task'[current] = o.task /\ \A j \in Jobs \ {current} : task'[j] = task[j]
    BY <1>2, <2>3
  <2>7. Is([state |-> st, error |-> err], st)
    BY DEF Is, Recorded, States
  <2>. QED  BY <1>2, <2>4, <2>5, <2>6, <2>7
<1>. QED  BY <1>3, <1>4

\* Every step keeps what the worker knows of the machine that it builds.
LEMMA BuildsKept ==
  ASSUME Control, Waits, Builds, Next, IsFiniteSet(vbds)
  PROVE  Builds'
<1>1. CASE Work
  <2>1. CASE TakeJob \/ Announce \/ FindMachine \/ ProvisionDisks \/ ModifyResources
    BY <2>1, TakeJobBuilds, AnnounceBuilds, FindMachineBuilds, ProvisionDisksBuilds,
       ModifyResourcesBuilds
  <2>2. CASE Devices(Worker)
    BY <2>2, AllAddedBuilds, CreateVifBuilds, FindDiskBuilds, CreateVbdBuilds, NameDeviceBuilds
       DEF Devices
  <2>3. CASE Destruction(Worker)
    BY <2>3, DestructionBuilds
  <2>4. CASE Report
    <3>1. /\ thread'[Worker].pc \in {"free", "crashed"}
          /\ thread'[Worker].pc = "crashed" => thread'[Worker].rc = "unset"
      BY <2>4, ReportWrites DEF Same
    <3>. QED  BY <3>1, NotAdding
  <2>5. CASE FreeJob
    <3>1. thread'[Worker].pc = "idle" /\ thread'[Worker].rc = "Failed"
      BY <2>5, TypeParts, FreeJobDoes DEF Idle
    <3>. QED  BY <3>1, NotAdding
  <2>. QED  BY <1>1, <2>1, <2>2, <2>3, <2>4, <2>5 DEF Work
<1>2. CASE ~Work
  <2>1. thread'[Worker] = thread[Worker] /\ UNCHANGED current
    <3>1. ASSUME NEW c \in Callers, Serve(c) \/ Request(c)
          PROVE  thread'[Worker] = thread[Worker] /\ UNCHANGED current
      BY <3>1, ServeOnly, RequestOnly, WorkerIs DEF Only, service
    <3>2. CASE Others
      BY <3>2, OthersOnly DEF service
    <3>. QED  BY <1>2, <3>1, <3>2 DEF Next
  <2>. QED  BY <1>2, <2>1, BuildsStay
<1>. QED  BY <1>1, <1>2

-----------------------------------------------------------------------------
(* What a task that has ended says                                         *)

\* Only the report of a job makes its task end.
LEMMA EndsBy ==
  ASSUME Control, Next, NEW j \in Jobs, NEW st \in Final, Is(task'[j], st)
  PROVE  \/ Is(task[j], st)
         \/ /\ Report /\ j = current /\ thread'[Worker].pc = "free"
            /\ st = IF thread[Worker].rc # "NoError" THEN "Exception" ELSE "Completed"
<1>. USE TypeParts
<1>1. ASSUME NEW c \in Callers, Serve(c)
      PROVE  Is(task[j], st)
  <2>1. CASE CreateMachine(c) \/ ReadCreated(c) \/ SetUp(c) \/ ReadPowerState(c) \/ RemoveVbd(c)
    BY <2>1 DEF CreateMachine, ReadCreated, SetUp, ReadPowerState, RemoveVbd
  <2>2. CASE SubmitJob(c)
    <3>1. task' = task \/ task' = [task EXCEPT ![thread[c].job] = NewTask]
      BY <2>2 DEF SubmitJob
    <3>2. task'[j] = task[j] \/ task'[j] = NewTask
      BY <3>1 DEF JobsType
    <3>. QED  BY <3>2 DEF NewTask, Is, Final
  <2>3. CASE Devices(c) \/ Destruction(c)
    BY <2>3, CallOf, SharedLeaves
  <2>. QED  BY <1>1, <2>1, <2>2, <2>3 DEF Serve
<1>2. CASE Work /\ ~Report
  <2>1. CASE Announce
    <3>1. PICK o \in ChangeState(task[current], "Running", FALSE, faults) :
            task' = [task EXCEPT ![current] = o.task]
      BY <2>1 DEF Announce
    <3>2. At(Worker, "announce")
      BY <2>1 DEF Announce
    <3>3. current \in Jobs /\ task[current] \in Tasks \ {Absent}
      BY <3>2, WorkerAt DEF At, JobsType
    <3>4. o.task = task[current] \/ o.task = [state |-> "Running", error |-> FALSE]
      BY <3>1, <3>3, ChangedType DEF States, JobsType
    <3>5. task'[j] = task[j] \/ task'[j] = [state |-> "Running", error |-> FALSE]
      BY <3>1, <3>3, <3>4 DEF JobsType
    <3>. QED  BY <3>5 DEF Is, Final
  <2>2. CASE TakeJob \/ FindMachine \/ ProvisionDisks \/ ModifyResources \/ FreeJob
    BY <2>2 DEF TakeJob, FindMachine, ProvisionDisks, ModifyResources, FreeJob
  <2>3. CASE Devices(Worker) \/ Destruction(Worker)
    BY <2>3, WorkerAt, SharedLeaves
  <2>. QED  BY <1>2, <2>1, <2>2, <2>3 DEF Work
<1>3. CASE Report
  <2>1. CASE j # current
    BY <1>3, <2>1, ReportWrites
  <2>2. CASE j = current
    BY <1>3, <2>2, ReportWrites DEF Is
  <2>. QED  BY <2>1, <2>2
<1>4. ASSUME NEW c \in Callers, Request(c)
      PROVE  Is(task[j], st)
  BY <1>4, RequestOnly
<1>5. CASE Others
  <2>1. task' = task \/ \E i \in Jobs : task' = [task EXCEPT ![i] = Gone]
    BY <1>5 DEF Others, KillJob, Destroy, StartVm, StopVm, Attach
  <2>2. task'[j] = task[j] \/ task'[j] = Gone
    BY <2>1 DEF JobsType
  <2>. QED  BY <2>2, JobTaskAssumption DEF Is
<1>. QED  BY <1>1, <1>2, <1>3, <1>4, <1>5 DEF Next

\* A job is taken and finished, or goes on.
LEMMA JobMoves ==
  ASSUME Control, Next
  PROVE  \/ /\ current' = current /\ served' = served
            /\ thread'[Worker] = thread[Worker] \/ thread[Worker].pc \notin {"idle", "free"}
         \/ TakeJob \/ FreeJob
<1>1. ASSUME NEW c \in Callers, Serve(c) \/ Request(c)
      PROVE  current' = current /\ served' = served /\ thread'[Worker] = thread[Worker]
  BY <1>1, ServeOnly, RequestOnly, WorkerIs DEF service, Only
<1>2. CASE Work
  <2>1. CASE Announce \/ FindMachine \/ ProvisionDisks
    BY <2>1 DEF Announce, FindMachine, ProvisionDisks, service, At
  <2>2. CASE ModifyResources \/ Report
    BY <2>2 DEF ModifyResources, Report, service, At
  <2>3. CASE Devices(Worker)
    <3>1. thread[Worker].pc \in Adding
      BY <2>3 DEF Devices, AllAdded, CreateVif, FindDisk, CreateVbd, NameDevice, At, Adding
    <3>. QED  BY <1>2, <2>3, <3>1, WorkerIs, SharedLeaves DEF service, Adding
  <2>4. CASE Destruction(Worker)
    <3>1. thread[Worker].pc \in Destroying
      BY <2>4 DEF Destruction, ListVbds, LookAtDisk, DestroyDisk, DestroyVbd, DestroyVm, At,
                  Destroying
    <3>. QED  BY <1>2, <2>4, <3>1, WorkerIs, SharedLeaves DEF service, Destroying
  <2>. QED  BY <1>2, <2>1, <2>2, <2>3, <2>4 DEF Work
<1>3. CASE Others
  BY <1>3, OthersOnly DEF service
<1>. QED  BY <1>1, <1>2, <1>3 DEF Next

\* A task that has ended stays the task of a job that is over.
LEMMA ReportedKept ==
  ASSUME Control, Reported, Next
  PROVE  Reported'
<1>. SUFFICES ASSUME NEW j \in Jobs, NEW st \in Final, Is(task'[j], st)
              PROVE  j \in served' \/ (j = current' /\ thread'[Worker].pc = "free")
  BY DEF Reported, At, Final
<1>1. CASE /\ Report /\ j = current /\ thread'[Worker].pc = "free"
  BY <1>1 DEF Report, service
<1>2. CASE Is(task[j], st)
  <2>1. j \in served \/ (j = current /\ At(Worker, "free"))
    BY <1>2 DEF Reported, Final
  <2>2. CASE FreeJob
    BY <2>1, <2>2 DEF FreeJob, Service!Finish
  <2>3. CASE TakeJob
    BY <2>1, <2>3 DEF TakeJob, Service!Take, At
  <2>4. CASE ~FreeJob /\ ~TakeJob
    BY <2>1, <2>4, JobMoves DEF At
  <2>. QED  BY <2>2, <2>3, <2>4
<1>. QED  BY <1>1, <1>2, EndsBy

\* A job that is over never comes back.
LEMMA QueueKept ==
  ASSUME Control, Queue, Next
  PROVE  Queue'
<1>1. /\ pending \in Seq(Jobs) /\ \A n \in DOMAIN pending : pending[n] \notin served
      /\ \A n \in DOMAIN pending : pending[n] # current
      /\ served \subseteq Jobs /\ current \notin served
  BY TypeParts DEF Queue, Control, Accepted, JobsType
<1>2. CASE FreeJob
  BY <1>1, <1>2, SystemManagementAssumption DEF FreeJob, Service!Finish, Queue
<1>3. CASE TakeJob
  <2>1. /\ pending # <<>> /\ current' = Head(pending) /\ pending' = Tail(pending)
        /\ served' = served
    BY <1>3 DEF TakeJob, Service!Take
  <2>2. 1 \in DOMAIN pending /\ current' = pending[1]
        /\ \A n \in DOMAIN pending' : n + 1 \in DOMAIN pending /\ pending'[n] = pending[n + 1]
    BY <1>1, <2>1
  <2>. QED  BY <1>1, <2>1, <2>2 DEF Queue
<1>4. CASE current' = current /\ served' = served
  <2>1. CASE pending' = pending
    BY <1>1, <1>4, <2>1 DEF Queue
  <2>2. CASE pending # <<>> /\ pending' = Tail(pending)
    <3>1. \A n \in DOMAIN pending' : n + 1 \in DOMAIN pending /\ pending'[n] = pending[n + 1]
      BY <1>1, <2>2
    <3>. QED  BY <1>1, <1>4, <3>1 DEF Queue
  <2>3. ASSUME NEW c \in Callers, pending' = Append(pending, thread[c].job),
               thread[c].job \notin Service!Waiting \cup {current} \cup served
        PROVE  Queue'
    <3>1. \A n \in DOMAIN pending' : pending'[n] = thread[c].job \/
                                     (n \in DOMAIN pending /\ pending'[n] = pending[n])
      BY <1>1, <2>3
    <3>. QED  BY <1>1, <1>4, <2>3, <3>1 DEF Queue
  <2>. QED  BY <2>1, <2>2, <2>3, QueueMoves
<1>. QED  BY <1>2, <1>3, <1>4, JobMoves

\* Of the machine of a job that says Completed nobody takes anything away.
LEMMA DoneKept ==
  ASSUME Control, Builds, Reported, Queue, Delivered, Next
  PROVE  Delivered'
<1>. SUFFICES ASSUME NEW j \in Jobs, Is(task'[j], "Completed"), Own(j)'
              PROVE  Lacks(j, <<>>)'
  BY DEF Delivered
<1>1. CASE Is(task[j], "Completed")
  <2>1. task[j] # Absent /\ context[j].vm \in Vms
    BY <1>1, JobTaskAssumption DEF Is, Control, Accepted
  <2>2. context'[j] = context[j] /\ Own(j)
    BY <2>1, NextStays
  <2>3. Lacks(j, <<>>)
    BY <1>1, <2>2 DEF Delivered
  <2>4. CASE Work /\ j = current
    <3>1. At(Worker, "free")
      BY <1>1, <2>4 DEF Reported, Queue
    <3>2. FreeJob
      BY <2>4, <3>1 DEF Work, TakeJob, Announce, FindMachine, ProvisionDisks, ModifyResources,
         Devices, AllAdded, CreateVif, FindDisk, CreateVbd, NameDevice, Destruction, ListVbds,
         LookAtDisk, DestroyDisk, DestroyVbd, DestroyVm, Report, At
    <3>3. Spared(j)
      BY <3>2, IdleSpares DEF FreeJob
    <3>. QED  BY <2>2, <2>3, <3>3, LacksStays
  <2>5. CASE ~(Work /\ j = current)
    <3>1. ASSUME NEW c \in Callers
          PROVE  ~(thread[c].call = "define" /\ thread[c].job = j)
      BY <2>1, CallOf DEF Asking
    <3>2. power[context[j].vm] = "Halted"
      BY <2>3 DEF Lacks
    <3>3. Spared(j)
      BY <2>1, <2>5, <3>1, <3>2, OtherSpares
    <3>. QED  BY <2>2, <2>3, <3>3, LacksStays
  <2>. QED  BY <2>4, <2>5
<1>2. CASE ~Is(task[j], "Completed")
  <2>1. Report /\ j = current /\ thread[Worker].rc = "NoError"
    BY <1>2, EndsBy DEF Final
  <2>2. At(Worker, "report") /\ UNCHANGED <<context, world, history>>
    BY <2>1 DEF Report
  <2>3. Own(j)
    BY <2>2 DEF Own, history
  <2>4. Lacks(j, <<>>)
    BY <2>1, <2>2, <2>3 DEF Builds, At
  <2>5. Spared(j)
    BY <2>2, IdleSpares
  <2>. QED  BY <2>2, <2>4, <2>5, LacksStays
<1>. QED  BY <1>1, <1>2

\* What is said of the machine of a definition, while it is made and afterwards.
Made == IInv /\ Control /\ Building /\ Reported /\ Queue /\ Delivered

\* Nothing is made at first.
LEMMA InitMade == Init => Made
<1>. SUFFICES ASSUME Init PROVE Made
  OBVIOUS
<1>1. IInv /\ Control
  BY InitHolds, InitControl
<1>2. /\ \A t \in Threads : thread[t] = Idle
      /\ pending = <<>> /\ current = NoJob /\ served = {}
      /\ \A j \in Jobs : task[j] = Absent
  BY DEF Init, Service!Init
<1>3. Idle.pc = "idle" /\ Idle.call = "none" /\ Idle.rc = "Failed"
  BY DEF Idle
<1>4. Waits
  BY <1>2, <1>3 DEF Waits, Threads
<1>5. Builds
  BY <1>2, <1>3, WorkerIs DEF Builds
<1>6. Reported /\ Delivered
  BY <1>2, JobTaskAssumption DEF Reported, Delivered, Is
<1>7. Queue
  BY <1>2 DEF Queue
<1>. QED  BY <1>1, <1>4, <1>5, <1>6, <1>7 DEF Made, Building

\* Every step keeps what is said of the machines that are made.
LEMMA NextMade == Made /\ [Next]_vars => Made'
<1>. SUFFICES ASSUME Made, [Next]_vars PROVE Made'
  OBVIOUS
<1>1. IInv' /\ Control'
  BY NextHolds, NextControl DEF Made
<1>2. CASE UNCHANGED vars
  <2>1. Building' /\ Reported'
    BY <1>2 DEF vars, service, world, history, Made, Building, Waits, Builds, Reported, At, Own,
                Fresh, Lacks, VbdsOf
  <2>2. Queue' /\ Delivered'
    BY <1>2 DEF vars, service, world, history, Made, Queue, Delivered, Own, Lacks, VbdsOf
  <2>. QED  BY <1>1, <2>1, <2>2 DEF Made
<1>3. CASE Next
  <2>1. IsFiniteSet(vbds)
    BY DEF Made, IInv, Shape
  <2>. QED  BY <1>1, <1>3, <2>1, WaitsKept, BuildsKept, ReportedKept, QueueKept, DoneKept
               DEF Made, Building
<1>. QED  BY <1>2, <1>3

\* A machine that lacks none of the devices that were asked for has them all.
LEMMA MadeWhole == Made => CompletedIsWhole
<1>. SUFFICES ASSUME Made, NEW j \in Jobs, Is(task[j], "Completed"), Own(j)
              PROVE  LET v == context[j].vm  devices == context[j].devices IN
                       /\ power[v] = "Halted"
                       /\ vifs[v] = CountOf(devices, Nics)
                       /\ Cardinality(VbdsOf(v)) = CountOf(devices, Drives)
                                                     + (IF context[j].provision THEN 1 ELSE 0)
                       /\ \A i \in DOMAIN devices : devices[i].type = "disk" =>
                            \E b \in VbdsOf(v) : b[3] = devices[i].vdi
  BY DEF CompletedIsWhole, Own, Nics, Drives
<1>1. Lacks(j, <<>>)
  BY DEF Made, Delivered
<1>2. CountOf(<<>>, Nics) = 0 /\ CountOf(<<>>, Drives) = 0
  BY CountNone
<1>3. context[j].vm \in Vms
  BY JobTaskAssumption DEF Is, Made, Control, Accepted
<1>4. vifs[context[j].vm] \in Nat
  BY <1>3, SystemManagementAssumption DEF Made, Control, TypeOK
<1>5. Cardinality(VbdsOf(context[j].vm)) \in Nat
  <2>1. IsFiniteSet(VbdsOf(context[j].vm))
    BY FS_Subset DEF Made, IInv, Shape, VbdsOf
  <2>. QED  BY <2>1, FS_CardinalityType
<1>. QED  BY <1>1, <1>2, <1>4, <1>5 DEF Lacks

\* The job of a DefineSystem that says Completed has made the whole machine, with all
\* the devices that were asked for: add_resources_job goes on only while calls succeed,
\* and nobody else knows of the machine before it has returned from the queue.
THEOREM CompletedWhole == Spec => []CompletedIsWhole
BY InitMade, NextMade, MadeWhole, PTL DEF Spec

-----------------------------------------------------------------------------
(* What a definition that fails leaves behind                              *)

\* Without faults the machine of a definition that fails is there until it is removed.
Unwinding ==
    LET r == thread[Worker] IN ~faults =>
      /\ r.pc = "find" => r.ok \/ task[current] = Gone
      /\ r.pc \in Destroying /\ Own(current) => power[context[current].vm] = "Halted"
      /\ r.pc = "report" /\ r.rc # "NoError" /\ Own(current) =>
           power[context[current].vm] = "gone" \/ task[current] = Gone
Unwound ==
    ~faults => \A j \in Jobs : Is(task[j], "Exception") /\ Own(j) => power[context[j].vm] = "gone"

\* A machine that is gone does not come back.
LEMMA GoneStays ==
  ASSUME Control, Next, NEW v \in Vms, power[v] = "gone"
  PROVE  power'[v] = "gone"
<1>. USE TypeParts DEF Ready, Order, WorldType
<1>1. ASSUME NEW t \in Threads, Devices(t) \/ Destruction(t)
      PROVE  power'[v] = "gone"
  <2>1. CASE Devices(t)
    BY <2>1 DEF Devices, AllAdded, CreateVif, FindDisk, CreateVbd, NameDevice, world
  <2>2. CASE ListVbds(t) \/ LookAtDisk(t) \/ DestroyDisk(t) \/ DestroyVbd(t)
    BY <2>2 DEF ListVbds, LookAtDisk, DestroyDisk, DestroyVbd, world
  <2>3. CASE DestroyVm(t)
    BY <2>3 DEF DestroyVm
  <2>. QED  BY <1>1, <2>1, <2>2, <2>3 DEF Destruction
<1>2. ASSUME NEW c \in Callers, Serve(c)
      PROVE  power'[v] = "gone"
  <2>1. CASE CreateMachine(c)
    <3>1. At(c, "create")
      BY <2>1 DEF CreateMachine
    <3>2. power[context[thread[c].job].vm] = "none"
      BY <3>1, CallOf DEF At, Asking
    <3>. QED  BY <2>1, <3>2 DEF CreateMachine
  <2>2. CASE ReadCreated(c) \/ SetUp(c) \/ SubmitJob(c) \/ RemoveVbd(c)
    BY <2>2 DEF ReadCreated, SetUp, SubmitJob, RemoveVbd, world
  <2>3. CASE ReadPowerState(c)
    BY <2>3 DEF ReadPowerState, world
  <2>. QED  BY <1>1, <1>2, <2>1, <2>2, <2>3, CallOf DEF Serve
<1>3. CASE Work
  <2>1. CASE TakeJob \/ Announce \/ FindMachine
    BY <2>1 DEF TakeJob, Announce, FindMachine, world
  <2>2. CASE ProvisionDisks \/ ModifyResources \/ Report \/ FreeJob
    BY <2>2 DEF ProvisionDisks, ModifyResources, Report, FreeJob, world
  <2>. QED  BY <1>1, <1>3, <2>1, <2>2, WorkerIs DEF Work
<1>4. ASSUME NEW c \in Callers, Request(c)
      PROVE  power'[v] = "gone"
  BY <1>4, RequestOnly DEF world
<1>5. CASE Others
  BY <1>5 DEF Others, KillJob, StartVm, StopVm, Attach, world
<1>. QED  BY <1>2, <1>3, <1>4, <1>5 DEF Next

\* Nor does a task.
LEMMA GoneTaskStays ==
  ASSUME Control, Next, NEW j \in Jobs, task[j] = Gone
  PROVE  task'[j] = Gone
<1>. USE TypeParts, JobTaskAssumption
<1>1. ASSUME NEW c \in Callers, Serve(c)
      PROVE  task'[j] = Gone
  <2>1. CASE CreateMachine(c) \/ ReadCreated(c) \/ SetUp(c) \/ ReadPowerState(c) \/ RemoveVbd(c)
    BY <2>1 DEF CreateMachine, ReadCreated, SetUp, ReadPowerState, RemoveVbd
  <2>2. CASE SubmitJob(c)
    <3>1. At(c, "submit")
      BY <2>2 DEF SubmitJob
    <3>2. task[thread[c].job] = Absent
      BY <3>1, CallOf DEF At, Asking
    <3>. QED  BY <2>2, <3>2 DEF SubmitJob, JobsType
  <2>3. CASE Devices(c) \/ Destruction(c)
    BY <2>3, CallOf, SharedLeaves
  <2>. QED  BY <1>1, <2>1, <2>2, <2>3 DEF Serve
<1>2. CASE Work /\ ~Announce /\ ~Report
  <2>1. CASE TakeJob \/ FindMachine \/ ProvisionDisks \/ ModifyResources \/ FreeJob
    BY <2>1 DEF TakeJob, FindMachine, ProvisionDisks, ModifyResources, FreeJob
  <2>2. CASE Devices(Worker) \/ Destruction(Worker)
    BY <2>2, WorkerAt, SharedLeaves
  <2>. QED  BY <1>2, <2>1, <2>2 DEF Work
<1>3. ASSUME NEW st, NEW err, NEW o \in ChangeState(task[current], st, err, faults),
             task' = [task EXCEPT ![current] = o.task]
      PROVE  task'[j] = Gone
  <2>1. task[current] = Gone => o.task = Gone
    BY <1>3 DEF ChangeState
  <2>. QED  BY <1>3, <2>1 DEF JobsType
<1>4. CASE Announce \/ Report
  <2>1. CASE Announce
    BY <1>3, <2>1 DEF Announce
  <2>2. CASE Report
    <3>1. CASE task' = task
      BY <3>1
    <3>2. CASE task' # task
      <4>1. PICK st, err : \E o \in ChangeState(task[current], st, err, faults) :
              task' = [task EXCEPT ![current] = o.task]
        BY <2>2, <3>2 DEF Report
      <4>. QED  BY <1>3, <4>1
    <3>. QED  BY <3>1, <3>2
  <2>. QED  BY <1>4, <2>1, <2>2
<1>5. ASSUME NEW c \in Callers, Request(c)
      PROVE  task'[j] = Gone
  BY <1>5, RequestOnly
<1>6. CASE Others
  <2>1. task' = task \/ \E i \in Jobs : task' = [task EXCEPT ![i] = Destroy(task[i])]
    BY <1>6 DEF Others, KillJob, StartVm, StopVm, Attach
  <2>. QED  BY <2>1 DEF JobsType, Destroy
<1>. QED  BY <1>1, <1>2, <1>4, <1>5, <1>6 DEF Next

\* Where the worker unwinds nothing there is nothing to say.
LEMMA NotUnwinding ==
  ASSUME \/ thread'[Worker].pc \notin Destroying \cup {"find", "report"}
         \/ thread'[Worker].pc = "report" /\ thread'[Worker].rc = "NoError"
  PROVE  Unwinding'
  BY DEF Unwinding, Destroying

\* The steps of others.
LEMMA UnwindingStays ==
  ASSUME Control, Unwinding, Next, ~Work, UNCHANGED current, thread'[Worker] = thread[Worker]
  PROVE  Unwinding'
<1>1. PICK j : j = current
  OBVIOUS
<1>2. CASE thread[Worker].pc = "idle"
  BY <1>2, NotUnwinding DEF Destroying
<1>3. CASE thread[Worker].pc # "idle"
  <2>1. j \in Jobs /\ task[j] # Absent /\ context[j].vm \in Vms
    BY <1>1, <1>3, WorkerAt DEF Control, Accepted
  <2>2. \A c \in Callers : ~(thread[c].call = "define" /\ thread[c].job = j)
    BY <2>1, CallOf DEF Asking
  <2>3. context'[j] = context[j] /\ (Own(j)' => Own(j)) /\ faults' = faults
    BY <2>1, NextStays, FaultsStay
  <2>4. Own(j)' /\ power[context[j].vm] = "Halted" => power'[context[j].vm] = "Halted"
    BY <2>1, <2>2, OtherSpares DEF Spared
  <2>5. power[context[j].vm] = "gone" => power'[context[j].vm] = "gone"
    BY <2>1, GoneStays
  <2>6. task[j] = Gone => task'[j] = Gone
    BY <2>1, GoneTaskStays
  <2>7. Own(current)' => Own(j)'
    BY <1>1 DEF Own
  <2>8. Own(current)' => Own(current)
    BY <1>1, <2>3, <2>7
  <2>. QED  BY <1>1, <2>3, <2>4, <2>5, <2>6, <2>7, <2>8 DEF Unwinding
<1>. QED  BY <1>2, <1>3

\* The worker unwinds a definition when a device cannot be added.
LEMMA FailsUnwinding ==
  ASSUME Control, Fails(Worker), UNCHANGED <<current, context, touched, power>>,
         Own(current) => power[context[current].vm] = "Halted"
  PROVE  Unwinding'
<1>1. thread'[Worker].pc = FailPlace(Worker)
  <2>1. FailPlace(Worker) \in {"list", "report"}
    BY DEF FailPlace
  <2>2. Move(Worker, FailPlace(Worker), FALSE)
    BY DEF Fails, FailPlace
  <2>. QED  BY <2>1, <2>2, WorkerMoves DEF Places
<1>. QED  BY <1>1 DEF Unwinding, FailPlace, Destroying, Own

\* The steps before the devices.
LEMMA EarlyUnwinding ==
  ASSUME Control, Builds, Unwinding,
         TakeJob \/ Announce \/ FindMachine \/ ProvisionDisks \/ ModifyResources
  PROVE  Unwinding'
<1>1. CASE TakeJob
  <2>1. thread'[Worker].pc \in {"announce", "free"}
    BY <1>1, TypeParts, TakeJobDoes DEF Control
  <2>. QED  BY <2>1, NotUnwinding DEF Destroying
<1>2. CASE Announce
  <2>1. PICK o \in ChangeState(task[current], "Running", FALSE, faults) :
          Move(Worker, "find", o.ok) /\ task' = [task EXCEPT ![current] = o.task]
    BY <1>2 DEF Announce
  <2>2. current \in Jobs /\ task[current] \in Tasks \ {Absent} /\ UNCHANGED <<current, faults>>
    BY <1>2, TypeParts, WorkerAt DEF Announce, At, JobsType, service
  <2>3. o.ok \in BOOLEAN
    BY <2>1, <2>2, TypeParts, ChangedType DEF States, JobsType
  <2>4. ~faults => o.ok \/ o.task = Gone
    BY <2>1 DEF ChangeState, Written
  <2>5. task'[current] = o.task
    BY <2>1, <2>2, TypeParts DEF JobsType
  <2>6. thread'[Worker].pc = "find" /\ thread'[Worker].ok = o.ok
    BY <2>1, <2>3, TypeParts, WorkerAt, MoveWent DEF Ready, Went, Places
  <2>. QED  BY <2>2, <2>4, <2>5, <2>6 DEF Unwinding, Destroying
<1>3. CASE FindMachine
  <2>1. At(Worker, "find") /\ UNCHANGED <<current, context, touched, world, task, faults>>
    BY <1>3 DEF FindMachine, history, service
  <2>2. CASE Move(Worker, "report", FALSE)
    <3>1. thread'[Worker].pc = "report"
      BY <2>2, WorkerMoves DEF Places
    <3>2. faults \/ ~(thread[Worker].ok /\ There(context[current].vm))
      <4>1. CASE Misses(thread[Worker].ok /\ There(context[current].vm))
        BY <4>1 DEF Misses
      <4>2. CASE ~Misses(thread[Worker].ok /\ There(context[current].vm))
        <5>1. thread' = [thread EXCEPT ![Worker].vm = context[current].vm,
                ![Worker].pc = IF context[current].provision THEN "provision" ELSE "device"]
          BY <1>3, <4>2 DEF FindMachine
        <5>2. thread'[Worker].pc # "report"
          BY <5>1, WorkerAt, TypeParts DEF Ready, Locals
        <5>. QED  BY <3>1, <5>2
      <4>. QED  BY <4>1, <4>2
    <3>3. Own(current) => There(context[current].vm)
      <4>1. current \in Jobs /\ context[current].vm \in Vms
        BY <2>1, WorkerAt DEF At, Control, Accepted
      <4>. QED  BY <2>1, <4>1 DEF Builds, At, Fresh, There
    <3>. QED  BY <2>1, <3>1, <3>2, <3>3, SameJob DEF Unwinding, At, Destroying
  <2>3. CASE ~Move(Worker, "report", FALSE)
    <3>1. thread' = [thread EXCEPT ![Worker].vm = context[current].vm,
            ![Worker].pc = IF context[current].provision THEN "provision" ELSE "device"]
      BY <1>3, <2>3 DEF FindMachine
    <3>2. thread'[Worker].pc \in {"provision", "device"}
      BY <3>1, WorkerAt, TypeParts DEF Ready, Locals
    <3>. QED  BY <3>2, NotUnwinding DEF Destroying
  <2>. QED  BY <2>2, <2>3
<1>4. CASE ProvisionDisks
  <2>1. At(Worker, "provision") /\ UNCHANGED <<current, context, touched, power>>
    BY <1>4 DEF ProvisionDisks, service
  <2>2. Own(current) => power[context[current].vm] = "Halted"
    BY <2>1 DEF Builds, At, Fresh
  <2>3. CASE Fails(Worker)
    BY <2>1, <2>2, <2>3, FailsUnwinding
  <2>4. CASE \E r \in Replies : r /\ Move(Worker, "modify", r)
    <3>1. thread'[Worker].pc = "modify"
      BY <2>4, RepliesType, WorkerMoves DEF Places
    <3>. QED  BY <3>1, NotUnwinding DEF Destroying
  <2>5. CASE thread' = [thread EXCEPT ![Worker].rc = "unset", ![Worker].ok = FALSE,
               ![Worker].pc = IF context[current].remove THEN "list" ELSE "report"]
    <3>1. thread'[Worker].pc = FailPlace(Worker)
      BY <2>5, WorkerAt, TypeParts DEF Ready, Locals, FailPlace
    <3>. QED  BY <2>1, <2>2, <3>1 DEF Unwinding, FailPlace, Destroying, Own
  <2>. QED  BY <1>4, <2>3, <2>4, <2>5 DEF ProvisionDisks
<1>5. CASE ModifyResources
  <2>1. thread'[Worker].pc = "device"
    BY <1>5, TypeParts, WorkerAt, ModifyResourcesDoes DEF Leads, Idle
  <2>. QED  BY <2>1, NotUnwinding DEF Destroying
<1>. QED  BY <1>1, <1>2, <1>3, <1>4, <1>5

\* While devices are added the machine is there.
LEMMA DevicesUnwinding ==
  ASSUME Control, Builds, Devices(Worker)
  PROVE  Unwinding'
<1>1. thread[Worker].pc \in Adding
  BY DEF Devices, AllAdded, CreateVif, FindDisk, CreateVbd, NameDevice, At, Adding
<1>2. /\ UNCHANGED <<current, context, touched, power>>
      /\ Own(current) => power[context[current].vm] = "Halted"
  <2>1. UNCHANGED <<current, context, touched>>
    BY WorkerIs, SharedLeaves DEF service
  <2>2. UNCHANGED power
    BY DEF Devices, AllAdded, CreateVif, FindDisk, CreateVbd, NameDevice, world
  <2>. QED  BY <1>1, <2>1, <2>2 DEF Builds, Lacks, Adding
<1>. DEFINE p == thread'[Worker].pc
<1>3. CASE p \in {"device", "attach", "name", "crashed"}
  BY <1>3, NotUnwinding DEF Destroying
<1>4. CASE AllAdded(Worker)
  <2>1. p = "report" /\ thread'[Worker].rc = "NoError"
    BY <1>4, WorkerAt, TypeParts DEF AllAdded, Ready, Locals
  <2>. QED  BY <2>1, NotUnwinding
<1>5. CASE p = FailPlace(Worker)
  BY <1>2, <1>5 DEF Unwinding, FailPlace, Destroying, Own
<1>6. \/ AllAdded(Worker)
      \/ p \in {"device", "attach", "name", "crashed", FailPlace(Worker)}
  <2>1. FailPlace(Worker) # "idle"
    BY DEF FailPlace
  <2>2. CASE CreateVif(Worker) \/ FindDisk(Worker)
    BY <2>1, <2>2, TypeParts, WorkerIs, CreateVifDoes, FindDiskDoes DEF Leads
  <2>3. CASE CreateVbd(Worker) \/ NameDevice(Worker)
    BY <2>1, <2>3, TypeParts, WorkerIs, CreateVbdDoes, NameDeviceDoes DEF Leads
  <2>. QED  BY <2>2, <2>3 DEF Devices
<1>. QED  BY <1>3, <1>4, <1>5, <1>6

\* The machine is there until it is destroyed itself.
LEMMA DestructionUnwinding ==
  ASSUME Control, Unwinding, Destruction(Worker)
  PROVE  Unwinding'
<1>1. thread[Worker].pc \in Destroying
  BY DEF Destruction, ListVbds, LookAtDisk, DestroyDisk, DestroyVbd, DestroyVm, At, Destroying
<1>2. /\ UNCHANGED <<current, context, touched, faults>>
      /\ ~faults /\ Own(current) => power[context[current].vm] = "Halted"
  <2>1. UNCHANGED <<current, context, touched, faults>>
    BY WorkerIs, SharedLeaves DEF service
  <2>. QED  BY <1>1, <2>1 DEF Unwinding
<1>3. /\ thread[Worker].vm = context[current].vm /\ thread[Worker].vm \in Vms
      /\ thread[Worker].call # "remove" /\ Worker \in Threads
  BY <1>1, WorkerAt DEF Working, Destroying
<1>4. CASE ListVbds(Worker) \/ LookAtDisk(Worker) \/ DestroyDisk(Worker) \/ DestroyVbd(Worker)
  <2>1. UNCHANGED power
    BY <1>4 DEF ListVbds, LookAtDisk, DestroyDisk, DestroyVbd, world
  <2>2. thread'[Worker].pc \in Destroying
    <3>1. CASE ListVbds(Worker) \/ LookAtDisk(Worker)
      BY <1>3, <3>1, TypeParts, ListVbdsDoes, LookAtDiskDoes DEF Leads, Destroying
    <3>2. CASE DestroyDisk(Worker) \/ DestroyVbd(Worker)
      BY <1>3, <3>2, TypeParts, DestroyDiskDoes, DestroyVbdDoes DEF Leads, Destroying
    <3>. QED  BY <1>4, <3>1, <3>2
  <2>. QED  BY <1>2, <2>1, <2>2 DEF Unwinding, Own, Destroying
<1>5. CASE DestroyVm(Worker)
  <2>1. thread'[Worker].pc = "report"
    BY <1>3, <1>5, TypeParts, DestroyVmDoes DEF Leads
  <2>2. ~faults /\ Own(current) => power'[context[current].vm] = "gone"
    BY <1>2, <1>3, <1>5, TypeParts DEF DestroyVm, Misses, Ready, Order, WorldType
  <2>. QED  BY <1>2, <2>1, <2>2 DEF Unwinding, Own, Destroying
<1>. QED  BY <1>4, <1>5 DEF Destruction

\* Every step leaves the machine of a failing definition to be unwound.
LEMMA UnwindingKept ==
  ASSUME Control, Builds, Unwinding, Next
  PROVE  Unwinding'
<1>1. CASE Work
  <2>1. CASE Report \/ FreeJob
    <3>1. thread'[Worker].pc \in {"free", "crashed", "idle"}
      BY <2>1, TypeParts, ReportWrites, FreeJobDoes DEF Idle
    <3>. QED  BY <3>1, NotUnwinding DEF Destroying
  <2>. QED  BY <1>1, <2>1, EarlyUnwinding, DevicesUnwinding, DestructionUnwinding DEF Work
<1>2. CASE ~Work
  <2>1. thread'[Worker] = thread[Worker] /\ UNCHANGED current
    <3>1. ASSUME NEW c \in Callers, Serve(c) \/ Request(c)
          PROVE  thread'[Worker] = thread[Worker] /\ UNCHANGED current
      BY <3>1, ServeOnly, RequestOnly, WorkerIs DEF Only, service
    <3>2. CASE Others
      BY <3>2, OthersOnly DEF service
    <3>. QED  BY <1>2, <3>1, <3>2 DEF Next
  <2>. QED  BY <1>2, <2>1, UnwindingStays
<1>. QED  BY <1>1, <1>2

\* A failure is reported when the machine is gone.
LEMMA UnwoundKept ==
  ASSUME Control, Unwinding, Unwound, Next
  PROVE  Unwound'
<1>. SUFFICES ASSUME ~faults, NEW j \in Jobs, Is(task'[j], "Exception"), Own(j)'
              PROVE  power'[context'[j].vm] = "gone"
  BY FaultsStay DEF Unwound
<1>1. CASE Is(task[j], "Exception")
  <2>1. context[j].vm \in Vms
    BY <1>1, JobTaskAssumption DEF Is, Control, Accepted
  <2>2. context'[j] = context[j] /\ Own(j)
    BY <2>1, NextStays
  <2>3. power[context[j].vm] = "gone"
    BY <1>1, <2>2 DEF Unwound
  <2>. QED  BY <2>1, <2>2, <2>3, GoneStays
<1>2. CASE ~Is(task[j], "Exception")
  <2>1. Report /\ j = current /\ thread[Worker].rc # "NoError"
    BY <1>2, EndsBy DEF Final
  <2>2. At(Worker, "report") /\ UNCHANGED <<context, world, history>>
    BY <2>1 DEF Report
  <2>3. Own(j) /\ task[j] # Gone
    BY <2>2, GoneTaskStays, JobTaskAssumption DEF Own, history, Is
  <2>. QED  BY <2>1, <2>2, <2>3 DEF Unwinding, At, world
<1>. QED  BY <1>1, <1>2

-----------------------------------------------------------------------------
(* What interferes with a machine that is destroyed                        *)

\* A machine that runs was started after its VBDs were listed, if they were.
Started == \A v \in Vms : power[v] = "Running" => v \in disturbed

\* The step does not disturb machine v, nor the disks that are all its own.
Calm(v) ==
    /\ v \notin disturbed /\ power[v] = "Halted" /\ owned'[v] = owned[v]
    /\ {b \in vbds' : b[1] = v} = VbdsOf(v)
    /\ \A d \in Disks : UsersOf(d) # {} /\ (\A b \in UsersOf(d) : b[1] = v)
                          => {b \in vbds' : b[3] = d} = UsersOf(d)

\* A step that does nothing to machines and VBDs disturbs none.
LEMMA CalmSame ==
  ASSUME UNCHANGED <<power, vbds, disturbed, owned>>, NEW v, v \notin disturbed',
         power'[v] = "Halted"
  PROVE  Calm(v)
  BY DEF Calm, VbdsOf, UsersOf

\* A new VBD disturbs its machine and all those that use its disk.
LEMMA CalmPlug ==
  ASSUME NEW w, NEW e, Plug(w, e), UNCHANGED <<power, owned>>, NEW v, v \notin disturbed',
         power'[v] = "Halted"
  PROVE  Calm(v)
<1>. PICK b : b = <<w, Lowest(FreeSlots(w)), e>>
  OBVIOUS
<1>1. /\ vbds' = vbds \cup {b} /\ b[1] = w /\ b[3] = e
      /\ disturbed' = disturbed \cup {w} \cup {u[1] : u \in UsersOf(e)}
  BY DEF Plug
<1>2. w # v /\ v \notin disturbed /\ \A u \in UsersOf(e) : u[1] # v
  BY <1>1
<1>3. \A d \in Disks : UsersOf(d) # {} /\ (\A u \in UsersOf(d) : u[1] = v) => d # e
  BY <1>2
<1>. QED  BY <1>1, <1>2, <1>3 DEF Calm, VbdsOf, UsersOf

\* Whoever adds devices disturbs the machine if he attaches one.
LEMMA DevicesCalm ==
  ASSUME NEW t \in Threads, Devices(t), NEW v, v \notin disturbed', power'[v] = "Halted"
  PROVE  Calm(v)
<1>1. CASE AllAdded(t) \/ NameDevice(t)
  BY <1>1, CalmSame DEF AllAdded, NameDevice, world, history
<1>2. CASE CreateVif(t) \/ FindDisk(t)
  BY <1>2, CalmSame DEF CreateVif, FindDisk, history
<1>3. CASE CreateVbd(t)
  <2>1. CASE Plug(thread[t].vm, thread[t].vdi)
    BY <1>3, <2>1, CalmPlug DEF CreateVbd
  <2>2. CASE ~Plug(thread[t].vm, thread[t].vdi)
    BY <1>3, <2>2, CalmSame DEF CreateVbd
  <2>. QED  BY <2>1, <2>2
<1>. QED  BY <1>1, <1>2, <1>3 DEF Devices

\* Who destroys another machine disturbs neither this one nor its disks.
LEMMA DestructionCalm ==
  ASSUME Control, ~faults, NEW t \in Threads, Destruction(t), thread[t].vm \in Vms,
         NEW v \in Vms, v \notin disturbed', power'[v] = "Halted", thread[t].vm # v
  PROVE  Calm(v)
<1>. USE TypeParts DEF Ready, Order, WorldType, HistoryType
<1>. DEFINE w == thread[t].vm
<1>1. Sound(thread[t])
  BY DEF Control, Steady
<1>2. CASE ListVbds(t)
  BY <1>2 DEF ListVbds, world, Calm, VbdsOf, UsersOf
<1>3. CASE LookAtDisk(t) \/ DestroyDisk(t)
  BY <1>3, CalmSame DEF LookAtDisk, DestroyDisk, world, history
<1>4. CASE DestroyVbd(t)
  <2>1. thread[t].vbd \in thread[t].left /\ \A b \in thread[t].left : b[1] = w
    BY <1>1, <1>4 DEF DestroyVbd, At, Sound
  <2>2. PICK b : b = thread[t].vbd
    OBVIOUS
  <2>3. b[1] # v
    BY <2>1, <2>2
  <2>4. vbds' = vbds \/ vbds' = vbds \ {b}
    BY <1>4, <2>2 DEF DestroyVbd
  <2>5. UNCHANGED <<power, disturbed, owned>>
    BY <1>4 DEF DestroyVbd, history
  <2>. QED  BY <2>3, <2>4, <2>5 DEF Calm, VbdsOf, UsersOf
<1>5. CASE DestroyVm(t)
  <2>1. vbds' = vbds \/ vbds' = vbds \ VbdsOf(w)
    BY <1>5 DEF DestroyVm
  <2>2. power'[v] = power[v] /\ UNCHANGED <<disturbed, owned>>
    BY <1>5 DEF DestroyVm, history
  <2>. QED  BY <2>1, <2>2 DEF Calm, VbdsOf, UsersOf
<1>. QED  BY <1>2, <1>3, <1>4, <1>5 DEF Destruction

\* The other steps of a caller disturb the machine, or leave it and its disks alone.
LEMMA ServeCalm ==
  ASSUME Control, Started, NEW c \in Callers, NEW v \in Vms, v \notin disturbed',
         power'[v] = "Halted", power[v] # "none",
         \/ CreateMachine(c) \/ ReadCreated(c) \/ SetUp(c) \/ SubmitJob(c) \/ ReadPowerState(c)
         \/ RemoveVbd(c)
  PROVE  Calm(v)
<1>. USE TypeParts DEF Ready, Order, WorldType, HistoryType
<1>1. CASE CreateMachine(c)
  <2>1. At(c, "create") /\ UNCHANGED <<vbds, disturbed, owned>>
    BY <1>1 DEF CreateMachine, history
  <2>2. power[context[thread[c].job].vm] = "none"
    BY <2>1, CallOf DEF At, Asking
  <2>3. power'[v] = power[v]
    BY <1>1, <2>2 DEF CreateMachine
  <2>. QED  BY <2>1, <2>3 DEF Calm, VbdsOf, UsersOf
<1>2. CASE ReadCreated(c) \/ SetUp(c) \/ SubmitJob(c)
  BY <1>2, CalmSame DEF ReadCreated, SetUp, SubmitJob, world, history
<1>3. CASE ReadPowerState(c)
  <2>1. UNCHANGED <<vbds, disturbed, owned>>
    BY <1>3 DEF ReadPowerState, world, history
  <2>2. power[v] = "Halted"
    BY <1>3, <2>1 DEF ReadPowerState, world, Started
  <2>. QED  BY <2>1, <2>2 DEF Calm, VbdsOf, UsersOf
<1>4. CASE RemoveVbd(c)
  <2>1. At(c, "remove") /\ thread[c].call = "remove" /\ Sound(thread[c])
    BY <1>4, CallOf DEF RemoveVbd, At, Control, Steady
  <2>2. PICK b \in thread[c].left : vbds' = vbds \/ vbds' = vbds \ {b}
    BY <1>4 DEF RemoveVbd
  <2>3. disturbed' = disturbed \cup {thread[c].vm} /\ UNCHANGED <<power, owned>>
    BY <1>4 DEF RemoveVbd
  <2>4. b[1] # v
    BY <2>1, <2>2, <2>3 DEF Sound
  <2>. QED  BY <2>2, <2>3, <2>4 DEF Calm, VbdsOf, UsersOf
<1>. QED  BY <1>1, <1>2, <1>3, <1>4

\* So do those of the worker.
LEMMA WorkCalm ==
  ASSUME NEW v, v \notin disturbed', power'[v] = "Halted",
         \/ TakeJob \/ Announce \/ FindMachine \/ ProvisionDisks \/ ModifyResources
         \/ Report \/ FreeJob
  PROVE  Calm(v)
<1>1. CASE TakeJob \/ Announce \/ FindMachine
  BY <1>1, CalmSame DEF TakeJob, Announce, FindMachine, world, history
<1>2. CASE ProvisionDisks
  <2>1. CASE Plug(thread[Worker].vm, Lowest(Unused))
    BY <1>2, <2>1, CalmPlug DEF ProvisionDisks
  <2>2. CASE ~Plug(thread[Worker].vm, Lowest(Unused))
    BY <1>2, <2>2, CalmSame DEF ProvisionDisks
  <2>. QED  BY <2>1, <2>2
<1>3. CASE ModifyResources \/ Report \/ FreeJob
  BY <1>3, CalmSame DEF ModifyResources, Report, FreeJob, world, history
<1>. QED  BY <1>1, <1>2, <1>3

\* So do requests and other clients.
LEMMA OthersCalm ==
  ASSUME Control, Started, NEW v \in Vms, v \notin disturbed', power'[v] = "Halted",
         Others \/ \E c \in Callers : Request(c)
  PROVE  Calm(v)
<1>. USE TypeParts DEF Ready, Order, WorldType
<1>1. ASSUME NEW c \in Callers, Request(c)
      PROVE  Calm(v)
  <2>1. UNCHANGED world
    BY <1>1, RequestOnly
  <2>2. UNCHANGED <<disturbed, owned>>
    BY <1>1 DEF Request, DefineSystem, AddResourceSettings, AddResourceSetting,
                RemoveResourceSettings, DestroySystem, Asks, history
  <2>. QED  BY <2>1, <2>2, CalmSame DEF world
<1>2. ASSUME NEW j \in Jobs, KillJob(j)
      PROVE  Calm(v)
  BY <1>2, CalmSame DEF KillJob, world, history
<1>3. ASSUME NEW w \in Vms, StartVm(w)
      PROVE  Calm(v)
  BY <1>3 DEF StartVm, Calm, VbdsOf, UsersOf
<1>4. ASSUME NEW w \in Vms, StopVm(w)
      PROVE  Calm(v)
  <2>1. UNCHANGED <<vbds, disturbed, owned>> /\ power[w] = "Running"
        /\ power' = [power EXCEPT ![w] = "Halted"]
    BY <1>4 DEF StopVm, history
  <2>2. v # w
    BY <2>1 DEF Started
  <2>. QED  BY <2>1, <2>2 DEF Calm, VbdsOf, UsersOf
<1>5. ASSUME NEW w \in Vms, NEW d \in Disks, Attach(w, d)
      PROVE  Calm(v)
  BY <1>5, CalmPlug DEF Attach
<1>. QED  BY <1>1, <1>2, <1>3, <1>4, <1>5 DEF Others

\* A disk that is destroyed stays so, and one that is there can only be destroyed.
LEMMA DisksStay ==
  ASSUME Control, Next, NEW d \in Disks
  PROVE  /\ disk[d] = "gone" => disk'[d] = "gone"
         /\ disk[d] = "there" => disk'[d] \in {"there", "gone"}
<1>0. disk \in [Disks -> {"none", "there", "gone"}]
  BY TypeParts DEF Ready, Order, WorldType
<1>. DEFINE Stays == /\ disk[d] = "gone" => disk'[d] = "gone"
                     /\ disk[d] = "there" => disk'[d] \in {"there", "gone"}
<1>1. disk' = disk => Stays
  OBVIOUS
<1>2. Unused # {} /\ disk' = [disk EXCEPT ![Lowest(Unused)] = "there"] => Stays
  <2>. SUFFICES ASSUME Unused # {}, disk' = [disk EXCEPT ![Lowest(Unused)] = "there"]
                PROVE  Stays
    OBVIOUS
  <2>1. Unused \subseteq Nat
    BY SystemManagementAssumption DEF Unused
  <2>2. Lowest(Unused) \in Unused
    BY <2>1, LowestIs
  <2>3. PICK n \in Unused : n = Lowest(Unused)
    BY <2>2
  <2>. QED  BY <1>0, <2>3 DEF Unused
<1>. HIDE DEF Stays
<1>3. ASSUME NEW t \in Threads, Devices(t) \/ Destruction(t)
      PROVE  Stays
  <2>1. CASE AllAdded(t) \/ CreateVif(t) \/ CreateVbd(t) \/ NameDevice(t)
    BY <1>1, <2>1 DEF AllAdded, CreateVif, CreateVbd, NameDevice, world
  <2>2. CASE FindDisk(t)
    BY <1>1, <1>2, <2>2 DEF FindDisk
  <2>3. CASE ListVbds(t) \/ LookAtDisk(t) \/ DestroyVbd(t) \/ DestroyVm(t)
    BY <1>1, <2>3 DEF ListVbds, LookAtDisk, DestroyVbd, DestroyVm, world
  <2>4. CASE DestroyDisk(t)
    <3>1. disk' = disk \/ disk' = [disk EXCEPT ![thread[t].vbd[3]] = "gone"]
      BY <2>4 DEF DestroyDisk
    <3>. QED  BY <1>0, <1>1, <3>1 DEF Stays
  <2>. QED  BY <1>3, <2>1, <2>2, <2>3, <2>4 DEF Devices, Destruction
<1>4. ASSUME NEW c \in Callers, Serve(c)
      PROVE  Stays
  <2>1. CASE CreateMachine(c) \/ ReadCreated(c) \/ SetUp(c)
    BY <1>1, <2>1 DEF CreateMachine, ReadCreated, SetUp, world
  <2>2. CASE SubmitJob(c) \/ ReadPowerState(c) \/ RemoveVbd(c)
    BY <1>1, <2>2 DEF SubmitJob, ReadPowerState, RemoveVbd, world
  <2>. QED  BY <1>3, <1>4, <2>1, <2>2, CallOf DEF Serve
<1>5. ASSUME Work
      PROVE  Stays
  <2>1. CASE TakeJob \/ Announce \/ FindMachine
    BY <1>1, <2>1 DEF TakeJob, Announce, FindMachine, world
  <2>2. CASE ProvisionDisks
    <3>1. disk' = disk \/ (Unused # {} /\ disk' = [disk EXCEPT ![Lowest(Unused)] = "there"])
      BY <2>2 DEF ProvisionDisks
    <3>. QED  BY <1>1, <1>2, <3>1
  <2>3. CASE ModifyResources \/ Report \/ FreeJob
    BY <1>1, <2>3 DEF ModifyResources, Report, FreeJob, world
  <2>. QED  BY <1>3, <1>5, <2>1, <2>2, <2>3, WorkerIs DEF Work
<1>6. ASSUME NEW c \in Callers, Request(c)
      PROVE  Stays
  BY <1>1, <1>6, RequestOnly DEF world
<1>7. ASSUME Others
      PROVE  Stays
  BY <1>1, <1>7 DEF Others, KillJob, StartVm, StopVm, Attach, world
<1>8. Stays
  BY <1>4, <1>5, <1>6, <1>7 DEF Next
<1>. QED  BY <1>8 DEF Stays

\* A step that starts no machine leaves those that run disturbed.
StartsNone ==
    /\ \A v \in Vms : power'[v] = "Running" => power[v] = "Running"
    /\ disturbed \subseteq disturbed'

\* A machine that runs was disturbed when it was started.
LEMMA StartedKept ==
  ASSUME Control, Started, Next
  PROVE  Started'
<1>. USE TypeParts DEF Ready, Order, WorldType
<1>1. StartsNone => Started'
  BY DEF StartsNone, Started
<1>2. UNCHANGED <<power, disturbed>> => Started'
  BY DEF Started
<1>3. ASSUME NEW t \in Threads, Devices(t) \/ Destruction(t)
      PROVE  Started'
  <2>1. CASE AllAdded(t) \/ CreateVif(t) \/ FindDisk(t) \/ NameDevice(t)
    BY <1>2, <2>1 DEF AllAdded, CreateVif, FindDisk, NameDevice, world, history
  <2>2. CASE CreateVbd(t)
    <3>1. StartsNone
      BY <2>2 DEF CreateVbd, Plug, StartsNone
    <3>. QED  BY <1>1, <3>1
  <2>3. CASE ListVbds(t)
    BY <2>3 DEF ListVbds, world, Started
  <2>4. CASE LookAtDisk(t) \/ DestroyDisk(t) \/ DestroyVbd(t)
    BY <1>2, <2>4 DEF LookAtDisk, DestroyDisk, DestroyVbd, world, history
  <2>5. CASE DestroyVm(t)
    BY <2>5 DEF DestroyVm, history, Started
  <2>. QED  BY <1>3, <2>1, <2>2, <2>3, <2>4, <2>5 DEF Devices, Destruction
<1>4. ASSUME NEW c \in Callers, Serve(c)
      PROVE  Started'
  <2>1. CASE CreateMachine(c)
    BY <2>1 DEF CreateMachine, history, Started
  <2>2. CASE ReadCreated(c) \/ SetUp(c) \/ SubmitJob(c)
    BY <1>2, <2>2 DEF ReadCreated, SetUp, SubmitJob, world, history
  <2>3. CASE ReadPowerState(c) \/ RemoveVbd(c)
    <3>1. StartsNone
      BY <2>3 DEF ReadPowerState, RemoveVbd, world, history, StartsNone
    <3>. QED  BY <1>1, <3>1
  <2>. QED  BY <1>3, <1>4, <2>1, <2>2, <2>3, CallOf DEF Serve
<1>5. CASE Work
  <2>1. CASE TakeJob \/ Announce \/ FindMachine
    BY <1>2, <2>1 DEF TakeJob, Announce, FindMachine, world, history
  <2>2. CASE ProvisionDisks
    <3>1. StartsNone
      BY <2>2 DEF ProvisionDisks, Plug, StartsNone
    <3>. QED  BY <1>1, <3>1
  <2>3. CASE ModifyResources \/ Report \/ FreeJob
    BY <1>2, <2>3 DEF ModifyResources, Report, FreeJob, world, history
  <2>. QED  BY <1>3, <1>5, <2>1, <2>2, <2>3, WorkerIs DEF Work
<1>6. ASSUME NEW c \in Callers, Request(c)
      PROVE  Started'
  <2>1. UNCHANGED <<power, disturbed>>
    BY <1>6, RequestOnly DEF world, Request, DefineSystem, AddResourceSettings,
       AddResourceSetting, RemoveResourceSettings, DestroySystem, Asks, history
  <2>. QED  BY <1>2, <2>1
<1>7. ASSUME NEW w \in Vms, StartVm(w)
      PROVE  Started'
  BY <1>7 DEF StartVm, Started
<1>8. CASE Others /\ ~\E w \in Vms : StartVm(w)
  <2>1. StartsNone
    BY <1>8 DEF Others, KillJob, StopVm, Attach, Plug, world, history, StartsNone
  <2>. QED  BY <1>1, <2>1
<1>. QED  BY <1>4, <1>5, <1>6, <1>7, <1>8 DEF Next

\* The places of _vm_destroy after the VBDs of the machine have been listed.
Walked == Destroying \ {"list"}

\* Only from the list a thread comes to go through the VBDs of a machine.
LEMMA NotWalking ==
  ASSUME Control, Next, NEW t \in Threads, thread'[t].pc \in Walked
  PROVE  thread'[t] = thread[t] \/ Destruction(t)
<1>. USE TypeParts DEF Walked, Destroying, Leads
<1>0. Idle.pc = "idle"
  BY DEF Idle
<1>1. ASSUME ~Destruction(t), Devices(t)
      PROVE  FALSE
  <2>1. FailPlace(t) \in {"list", "report", "idle"}
    BY DEF FailPlace
  <2>2. CASE AllAdded(t) \/ CreateVif(t) \/ FindDisk(t)
    BY <1>0, <2>1, <2>2, AllAddedDoes, CreateVifDoes, FindDiskDoes
  <2>3. CASE CreateVbd(t) \/ NameDevice(t)
    BY <1>0, <2>1, <2>3, CreateVbdDoes, NameDeviceDoes
  <2>. QED  BY <1>1, <2>2, <2>3 DEF Devices
<1>2. ASSUME ~Destruction(t), t \in Callers, Serve(t)
      PROVE  FALSE
  <2>1. CASE CreateMachine(t)
    <3>1. At(t, "create")
      BY <2>1 DEF CreateMachine
    <3>2. /\ context[thread[t].job].vm \in Vms /\ power[context[thread[t].job].vm] = "none"
          /\ thread[t].call = "define"
      BY <1>2, <3>1, CallOf DEF At, Asking
    <3>. QED  BY <1>0, <2>1, <3>2, CreateMachineDoes
  <2>2. CASE ReadCreated(t)
    BY <1>0, <2>2, ReadCreatedDoes
  <2>3. CASE SetUp(t)
    <3>1. At(t, "set_up")
      BY <2>3 DEF SetUp
    <3>2. thread[t].call \in {"define", "add", "remove"}
      BY <1>2, <3>1, CallOf DEF At
    <3>. QED  BY <1>0, <2>3, <3>2, SetUpDoes DEF SetUpLeads
  <2>4. CASE SubmitJob(t)
    BY <1>0, <2>4, SubmitJobDoes
  <2>5. CASE ReadPowerState(t)
    <3>1. At(t, "power")
      BY <2>5 DEF ReadPowerState
    <3>2. thread[t].vm \in Vms
      BY <1>2, <3>1, BusyWith DEF At
    <3>. QED  BY <1>0, <2>5, <3>2, ReadPowerStateDoes
  <2>6. CASE RemoveVbd(t)
    <3>1. At(t, "remove")
      BY <2>6 DEF RemoveVbd
    <3>2. thread[t].vm \in Vms /\ thread[t].call = "remove"
      BY <1>2, <3>1, BusyWith, CallOf DEF At
    <3>. QED  BY <1>0, <2>6, <3>2, RemoveVbdDoes
  <2>. QED  BY <1>1, <1>2, <2>1, <2>2, <2>3, <2>4, <2>5, <2>6 DEF Serve
<1>3. ASSUME ~Destruction(t), t = Worker, Work
      PROVE  FALSE
  <2>1. CASE TakeJob \/ FreeJob
    BY <1>0, <1>3, <2>1, TakeJobDoes, FreeJobDoes DEF Control
  <2>2. CASE Announce \/ Report
    <3>1. At(Worker, "announce") \/ At(Worker, "report")
      BY <2>2 DEF Announce, Report
    <3>2. current \in Jobs
      BY <3>1, WorkerAt DEF At
    <3>. QED  BY <1>0, <1>3, <2>2, <3>2, AnnounceDoes, ReportWrites DEF Control
  <2>3. CASE FindMachine
    <3>1. CASE Move(Worker, "report", FALSE)
      <4>1. thread'[Worker].pc = "report"
        BY <3>1, WorkerMoves DEF Places
      <4>. QED  BY <1>3, <4>1
    <3>2. CASE ~Move(Worker, "report", FALSE)
      <4>1. thread' = [thread EXCEPT ![Worker].vm = context[current].vm,
              ![Worker].pc = IF context[current].provision THEN "provision" ELSE "device"]
        BY <2>3, <3>2 DEF FindMachine
      <4>. QED  BY <1>3, <4>1, WorkerAt DEF Ready, Locals
    <3>. QED  BY <3>1, <3>2
  <2>4. CASE ProvisionDisks \/ ModifyResources
    <3>1. FailPlace(Worker) \in {"list", "report", "idle"}
      BY DEF FailPlace
    <3>. QED  BY <1>0, <1>3, <2>4, <3>1, ProvisionDisksDoes, ModifyResourcesDoes
  <2>. QED  BY <1>1, <1>3, <2>1, <2>2, <2>3, <2>4 DEF Work
<1>4. ASSUME t \in Callers, Request(t)
      PROVE  FALSE
  BY <1>4, RequestOnly
<1>5. ASSUME NEW c \in Callers, Serve(c) \/ Request(c), c # t
      PROVE  thread'[t] = thread[t]
  BY <1>5, ServeOnly, RequestOnly DEF Only
<1>6. ASSUME Work, t # Worker
      PROVE  thread'[t] = thread[t]
  BY <1>6, WorkOnly DEF Only
<1>7. CASE Others
  BY <1>7, OthersOnly
<1>. QED  BY <1>2, <1>3, <1>4, <1>5, <1>6, <1>7 DEF Next

-----------------------------------------------------------------------------
(* What a destruction leaves behind                                        *)

\* A thread that goes through the VBDs of machine v, and nobody interferes: it is the
\* only one, and each disk that was the machine's own is gone, or all its users are
\* VBDs still to be looked at.
Alone(t, v) == \A u \in Threads : Destroys(u, v) => u = t
Going(r) ==
    /\ r.pc = "destroy_vm" => r.left = {}
    /\ r.pc \in {"look", "destroy_vdi", "destroy_vbd"} => r.left # {}
    /\ r.pc = "look" => r.ok
Awaits(r, d) ==
    /\ disk[d] = "there" /\ d \notin Protected
    /\ UsersOf(d) # {} /\ UsersOf(d) \subseteq r.left
    /\ r.pc = "destroy_vbd" => UsersOf(d) # {r.vbd}
    /\ r.pc = "destroy_vbd" /\ r.vbd[3] = d => r.ok
Walk(t, v) ==
    /\ Alone(t, v) /\ Going(thread[t]) /\ thread[t].left \subseteq vbds
    /\ \A d \in owned[v] : disk[d] = "gone" \/ Awaits(thread[t], d)

Halts(v) == v \in Vms /\ v \notin disturbed /\ power[v] = "Halted"
Walks == ~faults => \A t \in Threads, v \in Vms : Destroys(t, v) /\ Halts(v) => Walk(t, v)

\* A machine that was destroyed, and nobody interfered, has left no disk.
Emptied ==
    ~faults => \A v \in Vms : power[v] = "gone" /\ v \notin disturbed =>
                 \A d \in owned[v] : disk[d] = "gone"

\* A thread in the middle of a destruction has the machine in hand.
LEMMA DestructionKeeps ==
  ASSUME Control, NEW t \in Threads, Destruction(t)
  PROVE  /\ Only(t) /\ thread[t] \in Locals /\ Sound(thread[t])
         /\ thread[t].vm \in Vms /\ power[thread[t].vm] # "none"
         /\ thread[t].pc \in Destroying
         /\ thread'[t].pc \in Walked => thread'[t].vm = thread[t].vm
<1>. USE TypeParts DEF Leads
<1>1. thread[t].pc \in Destroying
  BY DEF Destruction, ListVbds, LookAtDisk, DestroyDisk, DestroyVbd, DestroyVm, At, Destroying
<1>2. /\ thread[t].vm \in Vms /\ power[thread[t].vm] # "none" /\ thread[t].call # "remove"
      /\ thread[t] \in Locals /\ Sound(thread[t])
  <2>1. CASE t \in Callers
    BY <1>1, <2>1, BusyWith, CallOf DEF Destroying, Control, Steady
  <2>2. CASE t = Worker
    BY <1>1, <2>2, WorkerAt, WorkerWith DEF Destroying, Control, Steady
  <2>. QED  BY <2>1, <2>2 DEF Threads
<1>3. Only(t) /\ (thread'[t].pc \in Walked => thread'[t].vm = thread[t].vm)
  <2>0. Idle.pc \notin Walked
    BY DEF Idle, Walked, Destroying
  <2>1. CASE ListVbds(t)
    BY <1>2, <2>0, <2>1, ListVbdsDoes DEF Keeps
  <2>2. CASE LookAtDisk(t) \/ DestroyDisk(t)
    BY <2>0, <2>2, LookAtDiskDoes, DestroyDiskDoes DEF Keeps
  <2>3. CASE DestroyVbd(t) \/ DestroyVm(t)
    BY <1>2, <2>0, <2>3, DestroyVbdDoes, DestroyVmDoes DEF Keeps
  <2>. QED  BY <2>1, <2>2, <2>3 DEF Destruction
<1>. QED  BY <1>1, <1>2, <1>3

\* Two threads that destroy one machine disturb each other.
LEMMA NoClash ==
  ASSUME Control, Walks, ~faults, NEW t \in Threads, NEW u \in Threads, u # t, NEW v \in Vms,
         Destroys(t, v), Destruction(u), thread[u].vm = v, Halts(v)'
  PROVE  FALSE
<1>. USE TypeParts DEF Ready, Order, WorldType
<1>1. CASE ListVbds(u)
  <2>1. UNCHANGED power
    BY <1>1 DEF ListVbds, world
  <2>2. There(v)
    BY <2>1 DEF Halts, There
  <2>3. v \in disturbed'
    BY <1>1, <2>2 DEF ListVbds, Misses
  <2>. QED  BY <2>3 DEF Halts
<1>2. CASE LookAtDisk(u) \/ DestroyDisk(u) \/ DestroyVbd(u) \/ DestroyVm(u)
  <2>1. UNCHANGED disturbed
    BY <1>2 DEF LookAtDisk, DestroyDisk, DestroyVbd, DestroyVm, history
  <2>2. power[v] = "Halted"
    <3>1. CASE LookAtDisk(u) \/ DestroyDisk(u) \/ DestroyVbd(u)
      BY <3>1 DEF LookAtDisk, DestroyDisk, DestroyVbd, world, Halts
    <3>2. CASE DestroyVm(u)
      BY <3>2 DEF DestroyVm, Halts
    <3>. QED  BY <1>2, <3>1, <3>2
  <2>3. Destroys(u, v)
    BY <1>2 DEF LookAtDisk, DestroyDisk, DestroyVbd, DestroyVm, At, Destroys
  <2>. QED  BY <2>1, <2>2, <2>3 DEF Walks, Walk, Alone, Halts
<1>. QED  BY <1>1, <1>2 DEF Destruction

\* A step of somebody else does not interfere, or is seen to.
LEMMA OthersWalk ==
  ASSUME Control, Started, Walks, ~faults, Next, NEW t \in Threads, NEW v \in Vms,
         ~Destruction(t), Destroys(t, v), Halts(v)'
  PROVE  Calm(v) /\ Halts(v) /\ Alone(t, v)'
<1>0. power[v] # "none"
  <2>1. thread[t].vm = v /\ thread[t].pc \in Destroying
    BY DEF Destroys, Destroying
  <2>2. CASE t \in Callers
    BY <2>1, <2>2, BusyWith DEF Destroying
  <2>3. CASE t = Worker
    BY <2>1, <2>3, WorkerAt, WorkerWith DEF Destroying
  <2>. QED  BY <2>2, <2>3 DEF Threads
<1>1. v \notin disturbed' /\ power'[v] = "Halted"
  BY DEF Halts
<1>2. ASSUME NEW u \in Threads, Devices(u) \/ Destruction(u)
      PROVE  Calm(v)
  BY <1>1, <1>2, DevicesCalm, DestructionCalm, DestructionKeeps, NoClash
<1>3. ASSUME NEW c \in Callers, Serve(c)
      PROVE  Calm(v)
  BY <1>0, <1>1, <1>2, <1>3, CallOf, ServeCalm DEF Serve
<1>4. ASSUME Work
      PROVE  Calm(v)
  BY <1>1, <1>2, <1>4, WorkerIs, WorkCalm DEF Work
<1>5. Calm(v)
  BY <1>1, <1>3, <1>4, OthersCalm DEF Next
<1>6. Halts(v)
  BY <1>5 DEF Calm, Halts
<1>7. ASSUME NEW u \in Threads, Destroys(u, v)', u # t
      PROVE  FALSE
  <2>1. thread'[u].pc \in Walked /\ thread'[u].vm = v
    BY <1>7 DEF Destroys, Walked, Destroying
  <2>2. CASE thread'[u] = thread[u]
    <3>1. Destroys(u, v)
      BY <1>7, <2>2 DEF Destroys
    <3>. QED  BY <1>6, <1>7, <3>1 DEF Walks, Walk, Alone
  <2>3. CASE Destruction(u)
    BY <1>7, <2>1, <2>3, DestructionKeeps, NoClash
  <2>. QED  BY <2>1, <2>2, <2>3, NotWalking
<1>. QED  BY <1>5, <1>6, <1>7 DEF Alone

\* The thread that goes through the VBDs finds them as they were.
LEMMA WalkStays ==
  ASSUME Control, Next, NEW t \in Threads, NEW v \in Vms, Destroys(t, v), Walk(t, v), Calm(v),
         thread'[t] = thread[t], Alone(t, v)'
  PROVE  Walk(t, v)'
<1>1. PICK r : r = thread[t]
  OBVIOUS
<1>2. \A b \in r.left : b[1] = v
  BY <1>1 DEF Control, Steady, Sound, Destroys, Walk, Going
<1>3. r.left \subseteq vbds'
  BY <1>1, <1>2 DEF Walk, Calm, VbdsOf
<1>4. ASSUME NEW d \in owned[v]
      PROVE  (disk[d] = "gone" \/ Awaits(r, d))'
  <2>1. d \in Disks
    BY TypeParts DEF HistoryType
  <2>2. CASE disk[d] = "gone"
    BY <2>1, <2>2, DisksStay
  <2>3. CASE Awaits(r, d)
    <3>1. UsersOf(d) # {} /\ \A b \in UsersOf(d) : b[1] = v
      BY <1>2, <2>3 DEF Awaits
    <3>2. UsersOf(d)' = UsersOf(d)
      BY <2>1, <3>1 DEF Calm, UsersOf
    <3>3. disk'[d] \in {"there", "gone"}
      BY <2>1, <2>3, DisksStay DEF Awaits
    <3>. QED  BY <2>3, <3>2, <3>3 DEF Awaits
  <2>. QED  BY <1>1, <1>4, <2>2, <2>3 DEF Walk
<1>5. owned'[v] = owned[v]
  BY DEF Calm
<1>. QED  BY <1>1, <1>3, <1>4, <1>5 DEF Walk, Awaits, Going

\* The list of VBDs is that of all the machine has, and its own disks are used by
\* nothing else.
LEMMA ListVbdsWalks ==
  ASSUME Control, ~faults, NEW t \in Threads, NEW v \in Vms, thread[t].vm = v, ListVbds(t),
         Halts(v)'
  PROVE  Walk(t, v)'
<1>. USE TypeParts DEF Ready, Order, WorldType, HistoryType
<1>1. UNCHANGED world
  BY DEF ListVbds
<1>2. There(v) /\ power[v] = "Halted"
  BY <1>1 DEF There, Halts, world
<1>3. /\ thread' = [thread EXCEPT ![t].pc = IF VbdsOf(v) = {} THEN "destroy_vm" ELSE "look",
                                  ![t].left = VbdsOf(v), ![t].ok = TRUE]
      /\ owned' = [owned EXCEPT ![v] = Owned(v)]
      /\ disturbed' = IF power[v] = "Halted" /\ \A u \in Threads \ {t} : ~Destroys(u, v)
                        THEN disturbed \ {v} ELSE disturbed \cup {v}
  BY <1>2 DEF ListVbds, Misses
<1>4. /\ thread'[t].pc = IF VbdsOf(v) = {} THEN "destroy_vm" ELSE "look"
      /\ thread'[t].left = VbdsOf(v) /\ thread'[t].ok
      /\ \A u \in Threads \ {t} : thread'[u] = thread[u]
  <2>1. thread[t] \in Locals
    OBVIOUS
  <2>. QED  BY <1>3, <2>1 DEF Locals
<1>5. Alone(t, v)'
  BY <1>3, <1>4 DEF Alone, Destroys, Halts
<1>6. VbdsOf(v) \subseteq vbds'
  BY <1>1 DEF VbdsOf, world
<1>7. ASSUME NEW d \in Owned(v)
      PROVE  Awaits(thread[t], d)'
  <2>1. disk[d] = "there" /\ d \notin Protected /\ UsersOf(d) # {} /\ UsersOf(d) \subseteq VbdsOf(v)
    BY DEF Owned, VbdsOf, UsersOf
  <2>. QED  BY <1>1, <1>4, <2>1 DEF Awaits, UsersOf, world
<1>8. owned'[v] = Owned(v)
  BY <1>3
<1>. QED  BY <1>4, <1>5, <1>6, <1>7, <1>8 DEF Walk, Going

\* The one user of an own disk is seen to be so.
LEMMA LookAtDiskWalks ==
  ASSUME Control, ~faults, NEW t \in Threads, NEW v \in Vms, thread[t].vm = v, LookAtDisk(t),
         Walk(t, v)
  PROVE  Walk(t, v)'
<1>. USE TypeParts DEF Ready, Order, WorldType, HistoryType
<1>1. thread[t].ok /\ UNCHANGED <<world, disturbed, owned>> /\ At(t, "look")
  BY DEF LookAtDisk, history, Walk, Going, At
<1>2. PICK b \in thread[t].left :
        LET can == thread[t].ok /\ b \in vbds /\ b[3] # NoDisk /\ disk[b[3]] = "there"
            alone == Cardinality(UsersOf(b[3])) = 1 /\ b[3] \notin Protected
            next == [thread EXCEPT ![t].vbd = b, ![t].seen = UsersOf(b[3])] IN
        \/ /\ can /\ alone
           /\ thread' = [next EXCEPT ![t].pc = "destroy_vdi"]
        \/ /\ can /\ ~alone
           /\ thread' = [next EXCEPT ![t].pc = "destroy_vbd"]
        \/ /\ ~can
           /\ thread' = [next EXCEPT ![t].pc = "destroy_vbd", ![t].ok = FALSE]
  BY DEF LookAtDisk, Misses
<1>. DEFINE can == thread[t].ok /\ b \in vbds /\ b[3] # NoDisk /\ disk[b[3]] = "there"
            alone == Cardinality(UsersOf(b[3])) = 1 /\ b[3] \notin Protected
<1>3. /\ thread'[t].vbd = b /\ thread'[t].left = thread[t].left
      /\ \A u \in Threads \ {t} : thread'[u] = thread[u]
      /\ thread'[t].pc = IF can /\ alone THEN "destroy_vdi" ELSE "destroy_vbd"
      /\ can => thread'[t].ok
  <2>1. thread[t] \in Locals
    OBVIOUS
  <2>2. CASE can /\ alone
    BY <1>1, <1>2, <2>1, <2>2 DEF Locals
  <2>3. CASE can /\ ~alone
    BY <1>1, <1>2, <2>1, <2>3 DEF Locals
  <2>4. CASE ~can
    BY <1>1, <1>2, <2>1, <2>4 DEF Locals
  <2>. QED  BY <2>2, <2>3, <2>4
<1>4. Alone(t, v)'
  BY <1>3 DEF Alone, Destroys, Walk
<1>5. thread[t].left \subseteq vbds' /\ thread[t].left # {}
  BY <1>1 DEF Walk, world
<1>6. ASSUME NEW d \in owned[v], Awaits(thread[t], d)
      PROVE  Awaits(thread[t], d)'
  <2>1. d \in Disks /\ d # NoDisk /\ b \in vbds
    BY SystemManagementAssumption DEF Walk
  <2>2. b[3] = d => can
    BY <1>1, <1>6, <2>1 DEF Awaits
  <2>3. UsersOf(d) = {b} => can /\ alone
    <3>1. UsersOf(d) = {b} => b[3] = d
      BY DEF UsersOf
    <3>2. UsersOf(d) = {b} => Cardinality(UsersOf(d)) = 1
      BY FS_Singleton
    <3>. QED  BY <1>6, <2>2, <3>1, <3>2 DEF Awaits
  <2>4. UsersOf(d)' = UsersOf(d) /\ disk' = disk
    BY <1>1 DEF UsersOf, world
  <2>. HIDE DEF can, alone
  <2>. QED  BY <1>3, <1>6, <2>2, <2>3, <2>4 DEF Awaits
<1>7. owned' = owned /\ disk' = disk
  BY <1>1 DEF world
<1>. QED  BY <1>3, <1>4, <1>5, <1>6, <1>7 DEF Walk, Going

\* It is destroyed, as the machine does not run.
LEMMA DestroyDiskWalks ==
  ASSUME Control, ~faults, Next, NEW t \in Threads, NEW v \in Vms, thread[t].vm = v,
         DestroyDisk(t), Walk(t, v), Halts(v)
  PROVE  Walk(t, v)'
<1>. USE TypeParts DEF Ready, Order, WorldType, HistoryType
<1>1. /\ At(t, "destroy_vdi") /\ Move(t, "destroy_vbd", TRUE)
      /\ UNCHANGED <<vbds, plugged, power, owned>>
  BY DEF DestroyDisk
<1>2. PICK b : b = thread[t].vbd
  OBVIOUS
<1>3. /\ thread'[t].pc = "destroy_vbd" /\ thread'[t].ok = TRUE
      /\ Same(thread[t], thread'[t]) /\ Only(t)
  BY <1>1, MoveWent DEF Went, Places
<1>4. Alone(t, v)'
  BY <1>3 DEF Alone, Destroys, Walk, Only
<1>5. thread[t].left # {} /\ \A u \in thread[t].left : u[1] = v
  BY <1>1 DEF Walk, Going, At, Control, Steady, Sound
<1>6. ASSUME NEW d \in owned[v], Awaits(thread[t], d)
      PROVE  disk'[d] = "gone" \/ Awaits(thread[t], d)'
  <2>1. d \in Disks
    OBVIOUS
  <2>2. CASE UsersOf(d) = {b}
    <3>1. b[3] = d /\ b[1] = v
      BY <1>5, <1>6, <2>2 DEF UsersOf, Awaits
    <3>2. UsersOf(d) \cap plugged = {}
      BY <2>2, <3>1 DEF Halts
    <3>3. disk' = [disk EXCEPT ![d] = "gone"]
      BY <1>2, <1>6, <3>1, <3>2 DEF DestroyDisk, Misses, Awaits
    <3>. QED  BY <2>1, <3>3
  <2>3. CASE UsersOf(d) # {b}
    <3>1. disk'[d] \in {"there", "gone"}
      BY <1>6, <2>1, DisksStay DEF Awaits
    <3>2. UsersOf(d)' = UsersOf(d)
      BY <1>1 DEF UsersOf
    <3>. QED  BY <1>2, <1>3, <1>6, <2>3, <3>1, <3>2 DEF Awaits, Same
  <2>. QED  BY <2>2, <2>3
<1>7. \A d \in owned[v] : disk[d] = "gone" => disk'[d] = "gone"
  BY DisksStay
<1>. QED  BY <1>1, <1>3, <1>4, <1>5, <1>6, <1>7 DEF Walk, Going, Same

\* After a VBD the own disks that are left are those of the VBDs that are left.
LEMMA DestroyVbdWalks ==
  ASSUME Control, ~faults, NEW t \in Threads, NEW v \in Vms, thread[t].vm = v,
         DestroyVbd(t), Walk(t, v), Halts(v)
  PROVE  Walk(t, v)'
<1>. USE TypeParts DEF Ready, Order, WorldType, HistoryType
<1>1. At(t, "destroy_vbd") /\ UNCHANGED <<disk, plugged, power, owned>>
  BY DEF DestroyVbd, history
<1>2. PICK b, L : b = thread[t].vbd /\ L = thread[t].left \ {b}
  OBVIOUS
<1>3. /\ thread'[t].pc = (IF L = {} THEN "destroy_vm" ELSE "look")
      /\ thread'[t].left = L /\ thread'[t].ok
      /\ \A u \in Threads \ {t} : thread'[u] = thread[u]
  <2>1. thread[t] \in Locals
    OBVIOUS
  <2>2. thread' = [thread EXCEPT ![t].pc = IF L = {} THEN "destroy_vm" ELSE "look",
                     ![t].left = L, ![t].vbd = <<>>, ![t].seen = {}, ![t].ok = TRUE]
    BY <1>2 DEF DestroyVbd
  <2>. QED  BY <2>1, <2>2 DEF Locals
<1>4. Alone(t, v)'
  BY <1>1, <1>3 DEF Alone, Destroys, Walk, At
<1>5. b \in thread[t].left /\ b \in vbds /\ b[1] = v
  BY <1>1, <1>2 DEF Walk, At, Control, Steady, Sound
<1>6. b \notin plugged
  BY <1>5 DEF Halts
<1>7. /\ thread[t].ok => vbds' = vbds \ {b}
      /\ ~thread[t].ok => vbds' = vbds
  BY <1>2, <1>5, <1>6 DEF DestroyVbd, Misses
<1>8. L \subseteq vbds'
  BY <1>2, <1>7 DEF Walk
<1>9. ASSUME NEW d \in owned[v], Awaits(thread[t], d)
      PROVE  Awaits(thread[t], d)'
  <2>1. /\ disk[d] = "there" /\ d \notin Protected /\ UsersOf(d) # {} /\ UsersOf(d) # {b}
        /\ UsersOf(d) \subseteq thread[t].left /\ (b[3] = d => thread[t].ok)
    BY <1>1, <1>2, <1>9 DEF Awaits, At
  <2>2. UsersOf(d)' = UsersOf(d) \ {b}
    BY <1>7, <2>1 DEF UsersOf
  <2>3. UsersOf(d)' # {} /\ UsersOf(d)' \subseteq L
    BY <1>2, <2>1, <2>2
  <2>. QED  BY <1>1, <1>3, <2>1, <2>3 DEF Awaits
<1>. QED  BY <1>1, <1>3, <1>4, <1>8, <1>9 DEF Walk, Going

\* Every step keeps what is known of the destructions that nobody interferes with.
LEMMA WalksKept ==
  ASSUME Control, Started, Walks, Next
  PROVE  Walks'
<1>. SUFFICES ASSUME ~faults, NEW t \in Threads, NEW v \in Vms, Destroys(t, v)', Halts(v)'
              PROVE  Walk(t, v)'
  BY FaultsStay DEF Walks
<1>1. thread'[t].pc \in Walked /\ thread'[t].vm = v
  BY DEF Destroys, Walked, Destroying
<1>2. CASE Destruction(t)
  <2>1. thread[t].vm = v
    BY <1>1, <1>2, DestructionKeeps
  <2>2. CASE ListVbds(t)
    BY <2>1, <2>2, ListVbdsWalks
  <2>3. CASE LookAtDisk(t) \/ DestroyDisk(t) \/ DestroyVbd(t)
    <3>1. UNCHANGED <<power, disturbed>>
      BY <2>3 DEF LookAtDisk, DestroyDisk, DestroyVbd, world, history
    <3>2. Destroys(t, v)
      BY <2>1, <2>3 DEF LookAtDisk, DestroyDisk, DestroyVbd, At, Destroys
    <3>3. Halts(v) /\ Walk(t, v)
      BY <3>1, <3>2 DEF Halts, Walks
    <3>. QED  BY <2>1, <2>3, <3>3, LookAtDiskWalks, DestroyDiskWalks, DestroyVbdWalks
  <2>4. CASE DestroyVm(t)
    <3>1. thread'[t].pc \in {"report", "idle"}
      BY <2>1, <2>4, TypeParts, DestroyVmDoes DEF Leads, Idle
    <3>. QED  BY <1>1, <3>1 DEF Walked, Destroying
  <2>. QED  BY <1>2, <2>2, <2>3, <2>4 DEF Destruction
<1>3. CASE ~Destruction(t)
  <2>1. thread'[t] = thread[t]
    BY <1>1, <1>3, NotWalking
  <2>2. Destroys(t, v)
    BY <2>1 DEF Destroys
  <2>3. Calm(v) /\ Halts(v) /\ Alone(t, v)'
    BY <1>3, <2>2, OthersWalk
  <2>4. Walk(t, v)
    BY <2>2, <2>3 DEF Walks
  <2>. QED  BY <2>1, <2>2, <2>3, <2>4, WalkStays
<1>. QED  BY <1>2, <1>3

\* What was noted of a machine that is gone stays.
LEMMA NotesStay ==
  ASSUME Control, Next, NEW v \in Vms, ~There(v)
  PROVE  (v \in disturbed => v \in disturbed') /\ owned'[v] = owned[v]
<1>. DEFINE Notes == (v \in disturbed => v \in disturbed') /\ owned'[v] = owned[v]
<1>1. UNCHANGED <<disturbed, owned>> => Notes
  OBVIOUS
<1>2. disturbed \subseteq disturbed' /\ UNCHANGED owned => Notes
  OBVIOUS
<1>. HIDE DEF Notes
<1>3. ASSUME NEW t \in Threads, Devices(t) \/ Destruction(t)
      PROVE  Notes
  <2>1. CASE AllAdded(t) \/ CreateVif(t) \/ FindDisk(t) \/ NameDevice(t)
    BY <1>1, <2>1 DEF AllAdded, CreateVif, FindDisk, NameDevice, history
  <2>2. CASE CreateVbd(t)
    BY <1>2, <2>2 DEF CreateVbd, Plug
  <2>3. CASE ListVbds(t)
    BY <2>3, TypeParts DEF ListVbds, HistoryType, Notes
  <2>4. CASE LookAtDisk(t) \/ DestroyDisk(t) \/ DestroyVbd(t) \/ DestroyVm(t)
    BY <1>1, <2>4 DEF LookAtDisk, DestroyDisk, DestroyVbd, DestroyVm, history
  <2>. QED  BY <1>3, <2>1, <2>2, <2>3, <2>4 DEF Devices, Destruction
<1>4. ASSUME NEW c \in Callers, Serve(c)
      PROVE  Notes
  <2>1. CASE CreateMachine(c) \/ ReadCreated(c) \/ SetUp(c)
    BY <1>1, <2>1 DEF CreateMachine, ReadCreated, SetUp, history
  <2>2. CASE SubmitJob(c) \/ ReadPowerState(c)
    BY <1>1, <2>2 DEF SubmitJob, ReadPowerState, history
  <2>3. CASE RemoveVbd(c)
    BY <1>2, <2>3 DEF RemoveVbd
  <2>. QED  BY <1>3, <1>4, <2>1, <2>2, <2>3, CallOf DEF Serve
<1>5. ASSUME Work
      PROVE  Notes
  <2>1. CASE TakeJob \/ Announce \/ FindMachine
    BY <1>1, <2>1 DEF TakeJob, Announce, FindMachine, history
  <2>2. CASE ProvisionDisks
    BY <1>1, <1>2, <2>2 DEF ProvisionDisks, Plug
  <2>3. CASE ModifyResources \/ Report \/ FreeJob
    BY <1>1, <2>3 DEF ModifyResources, Report, FreeJob, history
  <2>. QED  BY <1>3, <1>5, <2>1, <2>2, <2>3, WorkerIs DEF Work
<1>6. ASSUME NEW c \in Callers, Request(c)
      PROVE  Notes
  BY <1>1, <1>6 DEF Request, DefineSystem, AddResourceSettings, AddResourceSetting,
                    RemoveResourceSettings, DestroySystem, Asks, history
<1>7. ASSUME Others
      PROVE  Notes
  <2>1. disturbed \subseteq disturbed' /\ UNCHANGED owned
    BY <1>7 DEF Others, KillJob, StartVm, StopVm, Attach, Plug, history
  <2>. QED  BY <1>2, <2>1
<1>8. Notes
  BY <1>4, <1>5, <1>6, <1>7 DEF Next
<1>. QED  BY <1>8 DEF Notes

\* A machine goes only at the end of its destruction.
LEMMA GoesBy ==
  ASSUME Control, Next, NEW v \in Vms, power[v] # "gone", power'[v] = "gone"
  PROVE  \E t \in Threads : DestroyVm(t) /\ thread[t].vm = v /\ power[v] = "Halted"
<1>. DEFINE Goner == \E t \in Threads : DestroyVm(t) /\ thread[t].vm = v /\ power[v] = "Halted"
<1>0. power \in [Vms -> {"none", "Halted", "Running", "gone"}]
  BY TypeParts DEF Ready, Order, WorldType
<1>1. UNCHANGED power => FALSE
  OBVIOUS
<1>2. ASSUME NEW w, NEW p \in {"Halted", "Running"}, power' = [power EXCEPT ![w] = p]
      PROVE  FALSE
  BY <1>0, <1>2
<1>. HIDE DEF Goner
<1>3. ASSUME NEW t \in Threads, Devices(t) \/ Destruction(t)
      PROVE  Goner
  <2>1. CASE Devices(t)
    BY <1>1, <2>1 DEF Devices, AllAdded, CreateVif, FindDisk, CreateVbd, NameDevice, world
  <2>2. CASE ListVbds(t) \/ LookAtDisk(t) \/ DestroyDisk(t) \/ DestroyVbd(t)
    BY <1>1, <2>2 DEF ListVbds, LookAtDisk, DestroyDisk, DestroyVbd, world
  <2>3. CASE DestroyVm(t)
    <3>1. /\ power[thread[t].vm] = "Halted" /\ power' = [power EXCEPT ![thread[t].vm] = "gone"]
      BY <1>1, <2>3 DEF DestroyVm
    <3>2. thread[t].vm = v
      BY <1>0, <3>1
    <3>. QED  BY <2>3, <3>1, <3>2 DEF Goner
  <2>. QED  BY <1>3, <2>1, <2>2, <2>3 DEF Destruction
<1>4. ASSUME NEW c \in Callers, Serve(c)
      PROVE  Goner
  <2>1. CASE CreateMachine(c)
    BY <1>1, <1>2, <2>1 DEF CreateMachine
  <2>2. CASE ReadCreated(c) \/ SetUp(c) \/ SubmitJob(c) \/ RemoveVbd(c)
    BY <1>1, <2>2 DEF ReadCreated, SetUp, SubmitJob, RemoveVbd, world
  <2>3. CASE ReadPowerState(c)
    BY <1>1, <1>2, <2>3 DEF ReadPowerState, world
  <2>. QED  BY <1>3, <1>4, <2>1, <2>2, <2>3, CallOf DEF Serve
<1>5. ASSUME Work
      PROVE  Goner
  <2>1. CASE TakeJob \/ Announce \/ FindMachine
    BY <1>1, <2>1 DEF TakeJob, Announce, FindMachine, world
  <2>2. CASE ProvisionDisks \/ ModifyResources \/ Report \/ FreeJob
    BY <1>1, <2>2 DEF ProvisionDisks, ModifyResources, Report, FreeJob, world
  <2>. QED  BY <1>3, <1>5, <2>1, <2>2, WorkerIs DEF Work
<1>6. ASSUME NEW c \in Callers, Request(c)
      PROVE  Goner
  BY <1>1, <1>6, RequestOnly DEF world
<1>7. ASSUME Others
      PROVE  Goner
  <2>1. CASE \E j \in Jobs : KillJob(j)
    BY <1>1, <2>1 DEF KillJob, world
  <2>2. CASE \E w \in Vms : StartVm(w) \/ StopVm(w)
    BY <1>2, <2>2 DEF StartVm, StopVm
  <2>3. CASE \E w \in Vms, d \in Disks : Attach(w, d)
    BY <1>1, <2>3 DEF Attach
  <2>. QED  BY <1>7, <2>1, <2>2, <2>3 DEF Others
<1>8. Goner
  BY <1>4, <1>5, <1>6, <1>7 DEF Next
<1>. QED  BY <1>8 DEF Goner

\* With the last VBD the last disk is gone.
LEMMA EmptiedKept ==
  ASSUME Control, Walks, Emptied, Next
  PROVE  Emptied'
<1>. SUFFICES ASSUME ~faults, NEW v \in Vms, power'[v] = "gone", v \notin disturbed',
                     NEW d \in owned'[v]
              PROVE  disk'[d] = "gone"
  BY FaultsStay DEF Emptied
<1>1. CASE power[v] = "gone"
  <2>1. v \notin disturbed /\ owned'[v] = owned[v]
    BY <1>1, NotesStay DEF There
  <2>2. d \in Disks /\ disk[d] = "gone"
    BY <1>1, <2>1, TypeParts DEF HistoryType, Emptied
  <2>. QED  BY <2>2, DisksStay
<1>2. CASE power[v] # "gone"
  <2>1. PICK t \in Threads : DestroyVm(t) /\ thread[t].vm = v /\ power[v] = "Halted"
    BY <1>2, GoesBy
  <2>2. UNCHANGED <<disk, disturbed, owned>> /\ At(t, "destroy_vm")
    BY <2>1 DEF DestroyVm, history
  <2>3. Walk(t, v)
    BY <2>1, <2>2 DEF Walks, Destroys, At, Halts
  <2>4. thread[t].left = {} /\ (disk[d] = "gone" \/ Awaits(thread[t], d))
    BY <2>2, <2>3 DEF Walk, Going, At
  <2>. QED  BY <2>2, <2>4 DEF Awaits
<1>. QED  BY <1>1, <1>2

\* What is said of the machines that are destroyed.
Behind == Made /\ Unwinding /\ Unwound /\ Started /\ Walks /\ Emptied

\* Nothing is destroyed at first.
LEMMA InitBehind == Init => Behind
<1>. SUFFICES ASSUME Init PROVE Behind
  OBVIOUS
<1>1. Made
  BY InitMade
<1>2. Idle.pc = "idle" /\ \A t \in Threads : thread[t] = Idle
  BY DEF Idle, Init
<1>3. Unwinding /\ Walks
  BY <1>2, WorkerIs DEF Unwinding, Walks, Destroys, Destroying
<1>4. Unwound
  BY JobTaskAssumption DEF Init, Unwound, Is
<1>5. Started /\ Emptied
  BY DEF Init, Started, Emptied
<1>. QED  BY <1>1, <1>3, <1>4, <1>5 DEF Behind

\* Every step keeps what is said of the machines that are destroyed.
LEMMA NextBehind == Behind /\ [Next]_vars => Behind'
<1>. SUFFICES ASSUME Behind, [Next]_vars PROVE Behind'
  OBVIOUS
<1>1. Made'
  BY NextMade DEF Behind
<1>2. CASE UNCHANGED vars
  <2>1. Unwinding' /\ Unwound'
    BY <1>2 DEF vars, world, history, Behind, Unwinding, Unwound, service, Own
  <2>2. Started' /\ Emptied'
    BY <1>2 DEF vars, world, history, Behind, Started, Emptied
  <2>3. Walks'
    BY <1>2 DEF vars, world, history, Behind, Walks, Walk, Alone, Going, Awaits, Destroys, Halts,
                UsersOf
  <2>. QED  BY <1>1, <2>1, <2>2, <2>3 DEF Behind
<1>3. CASE Next
  <2>1. Control /\ Builds
    BY DEF Behind, Made, Building
  <2>. QED  BY <1>1, <1>3, <2>1, UnwindingKept, UnwoundKept, StartedKept, WalksKept, EmptiedKept
               DEF Behind
<1>. QED  BY <1>2, <1>3

\* When every call is answered, the job of a DefineSystem that says Exception has left no
\* machine behind, and a machine that was destroyed has left none of its own disks, unless
\* somebody else has interfered: add_resources_job removes what could not be completed, and
\* _vm_destroy goes through all the VBDs it has listed, whatever errors come in between.
THEOREM NothingLeft == Spec => []NothingLeftBehind
<1>1. Behind => NothingLeftBehind
  BY DEF Behind, NothingLeftBehind, Unwound, Emptied, Own
<1>. QED  BY InitBehind, NextBehind, <1>1, PTL DEF Spec
-----------------------------------------------------------------------------
(* A job never goes back                                                   *)

\* A task that has been destroyed, or whose job has not been announced yet; and one
\* whose job has not ended.
Early(t) == t = Gone \/ Is(t, "New")
Lasts(t) == Early(t) \/ Is(t, "Running")

\* A job that waits, or is to be announced, has not been.
Unannounced ==
    /\ \A n \in DOMAIN pending : Early(task[pending[n]])
    /\ At(Worker, "announce") => Early(task[current])

\* A task in one step goes forward, or ends without a code.
Forward(t, u) == Proceeds(t, u) \/ Uncoded(t, u)

\* The announcement takes a task forward, or leaves it as it is.
LEMMA AnnounceTask ==
  ASSUME NEW t \in Tasks, Early(t), faults \in BOOLEAN,
         NEW o \in ChangeState(t, "Running", FALSE, faults)
  PROVE  Proceeds(t, o.task)
<1>1. CASE t = Gone
  BY <1>1 DEF ChangeState, Proceeds
<1>2. CASE t # Gone
  <2>1. Is(t, "New") /\ t # Absent
    BY <1>2, JobTaskAssumption DEF Early, Is
  <2>2. t \in Tasks \ {Absent} /\ "Running" \in States /\ FALSE \in BOOLEAN
    BY <2>1 DEF States
  <2>3. o.task = t \/ o.task = [state |-> "Running", error |-> FALSE]
    BY <2>2, ChangedType
  <2>. QED  BY <2>1, <2>3 DEF Proceeds
<1>. QED  BY <1>1, <1>2

\* So does the report: a success has no code, a failure may have none.
LEMMA ReportTask ==
  ASSUME NEW t \in Tasks, Lasts(t), faults \in BOOLEAN,
         NEW st \in Final, NEW err \in BOOLEAN, st = "Completed" => ~err,
         NEW o \in ChangeState(t, st, err, faults)
  PROVE  Forward(t, o.task)
<1>1. CASE t = Gone
  BY <1>1 DEF ChangeState, Proceeds, Forward
<1>2. CASE t # Gone
  <2>1. (Is(t, "New") \/ Is(t, "Running")) /\ t # Absent
    BY <1>2, JobTaskAssumption DEF Early, Lasts, Is
  <2>2. o.task = t \/ o.task = [state |-> st, error |-> err]
    BY <2>1, ChangedType DEF States, Final
  <2>3. CASE st = "Completed"
    BY <2>1, <2>2, <2>3 DEF Proceeds, Forward
  <2>4. CASE st = "Exception"
    BY <2>1, <2>2, <2>4 DEF Proceeds, Uncoded, Forward
  <2>. QED  BY <2>3, <2>4 DEF Final
<1>. QED  BY <1>1, <1>2

\* The job at work has not ended, unless the worker is about to free it.
LEMMA AtWork ==
  ASSUME Control, Reported, Queue, current \in Jobs, task[current] # Absent,
         ~At(Worker, "free")
  PROVE  Lasts(task[current])
<1>1. task[current] \in Recorded \cup {Gone}
  BY TypeParts DEF JobsType, Tasks
<1>2. ~Is(task[current], "Completed") /\ ~Is(task[current], "Exception")
  BY DEF Reported, Queue
<1>. QED  BY <1>1, <1>2 DEF Lasts, Early, Is, Recorded, States

\* The steps of the callers: a job that is submitted is new.
LEMMA ServeForward ==
  ASSUME Control, Unannounced, NEW c \in Callers, Serve(c)
  PROVE  Unannounced' /\ \A j \in Jobs : Forward(task[j], task'[j])
<1>. USE TypeParts
<1>1. thread'[Worker] = thread[Worker] /\ current' = current
  BY ServeOnly, WorkerIs DEF Only
<1>2. CASE task' = task /\ pending' = pending
  BY <1>1, <1>2 DEF Unannounced, At, Forward, Proceeds
<1>3. CASE SubmitJob(c) /\ thread[c].ok
  <2>. DEFINE j == thread[c].job
  <2>1. j \in Jobs /\ task[j] = Absent
    BY <1>3, CallOf DEF SubmitJob, At, Asking
  <2>2. CASE task' = task /\ pending' = pending
    BY <1>1, <2>2 DEF Unannounced, At, Forward, Proceeds
  <2>3. CASE task' = [task EXCEPT ![j] = NewTask] /\ pending' = Append(pending, j)
    <3>1. /\ pending \in Seq(Jobs)
          /\ \A n \in DOMAIN pending' :
                pending'[n] = j \/ (n \in DOMAIN pending /\ pending'[n] = pending[n])
      BY <2>1, <2>3 DEF Control, Accepted
    <3>2. /\ \A n \in DOMAIN pending : pending[n] \in Jobs /\ pending[n] # j
          /\ At(Worker, "announce") => current \in Jobs /\ current # j
      BY <2>1, <3>1, WorkerAt DEF Control, Accepted, At
    <3>3. Early(NewTask)
      BY DEF Early, Is, NewTask, Recorded, States
    <3>4. task'[j] = NewTask /\ \A k \in Jobs \ {j} : task'[k] = task[k]
      BY <2>1, <2>3 DEF JobsType
    <3>. HIDE DEF j
    <3>5. Unannounced'
      BY <1>1, <3>1, <3>2, <3>3, <3>4 DEF Unannounced, At
    <3>6. \A k \in Jobs : Forward(task[k], task'[k])
      BY <2>1, <3>4 DEF Forward, Proceeds
    <3>. QED  BY <3>5, <3>6
  <2>. QED  BY <1>3, <2>2, <2>3 DEF SubmitJob, Service!Accept, service
<1>4. CASE SubmitJob(c) /\ ~thread[c].ok
  BY <1>2, <1>4 DEF SubmitJob, service
<1>5. CASE CreateMachine(c) \/ ReadCreated(c) \/ SetUp(c) \/ ReadPowerState(c) \/ RemoveVbd(c)
  BY <1>2, <1>5 DEF CreateMachine, ReadCreated, SetUp, ReadPowerState, RemoveVbd, service
<1>6. CASE Devices(c) \/ Destruction(c)
  BY <1>2, <1>6, CallOf, SharedLeaves DEF service
<1>. QED  BY <1>3, <1>4, <1>5, <1>6 DEF Serve

\* The steps of the worker: what it announces has waited, and what it reports has not ended.
LEMMA WorkForward ==
  ASSUME Control, Reported, Queue, Unannounced, Work
  PROVE  Unannounced' /\ \A j \in Jobs : Forward(task[j], task'[j])
<1>. USE TypeParts, WorkerAt
<1>0. /\ pending \in Seq(Jobs) /\ task \in [Jobs -> Tasks] /\ faults \in BOOLEAN
      /\ \A n \in DOMAIN pending : pending[n] \in Jobs /\ pending[n] # current
  BY DEF Control, Accepted, JobsType
<1>1. CASE TakeJob
  <2>1. /\ task' = task /\ pending # <<>> /\ current' = Head(pending)
        /\ pending' = Tail(pending)
    BY <1>1 DEF TakeJob, Service!Take
  <2>2. /\ 1 \in DOMAIN pending /\ current' = pending[1]
        /\ \A n \in DOMAIN pending' : n + 1 \in DOMAIN pending /\ pending'[n] = pending[n + 1]
    BY <1>0, <2>1
  <2>. QED  BY <2>1, <2>2 DEF Unannounced, Forward, Proceeds
<1>2. CASE Announce
  <2>1. At(Worker, "announce") /\ UNCHANGED service
    BY <1>2 DEF Announce
  <2>2. current \in Jobs /\ Early(task[current]) /\ task[current] \in Tasks
    BY <1>0, <2>1 DEF At, Unannounced
  <2>3. PICK o \in ChangeState(task[current], "Running", FALSE, faults) :
          task' = [task EXCEPT ![current] = o.task]
    BY <1>2 DEF Announce
  <2>4. Proceeds(task[current], o.task)
    BY <1>0, <2>2, <2>3, AnnounceTask
  <2>5. task'[current] = o.task /\ \A j \in Jobs \ {current} : task'[j] = task[j]
    BY <1>0, <2>2, <2>3
  <2>6. ~At(Worker, "announce")'
    BY <1>2, <2>2, AnnounceDoes DEF Control, Leads, At
  <2>7. Unannounced'
    BY <1>0, <2>1, <2>5, <2>6 DEF Unannounced, service
  <2>. QED  BY <2>4, <2>5, <2>7 DEF Forward, Proceeds
<1>3. CASE Report
  <2>1. At(Worker, "report") /\ UNCHANGED service
    BY <1>3 DEF Report
  <2>2. current \in Jobs /\ task[current] \in Tasks /\ Lasts(task[current])
    BY <1>0, <2>1, AtWork DEF At
  <2>3. thread'[Worker].pc \in {"free", "crashed"} /\ \A j \in Jobs \ {current} : task'[j] = task[j]
    BY <1>3, ReportWrites
  <2>4. Forward(task[current], task'[current])
    <3>1. CASE task' = task
      BY <3>1 DEF Forward, Proceeds
    <3>2. CASE task' # task
      <4>. DEFINE failed == thread[Worker].rc # "NoError"
                  st == IF failed THEN "Exception" ELSE "Completed"
      <4>1. PICK err \in IF thread[Worker].rc = "unset" THEN BOOLEAN ELSE {failed} :
              \E o \in ChangeState(task[current], st, err, faults) :
                task' = [task EXCEPT ![current] = o.task]
        BY <1>3, <3>2 DEF Report
      <4>2. PICK o \in ChangeState(task[current], st, err, faults) :
              task' = [task EXCEPT ![current] = o.task]
        BY <4>1
      <4>3. st \in Final /\ err \in BOOLEAN /\ (st = "Completed" => ~err)
        BY <4>1 DEF Final
      <4>4. task'[current] = o.task
        BY <1>0, <2>2, <4>2
      <4>. HIDE DEF st
      <4>. QED  BY <1>0, <2>2, <4>2, <4>3, <4>4, ReportTask
    <3>. QED  BY <3>1, <3>2
  <2>5. Unannounced'
    BY <1>0, <2>1, <2>3 DEF Unannounced, service, At
  <2>. QED  BY <2>3, <2>4, <2>5 DEF Forward, Proceeds
<1>4. CASE FreeJob
  <2>1. UNCHANGED <<task, pending>> /\ thread'[Worker] = Idle
    BY <1>4, FreeJobDoes DEF FreeJob, Service!Finish
  <2>. QED  BY <2>1 DEF Unannounced, At, Idle, Forward, Proceeds
<1>5. ASSUME UNCHANGED <<service, task>>, thread'[Worker].pc # "announce"
      PROVE  Unannounced' /\ \A j \in Jobs : Forward(task[j], task'[j])
  BY <1>5 DEF Unannounced, At, service, Forward, Proceeds
<1>6. CASE FindMachine
  <2>1. thread'[Worker].pc # "announce"
    BY <1>6, FindMachineDoes DEF FindMachine, At, Leads
  <2>. QED  BY <1>5, <1>6, <2>1 DEF FindMachine
<1>7. CASE ProvisionDisks \/ ModifyResources
  <2>1. thread'[Worker].pc # "announce"
    BY <1>7, ProvisionDisksDoes, ModifyResourcesDoes DEF Leads, Idle
  <2>. QED  BY <1>5, <1>7, <2>1 DEF ProvisionDisks, ModifyResources
<1>8. CASE Devices(Worker) \/ Destruction(Worker)
  <2>1. thread'[Worker].pc # "announce"
    BY <1>8, WorkerShares DEF WorkerGoes, Leads, Idle
  <2>. QED  BY <1>5, <1>8, <2>1, SharedLeaves
<1>. QED  BY <1>1, <1>2, <1>3, <1>4, <1>6, <1>7, <1>8 DEF Work

\* Each step takes every task forward.
LEMMA NextForward ==
  ASSUME Control, Reported, Queue, Unannounced, Next
  PROVE  Unannounced' /\ \A j \in Jobs : Forward(task[j], task'[j])
<1>1. CASE \E c \in Callers : Serve(c)
  BY <1>1, ServeForward
<1>2. CASE Work
  BY <1>2, WorkForward
<1>3. ASSUME NEW c \in Callers, Request(c)
      PROVE  Unannounced' /\ \A j \in Jobs : Forward(task[j], task'[j])
  <2>1. UNCHANGED <<service, task>> /\ thread'[Worker] = thread[Worker]
    BY <1>3, RequestOnly, WorkerIs DEF Only
  <2>. QED  BY <2>1 DEF Unannounced, At, service, Forward, Proceeds
<1>4. CASE Others
  <2>1. UNCHANGED <<service, thread>>
    BY <1>4, OthersOnly
  <2>2. CASE task' = task
    BY <2>1, <2>2 DEF Unannounced, At, service, Forward, Proceeds
  <2>3. ASSUME NEW j \in Jobs, KillJob(j)
        PROVE  Unannounced' /\ \A k \in Jobs : Forward(task[k], task'[k])
    <3>1. task' = [task EXCEPT ![j] = Gone] /\ task[j] \in Recorded
      BY <2>3 DEF KillJob, Destroy
    <3>2. /\ task \in [Jobs -> Tasks] /\ \A n \in DOMAIN pending : pending[n] \in Jobs
          /\ At(Worker, "announce") => current \in Jobs
      BY TypeParts, WorkerAt DEF JobsType, Control, Accepted, At
    <3>3. \A k \in Jobs : task'[k] = IF k = j THEN Gone ELSE task[k]
      BY <3>1, <3>2
    <3>. QED  BY <2>1, <3>1, <3>2, <3>3 DEF Unannounced, At, service, Early, Forward, Proceeds
  <2>. QED  BY <1>4, <2>2, <2>3 DEF Others, StartVm, StopVm, Attach
<1>. QED  BY <1>1, <1>2, <1>3, <1>4 DEF Next

\* No task of a job that adds devices goes back, and none that has ended is written again
\* except to be destroyed, while callers submit jobs and destroy machines beside the worker.
THEOREM NeverBack == Spec => JobsProceed
<1>1. Init => Unannounced
  <2>. SUFFICES ASSUME Init PROVE Unannounced
    OBVIOUS
  <2>1. pending = <<>> /\ thread[Worker] = Idle /\ Idle.pc = "idle"
    BY WorkerIs DEF Init, Service!Init, Idle
  <2>. QED  BY <2>1 DEF Unannounced, At
<1>2. Made /\ Unannounced /\ [Next]_vars =>
        /\ Unannounced'
        /\ [\A j \in Jobs :
              Proceeds(task[j], task'[j]) \/ Uncoded(task[j], task'[j])]_vars
  <2>. SUFFICES ASSUME Made, Unannounced, [Next]_vars
                PROVE  /\ Unannounced'
                       /\ [\A j \in Jobs :
                             Proceeds(task[j], task'[j]) \/ Uncoded(task[j], task'[j])]_vars
    OBVIOUS
  <2>1. CASE Next
    BY <2>1, NextForward DEF Made, Forward
  <2>2. CASE UNCHANGED vars
    BY <2>2 DEF vars, service, Unannounced, At
  <2>. QED  BY <2>1, <2>2
<1>. QED  BY <1>1, <1>2, InitMade, NextMade, PTL DEF Spec, JobsProceed
=============================================================================
