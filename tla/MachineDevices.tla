--------------------------- MODULE MachineDevices ---------------------------
(***************************************************************************)
(* The resource providers of virtual machines and of their devices: how    *)
(* xapi records become CIM instances and how an instance is found again.   *)
(* Each provider fills the same table of functions (XenProviderInstanceFT):*)
(*                                                                         *)
(*   ...Key          the property that identifies an instance              *)
(*   ...List         list_enum: the entries of an enumeration              *)
(*   ...Next         record_getnext: the resource read for an entry        *)
(*   ...Find         record_get_from_id: the resource an identifier names  *)
(*   ...Properties   set_properties: the instance made of a resource       *)
(*                                                                         *)
(* An entry is [obj, of]: the object listed and, where the provider keeps  *)
(* one, the part or the other object that belongs to it.  A resource is an *)
(* entry with the record that was read, [obj, of, rec].  Next, Find and    *)
(* Properties give a set of at most one element; the empty set is a failure*)
(* or an entry that is passed over.  An instance is the function of those  *)
(* of its properties that identify it or relate it to others; the rest is  *)
(* copied from the record or constant.  Properties reads in db again what  *)
(* the code reads again.                                                   *)
(***************************************************************************)
EXTENDS XapiObjects, FiniteSets, TLC

NoPart == <<>>
NoProperties == [p \in {} |-> NoName]

Entry(o, part) == [obj |-> o, of |-> part]
Resource(o, part, rec) == [obj |-> o, of |-> part, rec |-> rec]
Entries(table) == {Entry(o, NoPart) : o \in table}

\* The resource of object o of a table of records, if it is there and fits.
ReadAs(table, o, part, Fits(_)) ==
    {Resource(o, part, rec) : rec \in {r \in Read(table, o) : Fits(r)}}

Fitting(rec) == TRUE

-----------------------------------------------------------------------------
(* Disks and drives: the VBDs                                              *)

DiskMetrics == {"Xen_DiskReadThroughput", "Xen_DiskWriteThroughput",
                "Xen_DiskReadLatency", "Xen_DiskWriteLatency"}
DiskClasses == {"Xen_Disk", "Xen_DiskDrive", "Xen_DiskSettingData"} \cup DiskMetrics

DiskKey(class) == IF class \in {"Xen_Disk", "Xen_DiskDrive"} THEN "DeviceID" ELSE "InstanceID"

DiskList(db) == Entries(DOMAIN db.vbd)

\* A CD is no disk and a disk no drive; the settings and metrics are of both.
IsDiskOf(class, vbd) == /\ class = "Xen_Disk" => vbd.type # "CD"
                        /\ class = "Xen_DiskDrive" => vbd.type # "Disk"

DiskNext(db, class, e) ==
    LET Fits(vbd) == IsDiskOf(class, vbd) IN ReadAs(db.vbd, e.obj, NoPart, Fits)

DiskFind(db, class, id) ==
    LET Fits(vbd) == IsDiskOf(class, vbd)
    IN  ReadAs(db.vbd, DeviceNameFromID(id), NoPart, Fits)

\* disk_set_properties
DiskDevice(vm, vbd) == [DeviceID |-> NewDeviceInstanceID(vm, vbd), SystemName |-> vm]

\* disk_metrics_set_properties, disk_rasd_from_vbd
DiskMetric(vm, vbd) == [InstanceID |-> NewDeviceInstanceID(vm, vbd)]
DiskSettingData(vm, vbd) == [InstanceID |-> NewDeviceInstanceID(vm, vbd)]

\* The VM is read again; without it there is no instance.
DiskProperties(db, class, r) ==
    {CASE class \in {"Xen_Disk", "Xen_DiskDrive"} -> DiskDevice(r.rec.vm, r.obj)
       [] class = "Xen_DiskSettingData" -> DiskSettingData(r.rec.vm, r.obj)
       [] OTHER -> DiskMetric(r.rec.vm, r.obj) : v \in {r.rec.vm} \cap DOMAIN db.vm}

-----------------------------------------------------------------------------
(* Memory states: the suspend VDIs                                         *)

MemoryStateClasses == {"Xen_MemoryState"}

MemoryStateKey == "DeviceID"

\* Mutant: the suspend VDI is listed unread.
MemoryStateWalk_All(db, v) == {Entry(db.vm[u].suspend, u) : u \in {v} \cap DOMAIN db.vm}

\* One turn of the loop of list_enum over all VMs: those with a suspend VDI
\* that is still there.
MemoryStateWalk(db, v) ==
    {Entry(db.vm[u].suspend, u) : u \in {u \in {v} \cap DOMAIN db.vm :
                                           db.vm[u].suspend \in DOMAIN db.vdi}}

MemoryStateNext(db, e) == ReadAs(db.vdi, e.obj, e.of, Fitting)

\* Any VDI with any VM is found.
MemoryStateFind(db, id) ==
    UNION {ReadAs(db.vdi, DeviceNameFromID(id), v, Fitting) :
              v \in {SystemNameFromID(id)} \cap DOMAIN db.vm}

\* xen_resource_set_properties: the uuid of the VM is read again; it is not
\* checked whether it could be, and without it the name of the system is (null).
MemoryStateProperties(db, r) ==
    LET vm == IF r.of \in DOMAIN db.vm THEN r.of ELSE <<"(null)">>
    IN  {[DeviceID |-> NewDeviceInstanceID(vm, r.obj), SystemName |-> NewSystemInstanceID(vm)]}

-----------------------------------------------------------------------------
(* Processors: the VCPUs of the machines                                   *)

ProcessorClasses == {"Xen_Processor"}

ProcessorKey == "DeviceID"

MaxVcpus == 16       \* an identifier with a higher number is not looked up
VcpuNames(n) == {<<"VCPU" \o ToString(i)>> : i \in 0..(n - 1)}

\* One turn of the loop of list_enum: the VCPUs of a VM that is neither a
\* template nor a snapshot.  A VM that cannot be read ends the loop, see
\* WalkEnds.
ProcessorWalk(db, v) ==
    IF v \in DOMAIN db.vm /\ db.vm[v].kind = "machine"
      THEN {Entry(v, n) : n \in VcpuNames(db.vm[v].vcpus)}
      ELSE {}

\* The entry is a copy of the name of the VM and of a number.
ProcessorNext(db, e) == {Resource(e.obj, e.of, NoProperties)}

\* Neither the number nor the kind of the VM is checked.
ProcessorFind(db, id) ==
    {Resource(SystemNameFromID(id), n, NoProperties) :
        n \in VcpuNames(MaxVcpus) \cap {DeviceNameFromID(id)}}

\* _processor_set_properties, once the VM has been read.  Of the host it runs on
\* only the processor's data are taken, see BeyondArray.
ProcessorProperties(db, r) ==
    {[DeviceID |-> NewDeviceInstanceID(r.obj, r.of), SystemName |-> r.obj] :
        v \in {r.obj} \cap DOMAIN db.vm}

\* xen_resource_set_properties takes the processor of the host that has the number
\* of the VCPU, if the host has no fewer: the VCPU whose number is their count
\* makes it read what lies behind the array.
BeyondArray(db, r) ==
    \E v \in {r.obj} \cap DOMAIN db.vm :
        LET count == Cardinality({c \in DOMAIN db.cpu : db.cpu[c].host = db.vm[v].host})
        IN  db.vm[v].host \in db.host /\ r.of \in VcpuNames(count + 1) \ VcpuNames(count)

-----------------------------------------------------------------------------
(* Network ports: the VIFs                                                 *)

LANEndpoints == {"Xen_VirtualSwitchLANEndpoint", "Xen_ComputerSystemLANEndpoint"}
NetworkMetrics == {"Xen_NetworkPortReceiveThroughput", "Xen_NetworkPortTransmitThroughput"}
NetworkPortClasses == {"Xen_NetworkPort", "Xen_VirtualSwitchPort", "Xen_NetworkPortSettingData"}
                          \cup LANEndpoints \cup NetworkMetrics

NetworkPortKey(class) ==
    CASE class \in {"Xen_NetworkPort", "Xen_VirtualSwitchPort"} -> "DeviceID"
      [] class \in LANEndpoints -> "Name"
      [] OTHER -> "InstanceID"

NetworkPortList(db) == Entries(DOMAIN db.vif)

NetworkPortNext(db, e) == ReadAs(db.vif, e.obj, NoPart, Fitting)

NetworkPortFind(db, class, id) ==
    LET name == IF class \in LANEndpoints THEN PlainName(id) ELSE DeviceNameFromID(id)
    IN  ReadAs(db.vif, name, NoPart, Fitting)

\* _set_network_port_properties.  Without the VM it returns early, and the
\* instance has no key.  Without the network a port of the switch gets what the
\* buffer held before.
PortDevice(db, class, r) ==
    IF r.rec.vm \notin DOMAIN db.vm
      THEN NoProperties
      ELSE CASE class = "Xen_NetworkPort" ->
                  [DeviceID |-> NewDeviceInstanceID(r.rec.vm, r.obj), SystemName |-> r.rec.vm]
             [] class = "Xen_VirtualSwitchPort" /\ r.rec.net \in db.net ->
                  [DeviceID |-> NewDeviceInstanceID(r.rec.net, r.obj), SystemName |-> r.rec.net]
             [] OTHER -> [DeviceID |-> <<"garbage">>]

\* _set_lanendpoint_properties.  The network of an endpoint of a switch is used
\* unread; it never goes while a VIF is on it.
LANEndpoint(db, class, r) ==
    IF class = "Xen_VirtualSwitchLANEndpoint" \/ r.rec.vm \in DOMAIN db.vm
      THEN [Name |-> r.obj,
            SystemName |-> IF class = "Xen_ComputerSystemLANEndpoint" THEN r.rec.vm
                                                                     ELSE r.rec.net]
      ELSE [Name |-> r.obj]

\* _set_network_metrics_properties
NetworkMetric(db, r) ==
    LET vm == IF r.rec.vm \in DOMAIN db.vm THEN r.rec.vm ELSE <<"NoHost">>
    IN  [InstanceID |-> NewDeviceInstanceID(vm, r.obj)]

\* network_rasd_from_vif; its result is not looked at.
NetworkPortSettingData(db, r) ==
    IF r.rec.vm \in DOMAIN db.vm THEN [InstanceID |-> NewDeviceInstanceID(r.rec.vm, r.obj)]
                                 ELSE NoProperties

\* xen_resource_set_properties never fails.
NetworkPortProperties(db, class, r) ==
    {CASE class \in {"Xen_NetworkPort", "Xen_VirtualSwitchPort"} -> PortDevice(db, class, r)
       [] class \in LANEndpoints -> LANEndpoint(db, class, r)
       [] class \in NetworkMetrics -> NetworkMetric(db, r)
       [] OTHER -> NetworkPortSettingData(db, r)}

-----------------------------------------------------------------------------
(* Consoles                                                                *)

ConsoleClasses == {"Xen_Console", "Xen_ConsoleSettingData"}

ConsoleKey(class) == IF class = "Xen_Console" THEN "DeviceID" ELSE "InstanceID"

ConsoleList(db) == Entries(DOMAIN db.con)

ConsoleNext(db, e) == ReadAs(db.con, e.obj, NoPart, Fitting)

ConsoleFind(db, id) == ReadAs(db.con, DeviceNameFromID(id), NoPart, Fitting)

\* xen_console_rec_to_console_rasd
ConsoleSettingData(vm, con) == [InstanceID |-> NewDeviceInstanceID(vm, con)]

\* console_set_properties, console_rasd_set_properties: a console whose VM is
\* not read is one of "NoHost".
ConsoleProperties(db, class, r) ==
    LET vm == IF r.rec.vm \in DOMAIN db.vm THEN r.rec.vm ELSE <<"NoHost">>
    IN  {IF class = "Xen_Console"
           THEN [DeviceID |-> NewDeviceInstanceID(vm, r.obj), SystemName |-> vm]
           ELSE ConsoleSettingData(vm, r.obj)}

-----------------------------------------------------------------------------
(* Key-value pairs of the guests                                           *)

KVPClasses == {"Xen_KVP", "Xen_KVPSettingData"}

KVPKey == "DeviceID"

\* One turn of the loop of list_enum: the pairs of an enabled VM whose host has an
\* address.  ok is whether the session is free of errors: after one, the
\* record of the VM is not even asked for, see WalkOk.
KVPWalk(db, v, ok) ==
    IF ok /\ v \in DOMAIN db.vm /\ db.vm[v].enabled /\ db.vm[v].host \in db.host
      THEN {Entry(v, k) : k \in db.vm[v].keys}
      ELSE {}

\* The entry is a copy of the pair.
KVPNext(db, e) == {Resource(e.obj, e.of, NoProperties)}

KVPFind(db, id) ==
    LET v == SystemNameFromID(id)
        k == DeviceNameFromID(id)
    IN  {Resource(v, k, NoProperties) :
            u \in {u \in {v} \cap DOMAIN db.vm : db.vm[u].host \in db.host /\ k \in db.vm[u].keys}}

\* Both classes get the properties of Xen_KVP.
KVPProperties(r) == {[DeviceID |-> NewDeviceInstanceID(r.obj, r.of), SystemName |-> r.obj]}

-----------------------------------------------------------------------------
(* Machines, templates and snapshots with what belongs to each one of them *)

SystemSettings == {"Xen_ComputerSystemSettingData", "Xen_ComputerSystemTemplate",
                   "Xen_ComputerSystemSnapshot"}
MachineSettings == {"Xen_MemorySettingData", "Xen_ProcessorSettingData"}
ComputerSystemClasses == {"Xen_ComputerSystem", "Xen_ComputerSystemCapabilities", "Xen_Memory"}
                             \cup SystemSettings \cup MachineSettings

ComputerSystemKey(class) ==
    CASE class = "Xen_ComputerSystem" -> "Name"
      [] class = "Xen_Memory" -> "DeviceID"
      [] OTHER -> "InstanceID"

\* The domain_choice of list_enum, as xen_utils_get_next_domain_resource takes
\* it: a snapshot is a template too.
Chosen(class) ==
    CASE class = "Xen_ComputerSystemTemplate" -> {"template", "snapshot"}
      [] class = "Xen_ComputerSystemSnapshot" -> {"snapshot"}
      [] class \in MachineSettings -> {"machine", "template", "snapshot"}
      [] OTHER -> {"machine"}

\* xen_utils_get_domain_resources: all VMs; the choice is made as they are read.
ComputerSystemList(db) == Entries(DOMAIN db.vm)

ComputerSystemNext(db, class, e) ==
    LET Fits(vm) == vm.kind \in Chosen(class) IN ReadAs(db.vm, e.obj, NoPart, Fits)

\* A VM of any kind is found.
ComputerSystemFind(db, class, id) ==
    LET name == IF class = "Xen_ComputerSystem" THEN PlainName(id) ELSE SystemNameFromID(id)
    IN  ReadAs(db.vm, name, NoPart, Fitting)

\* computer_system_set_properties; the host is named if it can be read.
ComputerSystem(db, r) ==
    IF r.rec.host \in db.host THEN [Name |-> r.obj, Host |-> r.rec.host] ELSE [Name |-> r.obj]

\* computer_capabilities_set_properties, vssd_from_vm_rec
ComputerSystemCapabilities(r) == [InstanceID |-> NewSystemInstanceID(r.obj)]
VirtualSystemSettingData(r)   == [InstanceID |-> NewSystemInstanceID(r.obj)]

\* memory_set_properties
Memory(r) == [DeviceID |-> NewDeviceInstanceID(r.obj, <<"Memory">>), SystemName |-> r.obj]

\* memory_rasd_from_vm_rec, proc_rasd_from_vm_rec
MemorySettingData(r)    == [InstanceID |-> NewDeviceInstanceID(r.obj, <<"Memory">>)]
ProcessorSettingData(r) == [InstanceID |-> NewDeviceInstanceID(r.obj, <<"Processor">>)]

ComputerSystemProperties(db, class, r) ==
    {CASE class = "Xen_ComputerSystem" -> ComputerSystem(db, r)
       [] class = "Xen_ComputerSystemCapabilities" -> ComputerSystemCapabilities(r)
       [] class \in SystemSettings -> VirtualSystemSettingData(r)
       [] class = "Xen_Memory" -> Memory(r)
       [] class = "Xen_MemorySettingData" -> MemorySettingData(r)
       [] OTHER -> ProcessorSettingData(r)}

-----------------------------------------------------------------------------
(* The loops of list_enum that read a record in each turn                  *)

\* The loop of Xen_Processor tests get_next for zero and the record for NULL;
\* a VM that cannot be read gives -1 and NULL, which ends it as the last one does.
WalkEnds(db, class, v) == class \in ProcessorClasses /\ v \notin DOMAIN db.vm

\* Whether the session is free of errors after a turn.  The others reset it in
\* each turn; the one of Xen_KVP only after a record it could not read: the
\* address of a host that is not there leaves the error to the next turn.
WalkOk(db, class, v, ok) ==
    ~( /\ class \in KVPClasses /\ ok
       /\ v \in DOMAIN db.vm /\ db.vm[v].enabled /\ db.vm[v].host \notin db.host )

=============================================================================
