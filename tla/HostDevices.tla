---------------------------- MODULE HostDevices ----------------------------
(***************************************************************************)
(* The resource providers of hosts, of their pools of resources and of the *)
(* capabilities of those pools; the conventions are those of               *)
(* MachineDevices.                                                         *)
(*                                                                         *)
(* Several of them use the record of a host they have just asked for and   *)
(* not received: the CIM server does not survive that.  Crash is the mark. *)
(***************************************************************************)
EXTENDS FiniteSets, XapiObjects, MachineDevices

Crash == [p \in {"crash"} |-> NoName]

\* An instance that names its host, made by code that takes the record of the
\* host for granted.
OfHost(db, host, properties) == IF host \in db.host THEN properties ELSE Crash

\* An instance that names its host, or "NoHost".
HostName(db, host) == IF host \in db.host THEN host ELSE <<"NoHost">>

\* The resource of an object of which no field matters.
ReadName(table, o) == {Resource(n, NoPart, NoProperties) : n \in table \cap {o}}

-----------------------------------------------------------------------------
(* Hosts, their memory, and their pools of memory and processors           *)

HostMetrics == {"Xen_HostProcessorUtilization", "Xen_ProcessorUtilization"}
HostClasses == {"Xen_HostComputerSystem", "Xen_HostMemory", "Xen_ProcessorPool",
                "Xen_MemoryPool", "Xen_MemoryAllocationCapabilities",
                "Xen_ProcessorAllocationCapabilities",
                "Xen_HostComputerSystemCapabilities"} \cup HostMetrics

HostKey(class) ==
    CASE class = "Xen_HostComputerSystem" -> "Name"
      [] class = "Xen_HostMemory" -> "DeviceID"
      [] OTHER -> "InstanceID"

HostList(db) == Entries(db.host)

HostNext(db, e) == ReadName(db.host, e.obj)

HostFind(db, class, id) ==
    ReadName(db.host, IF class = "Xen_HostComputerSystem" THEN PlainName(id)
                                                          ELSE SystemNameFromID(id))

\* host_set_properties, hostmemory_set_properties, processorpool_set_properties,
\* processor_alloc_capabilities_set_properties,
\* hostcomputer_capabilities_set_properties, memorypool_set_properties
HostSystem(h) == [Name |-> h]
HostMemory(h) == [DeviceID |-> NewDeviceInstanceID(h, <<"Memory">>), SystemName |-> h]
ProcessorPool(h) == [InstanceID |-> NewDeviceInstanceID(h, <<"ProcessorPool">>)]
ProcessorAllocationCapabilities(h) ==
    [InstanceID |-> NewDeviceInstanceID(h, <<"ProcessorAllocationCapabilities">>)]
HostCapabilities(h) == [InstanceID |-> NewSystemInstanceID(h)]
MemoryPool(h) == [InstanceID |-> NewDeviceInstanceID(h, <<"MemoryPool">>)]

\* What has no branch of its own, the allocation capabilities of memory and the
\* two metrics, is made like the pool of memory.
HostProperties(class, r) ==
    {CASE class = "Xen_HostComputerSystem" -> HostSystem(r.obj)
       [] class = "Xen_HostMemory" -> HostMemory(r.obj)
       [] class = "Xen_ProcessorPool" -> ProcessorPool(r.obj)
       [] class = "Xen_ProcessorAllocationCapabilities" -> ProcessorAllocationCapabilities(r.obj)
       [] class = "Xen_HostComputerSystemCapabilities" -> HostCapabilities(r.obj)
       [] OTHER -> MemoryPool(r.obj)}

-----------------------------------------------------------------------------
(* Processors of hosts                                                     *)

HostProcessorClasses == {"Xen_HostProcessor"}

HostProcessorKey == "DeviceID"

HostProcessorList(db) == Entries(DOMAIN db.cpu)

HostProcessorNext(db, e) == ReadAs(db.cpu, e.obj, NoPart, Fitting)

HostProcessorFind(db, id) == ReadAs(db.cpu, DeviceNameFromID(id), NoPart, Fitting)

\* hostprocessor_set_properties
HostProcessorProperties(db, r) ==
    {OfHost(db, r.rec.host, [DeviceID |-> NewDeviceInstanceID(r.rec.host, r.obj),
                             SystemName |-> r.rec.host])}

-----------------------------------------------------------------------------
(* Network ports of hosts: the PIFs                                        *)

HostNetworkMetrics == {"Xen_HostNetworkPortReceiveThroughput",
                       "Xen_HostNetworkPortTransmitThroughput"}
HostNetworkPortClasses == {"Xen_HostNetworkPort", "Xen_HostNetworkPortSettingData"}
                              \cup HostNetworkMetrics

HostNetworkPortKey(class) == IF class = "Xen_HostNetworkPort" THEN "DeviceID" ELSE "InstanceID"

\* One turn of the loop of list_enum over all PIFs: the slaves of a bond are left
\* out.  A PIF that has gone by then is not known to be one.
HostNetworkPortWalk(db, p) ==
    {Entry(o, NoPart) : o \in {o \in {p} : o \in DOMAIN db.pif => ~db.pif[o].slave}}

HostNetworkPortNext(db, e) == ReadAs(db.pif, e.obj, NoPart, Fitting)

\* A slave is found all the same.
HostNetworkPortFind(db, id) == ReadAs(db.pif, DeviceNameFromID(id), NoPart, Fitting)

\* network_port_set_properties
HostPort(db, r) == LET host == HostName(db, r.rec.host)
                   IN  [DeviceID |-> NewDeviceInstanceID(host, r.obj), SystemName |-> host]

\* rasd_set_properties
HostPortSettingData(db, r) ==
    [InstanceID |-> NewDeviceInstanceID(HostName(db, r.rec.host), r.obj)]

\* metrics_set_properties; its result is not passed on.
HostPortMetric(db, r) ==
    IF r.rec.host \in db.host THEN [InstanceID |-> NewDeviceInstanceID(r.rec.host, r.obj)]
                              ELSE NoProperties

HostNetworkPortProperties(db, class, r) ==
    {CASE class = "Xen_HostNetworkPort" -> HostPort(db, r)
       [] class = "Xen_HostNetworkPortSettingData" -> HostPortSettingData(db, r)
       [] OTHER -> HostPortMetric(db, r)}

-----------------------------------------------------------------------------
(* Virtual switches and their pools of connections: the networks           *)

VirtualSwitchClasses == {"Xen_VirtualSwitch", "Xen_VirtualSwitchSettingData",
                         "Xen_NetworkConnectionPool",
                         "Xen_NetworkConnectionAllocationCapabilities"}

VirtualSwitchKey(class) == IF class = "Xen_VirtualSwitch" THEN "Name" ELSE "InstanceID"

VirtualSwitchList(db) == Entries(db.net)

PifsOf(db, net) == {p \in DOMAIN db.pif : db.pif[p].net = net}

\* The record of a network names its PIFs.
ReadNetwork(db, o) == {Resource(n, NoPart, [pifs |-> PifsOf(db, n)]) : n \in db.net \cap {o}}

VirtualSwitchNext(db, e) == ReadNetwork(db, e.obj)

\* Mutant: every network is looked up by the system part.
VirtualSwitchFind_System(db, class, id) ==
    ReadNetwork(db, IF class = "Xen_VirtualSwitch" THEN PlainName(id) ELSE SystemNameFromID(id))

VirtualSwitchFind(db, class, id) ==
    ReadNetwork(db, CASE class = "Xen_VirtualSwitch" -> PlainName(id)
                      [] class = "Xen_NetworkConnectionPool" -> DeviceNameFromID(id)
                      [] OTHER -> SystemNameFromID(id))

\* virtual_switch_set_properties, virtual_switch_setting_data_set_properties,
\* allocation_capabilities_set_properties
VirtualSwitch(n) == [Name |-> n, InstanceID |-> NewSystemInstanceID(n)]
VirtualSwitchSettingData(n) == [InstanceID |-> NewSystemInstanceID(n)]
ConnectionAllocationCapabilities(n) ==
    [InstanceID |-> NewDeviceInstanceID(n, <<"NetworkConnectionAllocationCapabilities">>)]

\* pool_instance_set_properties: the pool is named after the host of its first
\* PIF.
NetworkConnectionPool(db, r) ==
    LET first == CHOOSE p \in r.rec.pifs : TRUE
        Named(host) == [InstanceID |-> NewDeviceInstanceID(host, r.obj)]
    IN  IF r.rec.pifs = {} \/ first \notin DOMAIN db.pif
          THEN Named(<<"NoHost">>)
          ELSE OfHost(db, db.pif[first].host, Named(db.pif[first].host))

VirtualSwitchProperties(db, class, r) ==
    {CASE class = "Xen_VirtualSwitch" -> VirtualSwitch(r.obj)
       [] class = "Xen_VirtualSwitchSettingData" -> VirtualSwitchSettingData(r.obj)
       [] class = "Xen_NetworkConnectionAllocationCapabilities" ->
             ConnectionAllocationCapabilities(r.obj)
       [] OTHER -> NetworkConnectionPool(db, r)}

-----------------------------------------------------------------------------
(* Storage pools: the SRs                                                  *)

StoragePoolClasses == {"Xen_StoragePool", "Xen_StorageAllocationCapabilities"}

StoragePoolKey == "InstanceID"

StoragePoolList(db) == Entries(DOMAIN db.sr)

StoragePoolNext(db, e) == ReadAs(db.sr, e.obj, NoPart, Fitting)

\* Mutant: a pool is looked up by the host it is named after.
StoragePoolFind_System(db, class, id) == ReadAs(db.sr, SystemNameFromID(id), NoPart, Fitting)

StoragePoolFind(db, class, id) ==
    ReadAs(db.sr, IF class = "Xen_StoragePool" THEN DeviceNameFromID(id)
                                               ELSE SystemNameFromID(id), NoPart, Fitting)

\* get_storage_pool_host: the host of the only PBD, if there is only one.
StoragePoolHost(r) ==
    IF Cardinality(r.rec.hosts) = 1 THEN CHOOSE h \in r.rec.hosts : TRUE ELSE <<"Shared">>

\* storage_pool_set_properties.  If the only PBD has gone since, it has no host
\* and the identifier is what the buffer held.
StoragePool(db, r) ==
    LET host == StoragePoolHost(r)
        Named == [InstanceID |-> NewDeviceInstanceID(host, r.obj)]
    IN  IF host = <<"Shared">> THEN Named
        ELSE IF r.obj \in DOMAIN db.sr /\ host \in db.sr[r.obj].hosts
          THEN OfHost(db, host, Named)
          ELSE [InstanceID |-> <<"garbage">>]

\* allocation_capabilities_set_properties
StorageAllocationCapabilities(r) ==
    [InstanceID |-> NewDeviceInstanceID(r.obj, <<"StorageAllocationCapabilities">>)]

StoragePoolProperties(db, class, r) ==
    {IF class = "Xen_StoragePool" THEN StoragePool(db, r) ELSE StorageAllocationCapabilities(r)}

-----------------------------------------------------------------------------
(* Disk images: the VDIs                                                   *)

DiskImageClasses == {"Xen_DiskImage"}

DiskImageKey == "DeviceID"

DiskImageList(db) == Entries(DOMAIN db.vdi)

DiskImageNext(db, e) == ReadAs(db.vdi, e.obj, NoPart, Fitting)

DiskImageFind(db, id) == ReadAs(db.vdi, DeviceNameFromID(id), NoPart, Fitting)

\* xen_resource_set_properties: no instance without the SR.
DiskImageProperties(db, r) ==
    {[DeviceID |-> NewDeviceInstanceID(s, r.obj), SystemName |-> s] :
        s \in {r.rec.sr} \cap DOMAIN db.sr}

-----------------------------------------------------------------------------
(* The pool of hosts                                                       *)

HostPoolClasses == {"Xen_HostPool"}

HostPoolKey == "InstanceID"

HostPoolList(db) == Entries(db.pool)

HostPoolNext(db, e) == ReadName(db.pool, e.obj)

HostPoolFind(db, id) == ReadName(db.pool, SystemNameFromID(id))

HostPoolProperties(r) == {[InstanceID |-> NewSystemInstanceID(r.obj)]}

-----------------------------------------------------------------------------
(* The settings that describe capabilities: four for each host, SR or      *)
(* network                                                                 *)

CapabilitiesSettings == {"Xen_MemoryCapabilitiesSettingData",
                         "Xen_ProcessorCapabilitiesSettingData",
                         "Xen_StorageCapabilitiesSettingData",
                         "Xen_NetworkConnectionCapabilitiesSettingData"}

CapabilitiesKey == "InstanceID"

\* The names of the four settings of a class (settingdatanum).
Four(kind) == {<<kind \o n>> : n \in {"Minimum", "Maximum", "Increment", "Default"}}

SettingNames(class) ==
    Four(CASE class = "Xen_MemoryCapabilitiesSettingData" -> "Memory"
           [] class = "Xen_ProcessorCapabilitiesSettingData" -> "Processor"
           [] class = "Xen_StorageCapabilitiesSettingData" -> "Storage"
           [] OTHER -> "NetworkConnection")

\* What the settings of a class are of.
SettingOwners(db, class) ==
    CASE class \in {"Xen_MemoryCapabilitiesSettingData",
                    "Xen_ProcessorCapabilitiesSettingData"} -> db.host
      [] class = "Xen_StorageCapabilitiesSettingData" -> DOMAIN db.sr
      [] OTHER -> db.net

CapabilitiesList(db, class) ==
    {Entry(o, n) : o \in SettingOwners(db, class), n \in SettingNames(class)}

\* populate_resource
CapabilitiesNext(db, class, e) ==
    {Resource(o, e.of, NoProperties) : o \in {e.obj} \cap SettingOwners(db, class)}

\* The owner is named by the system part of the identifier; but for storage and
\* network connections it is looked up by the identifier as a whole.
OwnerName(class, id) ==
    IF class \in {"Xen_StorageCapabilitiesSettingData",
                  "Xen_NetworkConnectionCapabilitiesSettingData"}
      THEN PlainName(id) ELSE SystemNameFromID(id)

CapabilitiesFind(db, class, id) ==
    {Resource(o, n, NoProperties) : o \in {OwnerName(class, id)} \cap SettingOwners(db, class),
                                    n \in {DeviceNameFromID(id)} \cap SettingNames(class)}

CapabilitiesProperties(r) == {[InstanceID |-> NewDeviceInstanceID(r.obj, r.of)]}

-----------------------------------------------------------------------------
(* Services, profiles and fixed capabilities: instances without an object  *)

Services == {"Xen_StoragePoolManagementService", "Xen_VirtualSystemManagementService",
             "Xen_VirtualSwitchManagementService", "Xen_VirtualSystemMigrationService",
             "Xen_VirtualSystemSnapshotService"}
ServiceCapabilities == {"Xen_VirtualSystemMigrationCapabilities",
                        "Xen_VirtualSystemManagementCapabilities",
                        "Xen_VirtualSystemSnapshotServiceCapabilities",
                        "Xen_VirtualSystemSnapshotCapabilities"}
ServiceClasses == Services \cup ServiceCapabilities

ServiceKey(class) == IF class \in Services THEN "Name" ELSE "InstanceID"

\* Exactly one instance, whatever the path; it names the host of the session.
ServiceList == {Entry(<<"service">>, NoPart)}
ServiceNext(e) == {Resource(e.obj, NoPart, NoProperties)}
ServiceFind(id) == {Resource(<<"service">>, NoPart, NoProperties)}

ServiceProperties(db, class) ==
    {IF class \in Services THEN [Name |-> <<class>>, SystemName |-> h]
                           ELSE [InstanceID |-> h] : h \in db.host \cap {db.local}}

MetricServiceClasses == {"Xen_MetricService"}
MetricServiceKey == "Name"
MetricServiceProperties == {[Name |-> <<"Xen Metrics Service">>]}

VirtualizationCapabilities == {"Xen_VirtualizationCapabilities"}
VirtualizationKey == "InstanceID"

ResourceTypes == {<<"Processor">>, <<"Memory">>, <<"Disk">>, <<"NetworkPort">>}
VirtualizationName(type) == <<"Xen_">> \o type \o <<"VirtualizationCapability">>

VirtualizationList == Entries(ResourceTypes)
VirtualizationNext(e) == {Resource(e.obj, NoPart, NoProperties)}
VirtualizationFind(id) == {Resource(t, NoPart, NoProperties) :
                              t \in {t \in ResourceTypes : VirtualizationName(t) = id}}
VirtualizationProperties(r) == {[InstanceID |-> VirtualizationName(r.obj)]}

=============================================================================
