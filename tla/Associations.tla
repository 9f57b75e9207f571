---------------------------- MODULE Associations ----------------------------
(***************************************************************************)
(* The associations (associationProviderCommon.c): a table that names, for *)
(* each association class, the two classes it relates and how the name they*)
(* have in common is taken from a property of each; and the two routines   *)
(* that answer Associators and References by it.                           *)
(*                                                                         *)
(* A row without keys relates every instance of one class to every one of  *)
(* the other.                                                              *)
(***************************************************************************)
EXTENDS CimProviders, SequencesExt

\* How a name is taken from a property; "plain" is strncpy.
Extract(how, id) == CASE how = "system" -> SystemNameFromID(id)
                      [] how = "device" -> DeviceNameFromID(id)
                      [] how = "plain" -> PlainName(id)

Side(class, key, how) == [class |-> class, key |-> key, how |-> how]
NoKey == "NULL"
Whole(class) == Side(class, NoKey, "plain")
Row(assoc, base, lhs, rhs) == [assoc |-> assoc, base |-> base, lhs |-> lhs, rhs |-> rhs]

-----------------------------------------------------------------------------
(* g_assoc_table                                                           *)

SystemDevice(assoc, device, system) ==
    Row(assoc, "CIM_SystemDevice",
        Side(device, "DeviceID", "system"), Side(system, "Name", "plain"))

Conforms(assoc, profile, element) ==
    Row(assoc, "CIM_ElementConformsToProfile", Whole(profile), Whole(element))

Referenced(assoc, profile) ==
    Row(assoc, "CIM_ReferencedProfile",
        Whole("Xen_RegisteredSystemVirtualizationProfile"), Whole(profile))

ProfileRows == <<
    Conforms("Xen_ElementConformsToSystemVirtualizationProfile",
             "Xen_RegisteredSystemVirtualizationProfile", "Xen_HostComputerSystem"),
    Conforms("Xen_ElementConformsToVirtualSystemProfile",
             "Xen_RegisteredVirtualSystemProfile", "Xen_ComputerSystem"),
    Conforms("Xen_ElementConformsToStorageVirtualizationProfile",
             "Xen_RegisteredStorageVirtualizationProfile", "Xen_HostComputerSystem"),
    Conforms("Xen_ElementConformsToEthernetPortVirtualizationProfile",
             "Xen_RegisteredEthernetPortVirtualizationProfile", "Xen_VirtualSwitch"),
    Conforms("Xen_ResourcePoolConformsToProcessorAllocationProfile",
             "Xen_RegisteredProcessorAllocationProfile", "Xen_ProcessorPool"),
    Conforms("Xen_ResourcePoolConformsToMemoryAllocationProfile",
             "Xen_RegisteredMemoryAllocationProfile", "Xen_MemoryPool"),
    Conforms("Xen_ResourcePoolConformsToStorageVirtualizationProfile",
             "Xen_RegisteredStorageVirtualizationProfile", "Xen_StoragePool"),
    Conforms("Xen_ResourcePoolConformsToEthernetPortVirtualizationProfile",
             "Xen_RegisteredEthernetPortVirtualizationProfile", "Xen_NetworkConnectionPool"),
    Referenced("Xen_ReferencedProcessorAllocationProfile",
               "Xen_RegisteredProcessorAllocationProfile"),
    Referenced("Xen_ReferencedMemoryAllocationProfile",
               "Xen_RegisteredMemoryAllocationProfile"),
    Referenced("Xen_ReferencedGenericDeviceAllocationProfile",
               "Xen_RegisteredGenericDeviceAllocationProfile"),
    Referenced("Xen_ReferencedStorageVirtualizationProfile",
               "Xen_RegisteredStorageVirtualizationProfile"),
    Referenced("Xen_ReferencedEthernetPortVirtualizationProfile",
               "Xen_RegisteredEthernetPortVirtualizationProfile") >>

ServiceOf(assoc, base, service, element) == Row(assoc, base, Whole(service), Whole(element))
Affects(assoc, service) == ServiceOf(assoc, "CIM_ServiceAffectsElement", service,
                                     "Xen_ComputerSystem")
HostedService(assoc, service) == ServiceOf(assoc, "CIM_HostedService", service,
                                           "Xen_HostComputerSystem")

HostRows == <<
    Row("Xen_HostedComputerSystem", "CIM_HostedDependency",
        Side("Xen_ComputerSystem", "Host", "plain"),
        Side("Xen_HostComputerSystem", "Name", "plain")),
    HostedService("Xen_HostedVirtualSystemManagementService",
                  "Xen_VirtualSystemManagementService"),
    HostedService("Xen_HostedVirtualSystemMigrationService", "Xen_VirtualSystemMigrationService"),
    HostedService("Xen_HostedVirtualSystemSnapshotService", "Xen_VirtualSystemSnapshotService"),
    Affects("Xen_VirtualSystemManagementServiceAffectsComputerSystem",
            "Xen_VirtualSystemManagementService"),
    Affects("Xen_VirtualSystemMigrationServiceAffectsComputerSystem",
            "Xen_VirtualSystemMigrationService") >>

DeviceRows == <<
    SystemDevice("Xen_ComputerSystemMemory", "Xen_Memory", "Xen_ComputerSystem"),
    SystemDevice("Xen_ComputerSystemDisk", "Xen_Disk", "Xen_ComputerSystem"),
    SystemDevice("Xen_ComputerSystemDiskDrive", "Xen_DiskDrive", "Xen_ComputerSystem"),
    SystemDevice("Xen_ComputerSystemNetworkPort", "Xen_NetworkPort", "Xen_ComputerSystem"),
    SystemDevice("Xen_ComputerSystemProcessor", "Xen_Processor", "Xen_ComputerSystem"),
    SystemDevice("Xen_ComputerSystemConsole", "Xen_Console", "Xen_ComputerSystem"),
    SystemDevice("Xen_HostComputerSystemMemory", "Xen_HostMemory", "Xen_HostComputerSystem"),
    SystemDevice("Xen_HostComputerSystemProcessor", "Xen_HostProcessor", "Xen_HostComputerSystem"),
    SystemDevice("Xen_VirtualSwitchVirtualSwitchPort", "Xen_VirtualSwitchPort",
                 "Xen_VirtualSwitch"),
    Row("Xen_ActiveConnection", "CIM_ActiveConnection",
        Side("Xen_ComputerSystemLANEndpoint", "Name", "plain"),
        Side("Xen_VirtualSwitchLANEndpoint", "Name", "plain")),
    Row("Xen_VirtualSwitchPortSAPImplementation", "CIM_DeviceSAPImplementation",
        Side("Xen_VirtualSwitchPort", "DeviceID", "device"),
        Side("Xen_VirtualSwitchLANEndpoint", "Name", "plain")),
    Row("Xen_NetworkPortSAPImplementation", "CIM_DeviceSAPImplementation",
        Side("Xen_NetworkPort", "DeviceID", "device"),
        Side("Xen_ComputerSystemLANEndpoint", "Name", "plain")) >>

Component(assoc, class) ==
    Row(assoc, "CIM_VirtualSystemSettingDataComponent", Side(class, "InstanceID", "system"),
        Side("Xen_VirtualSystemSettingData", "InstanceID", "system"))

SettingRows == <<
    Row("Xen_ComputerSystemSettingsDefineState", "CIM_SettingsDefineState",
        Side("Xen_ComputerSystemSettingData", "InstanceID", "system"),
        Side("Xen_ComputerSystem", "Name", "plain")),
    Row("Xen_ComputerSystemElementSettingData", "CIM_ElementSettingData",
        Side("Xen_ComputerSystemSettingData", "InstanceID", "plain"),
        Side("Xen_ComputerSystemSettingData", "InstanceID", "plain")),
    Component("Xen_MemorySettingDataComponent", "Xen_MemorySettingData"),
    Component("Xen_ProcessorSettingDataComponent", "Xen_ProcessorSettingData"),
    Component("Xen_DiskSettingDataComponent", "Xen_DiskSettingData"),
    Component("Xen_NetworkPortSettingDataComponent", "Xen_NetworkPortSettingData"),
    Component("Xen_ConsoleSettingDataComponent", "Xen_ConsoleSettingData") >>

HostedDevice(assoc, device, on) == Row(assoc, "CIM_HostedDependency", Whole(device), Whole(on))

HostedDeviceRows == <<
    HostedDevice("Xen_HostedDisk", "Xen_Disk", "Xen_DiskImage"),
    HostedDevice("Xen_HostedDiskDrive", "Xen_DiskDrive", "Xen_DiskImage"),
    HostedDevice("Xen_HostedMemory", "Xen_Memory", "Xen_HostMemory"),
    HostedDevice("Xen_HostedNetworkPort", "Xen_NetworkPort", "Xen_VirtualSwitchPort"),
    HostedDevice("Xen_HostedProcessor", "Xen_Processor", "Xen_HostProcessor") >>

\* Mutant: every pool is named after the system that hosts it.
HostedPool_System(assoc, system, pool, how) ==
    Row(assoc, "CIM_HostedResourcePool", Side(system, "Name", "plain"),
        Side(pool, "InstanceID", "system"))

HostedPool(assoc, system, pool, how) ==
    Row(assoc, "CIM_HostedResourcePool", Side(system, "Name", "plain"),
        Side(pool, "InstanceID", how))

HostedPoolRows == <<
    HostedPool("Xen_HostedMemoryPool", "Xen_HostComputerSystem", "Xen_MemoryPool", "system"),
    HostedPool("Xen_HostedProcessorPool", "Xen_HostComputerSystem", "Xen_ProcessorPool", "system"),
    HostedPool("Xen_HostedStoragePool", "Xen_HostComputerSystem", "Xen_StoragePool", "system"),
    HostedPool("Xen_HostedNetworkConnectionPool", "Xen_VirtualSwitch",
               "Xen_NetworkConnectionPool", "device") >>

Capabilities(assoc, caps, element) ==
    Row(assoc, "CIM_ElementCapabilities", Side(caps, "InstanceID", "system"), element)

AllocationRows == <<
    Capabilities("Xen_MemoryPoolAllocationCapabilities", "Xen_MemoryAllocationCapabilities",
                 Side("Xen_MemoryPool", "InstanceID", "system")),
    Capabilities("Xen_ProcessorPoolAllocationCapabilities", "Xen_ProcessorAllocationCapabilities",
                 Side("Xen_ProcessorPool", "InstanceID", "system")),
    Capabilities("Xen_StoragePoolAllocationCapabilities", "Xen_StorageAllocationCapabilities",
                 Side("Xen_StoragePool", "InstanceID", "device")),
    Capabilities("Xen_NetworkConnectionPoolAllocationCapabilities",
                 "Xen_NetworkConnectionAllocationCapabilities",
                 Side("Xen_NetworkConnectionPool", "InstanceID", "device")),
    Capabilities("Xen_HostMemoryAllocationCapabilities", "Xen_MemoryAllocationCapabilities",
                 Side("Xen_HostComputerSystem", "Name", "plain")),
    Capabilities("Xen_HostProcessorAllocationCapabilities", "Xen_ProcessorAllocationCapabilities",
                 Side("Xen_HostComputerSystem", "Name", "plain")),
    Capabilities("Xen_HostStorageAllocationCapabilities", "Xen_StorageAllocationCapabilities",
                 Side("Xen_HostComputerSystem", "Name", "plain")),
    Capabilities("Xen_VirtualSwitchPortAllocationCapabilities",
                 "Xen_NetworkConnectionAllocationCapabilities",
                 Side("Xen_VirtualSwitch", "Name", "plain")) >>

FromPool(assoc, base, pool, element) == Row(assoc, base, Whole(pool), Whole(element))
Allocated(assoc, pool, element) == FromPool(assoc, "CIM_ElementAllocatedFromPool", pool, element)
Allocation(assoc, pool, element) == FromPool(assoc, "CIM_ResourceAllocationFromPool", pool, element)

DefineState(assoc, setting, how, element, key) ==
    Row(assoc, "CIM_SettingsDefineState", Side(setting, "InstanceID", how),
        Side(element, key, "device"))

FromPoolRows == <<
    Allocated("Xen_MemoryAllocatedFromPool", "Xen_MemoryPool", "Xen_Memory"),
    Allocation("Xen_MemorySettingAllocationFromPool", "Xen_MemoryPool", "Xen_MemorySettingData"),
    DefineState("Xen_MemorySettingsDefineState", "Xen_MemorySettingData", "system",
                "Xen_Memory", "SystemName"),
    Allocated("Xen_ProcessorAllocatedFromPool", "Xen_ProcessorPool", "Xen_Processor"),
    Allocation("Xen_ProcessorSettingAllocationFromPool", "Xen_ProcessorPool",
               "Xen_ProcessorSettingData"),
    DefineState("Xen_ProcessorSettingsDefineState", "Xen_ProcessorSettingData", "system",
                "Xen_Processor", "SystemName"),
    Allocated("Xen_NetworkPortAllocatedFromPool", "Xen_NetworkConnectionPool", "Xen_NetworkPort"),
    Allocation("Xen_NetworkPortSettingAllocationFromPool", "Xen_NetworkConnectionPool",
               "Xen_NetworkPortSettingData"),
    DefineState("Xen_NetworkPortSettingsDefineState", "Xen_NetworkPortSettingData", "device",
                "Xen_NetworkPort", "DeviceID"),
    Allocated("Xen_DiskAllocatedFromPool", "Xen_StoragePool", "Xen_Disk"),
    Allocated("Xen_DiskDriveAllocatedFromPool", "Xen_StoragePool", "Xen_DiskDrive"),
    Allocation("Xen_DiskSettingAllocationFromPool", "Xen_StoragePool", "Xen_DiskSettingData"),
    DefineState("Xen_DiskSettingsDefineState", "Xen_DiskSettingData", "device",
                "Xen_Disk", "DeviceID"),
    DefineState("Xen_DiskDriveSettingsDefineState", "Xen_DiskSettingData", "device",
                "Xen_DiskDrive", "DeviceID") >>

PoolComponent(assoc, part, pool, how) ==
    Row(assoc, "CIM_ConcreteComponent", Side(part, "DeviceID", "system"),
        Side(pool, "InstanceID", how))

ComponentRows == <<
    PoolComponent("Xen_MemoryPoolComponent", "Xen_HostMemory", "Xen_MemoryPool", "system"),
    PoolComponent("Xen_ProcessorPoolComponent", "Xen_HostProcessor", "Xen_ProcessorPool",
                  "system"),
    PoolComponent("Xen_StoragePoolComponent", "Xen_DiskImage", "Xen_StoragePool", "device"),
    PoolComponent("Xen_StoragePoolDiskDriveComponent", "Xen_HostDiskDrive", "Xen_StoragePool",
                  "system") >>

DefineCapabilities(assoc, settings, caps) ==
    Row(assoc, "CIM_SettingsDefineCapabilities", Side(settings, "InstanceID", "system"),
        Side(caps, "InstanceID", "system"))

CapabilitiesRows == <<
    DefineCapabilities("Xen_StorageSettingsDefineCapabilities",
        "Xen_StorageCapabilitiesSettingData", "Xen_StorageAllocationCapabilities"),
    DefineCapabilities("Xen_MemorySettingsDefineCapabilities",
        "Xen_MemoryCapabilitiesSettingData", "Xen_MemoryAllocationCapabilities"),
    DefineCapabilities("Xen_ProcessorSettingsDefineCapabilities",
        "Xen_ProcessorCapabilitiesSettingData", "Xen_ProcessorAllocationCapabilities"),
    DefineCapabilities("Xen_NetworkConnectionSettingsDefineCapabilities",
        "Xen_NetworkConnectionCapabilitiesSettingData",
        "Xen_NetworkConnectionAllocationCapabilities") >>

ElementCapabilities(assoc, element, caps) ==
    Row(assoc, "CIM_ElementCapabilities", Whole(element), Whole(caps))

ElementRows == <<
    Row("Xen_ComputerSystemElementCapabilities", "CIM_ElementCapabilities",
        Side("Xen_ComputerSystem", "Name", "plain"),
        Side("Xen_ComputerSystemCapabilities", "InstanceID", "system")),
    ElementCapabilities("Xen_HasVirtualizationCapabilities", "Xen_VirtualizationCapabilities",
                        "Xen_HostComputerSystem"),
    ElementCapabilities("Xen_VirtualSystemMigrationServiceCapabilities",
                        "Xen_VirtualSystemMigrationService",
                        "Xen_VirtualSystemMigrationCapabilities"),
    ElementCapabilities("Xen_VirtualSystemManagementServiceCapabilities",
                        "Xen_VirtualSystemManagementService",
                        "Xen_VirtualSystemManagementCapabilities"),
    ElementCapabilities("Xen_HostVSMSElementCapabilities", "Xen_HostComputerSystem",
                        "Xen_VirtualSystemManagementCapabilities") >>

\* The three associations of a class of devices with its metrics.
Metrics(defFor, valueFor, instance, device, definition, value) == <<
    Row(defFor, "CIM_MetricDefForME", Whole(device), Whole(definition)),
    Row(valueFor, "CIM_MetricForME", Side(device, "DeviceID", "device"),
        Side(value, "InstanceID", "device")),
    Row(instance, "CIM_MetricInstance", Whole(definition), Whole(value)) >>

HostProcessorMetrics ==
    Metrics("Xen_MetricDefForHostProcessor", "Xen_MetricForHostProcessor",
            "Xen_MetricInstanceHostProcessor", "Xen_HostProcessor",
            "Xen_HostProcessorMetricDefinition", "Xen_HostProcessorMetricValue")
ProcessorMetrics ==
    Metrics("Xen_MetricDefForVirtualProcessor", "Xen_MetricForVirtualProcessor",
            "Xen_MetricInstanceVirtualProcessor", "Xen_Processor",
            "Xen_ProcessorMetricDefinition", "Xen_ProcessorMetricValue")
DiskMetricRows ==
    Metrics("Xen_MetricDefForDisk", "Xen_MetricForDisk", "Xen_MetricInstanceDisk", "Xen_Disk",
            "Xen_DiskMetricDefinition", "Xen_DiskMetricValue")
NetworkPortMetrics ==
    Metrics("Xen_MetricDefForNetworkPort", "Xen_MetricForNetworkPort",
            "Xen_MetricInstanceNetworkPort", "Xen_NetworkPort",
            "Xen_NetworkPortMetricDefinition", "Xen_NetworkPortMetricValue")

MetricRows == HostProcessorMetrics \o ProcessorMetrics \o DiskMetricRows \o NetworkPortMetrics

AssocTable == ProfileRows \o HostRows \o DeviceRows \o SettingRows \o HostedDeviceRows
                  \o HostedPoolRows \o AllocationRows \o FromPoolRows \o ComponentRows
                  \o CapabilitiesRows \o ElementRows \o MetricRows

-----------------------------------------------------------------------------
(* Classes and their instances                                             *)

\* The classes of the table that have subclasses, with those.
Below(class) ==
    {class} \cup CASE class = "Xen_VirtualSystemSettingData" -> SystemSettings
                   [] class = "Xen_DiskMetricValue" -> DiskMetrics
                   [] class = "Xen_NetworkPortMetricValue" -> NetworkMetrics \cup HostNetworkMetrics
                   [] class = "Xen_HostProcessorMetricValue" -> {"Xen_HostProcessorUtilization"}
                   [] class = "Xen_ProcessorMetricValue" -> {"Xen_ProcessorUtilization"}
                   [] OTHER -> {}

\* CMClassPathIsA
IsA(class, base) == class \in Below(base)

\* Xen_RegisteredProfiles: one instance of each class.
Profiles == {"Xen_RegisteredSystemVirtualizationProfile", "Xen_RegisteredVirtualSystemProfile",
             "Xen_RegisteredStorageVirtualizationProfile",
             "Xen_RegisteredEthernetPortVirtualizationProfile",
             "Xen_RegisteredProcessorAllocationProfile", "Xen_RegisteredMemoryAllocationProfile",
             "Xen_RegisteredGenericDeviceAllocationProfile"}
Profile(class) == [class |-> class, obj |-> <<"profile">>, of |-> NoPart,
                   props |-> [InstanceID |-> <<"Xen", Colon, class>>]]

\* What the broker answers for a class and its subclasses; a class that no
\* provider serves has no instances.
EnumInstances(db, class) ==
    {Profile(c) : c \in Below(class) \cap Profiles}
        \cup UNION {EnumerateClass(db, c) : c \in Below(class) \cap Served}

-----------------------------------------------------------------------------
(* Associators                                                             *)

\* FindAssociationClasses: a base class stands for all rows below it.
FindAssociationClasses(assocClass) ==
    {k \in DOMAIN AssocTable : assocClass \in {AssocTable[k].assoc, AssocTable[k].base}}

\* The class of the source may be a base or a subclass of the one of the row.
Matches(class, side) == IsA(side.class, class) \/ IsA(class, side.class)

\* A row is passed over whose key the source does not have.
Answers(i, side) == Matches(i.class, side) /\ side.key \in {NoKey} \cup DOMAIN i.props

\* The instances of the other side whose name is the one looked for.
Targets(db, target, resultClass, name) ==
    {t \in EnumInstances(db, target.class) :
        /\ resultClass # NoKey => IsA(t.class, resultClass)
        /\ target.key # NoKey =>
              /\ target.key \in DOMAIN t.props
              /\ Extract(target.how, t.props[target.key]) \notin {NoName}
              /\ Extract(target.how, t.props[target.key]) = name}

\* What the buffer for the name of source i holds at row k of those in sides, which is
\* where each row takes the name from: rows without a key, and identifiers without the
\* part that is looked for, leave in it what it held.
SourceName(i, sides, k, held) ==
    LET names == {j \in DOMAIN sides :
                    /\ j <= k /\ sides[j].key # NoKey
                    /\ Extract(sides[j].how, i.props[sides[j].key]) # NoName}
    IN  IF names = {} THEN held
                      ELSE Extract(sides[Max(names)].how, i.props[sides[Max(names)].key])

\* The side of the row that the source is on; the left one is looked at first.
SourceSide(i, row) == IF Matches(i.class, row.lhs) THEN row.lhs ELSE row.rhs
TargetSide(i, row) == IF Matches(i.class, row.lhs) THEN row.rhs ELSE row.lhs

\* _AssociationRoutine from instance i without a role, which the broker has
\* found; held is what the buffer on the stack happens to hold.
AssociationRoutine(db, i, assocClass, resultClass, held) ==
    LET rows == {k \in FindAssociationClasses(assocClass) :
                   Answers(i, SourceSide(i, AssocTable[k]))}
        sides == [k \in rows |-> SourceSide(i, AssocTable[k])]
    IN  UNION {Targets(db, TargetSide(i, AssocTable[k]), resultClass,
                       SourceName(i, sides, k, held)) : k \in rows}

Associators(db, i, assocClass, held) == AssociationRoutine(db, i, assocClass, NoKey, held)

-----------------------------------------------------------------------------
(* References                                                              *)

Reference(assoc, lhs, rhs) == [assoc |-> assoc, lhs |-> lhs, rhs |-> rhs]

\* The paths of the other side; a property that is not in the path is not found.
PathTargets(db, target, name) ==
    {t \in EnumInstances(db, target.class) :
        target.key # NoKey =>
            /\ target.key = KeyProperty(t.class) /\ HasPath(t)
            /\ Extract(target.how, PathOf(t)) \notin {NoName}
            /\ Extract(target.how, PathOf(t)) = name}

\* _ReferencesRoutine.  The test for the left side is not followed by an else: a
\* source that is not on the right is passed over.  The references are put in by
\* whether the class of the source is the one on the right, not a subclass of it.
ReferencesRoutine(db, i, assocClass, held) ==
    LET rows == {k \in FindAssociationClasses(assocClass) : Answers(i, AssocTable[k].rhs)}
        sides == [k \in rows |-> AssocTable[k].rhs]
        Refer(row, t) == IF i.class = row.rhs.class THEN Reference(row.assoc, t, i)
                                                    ELSE Reference(row.assoc, i, t)
    IN  UNION {{Refer(AssocTable[k], t) :
                  t \in PathTargets(db, AssocTable[k].lhs, SourceName(i, sides, k, held))} :
                 k \in rows}

-----------------------------------------------------------------------------
(* Xen_VSMSElementCapabilities, which has a provider of its own            *)

ManagementService == "Xen_VirtualSystemManagementService"
ManagementCapabilities == "Xen_VirtualSystemManagementCapabilities"

OtherSide(class) == CASE class = ManagementService -> {ManagementCapabilities}
                      [] class = ManagementCapabilities -> {ManagementService}
                      [] OTHER -> {}

\* Associators and AssociatorNames: the source is not looked for; what is of its
\* class is left out.
ManagementAssociators(db, i, resultClass) ==
    {t \in UNION {EnumInstances(db, c) : c \in OtherSide(i.class)} :
        t.class # i.class /\ (resultClass # NoKey => IsA(t.class, resultClass))}

ManagementAssociatorNames(db, i, resultClass) ==
    {[class |-> t.class, path |-> PathOf(t)] : t \in ManagementAssociators(db, i, resultClass)}

\* References and ReferenceNames
ManagementReferences(db, i) ==
    {IF i.class = ManagementCapabilities THEN Reference("Xen_VSMSElementCapabilities", t, i)
                                         ELSE Reference("Xen_VSMSElementCapabilities", i, t) :
        t \in {t \in UNION {EnumInstances(db, c) : c \in OtherSide(i.class)} :
                  ~IsA(t.class, i.class)}}

ManagementReferenceNames(db, i) ==
    {[lhs |-> PathOf(r.lhs), rhs |-> PathOf(r.rhs)] : r \in ManagementReferences(db, i)}

=============================================================================
