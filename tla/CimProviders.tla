---------------------------- MODULE CimProviders ----------------------------
(***************************************************************************)
(* The dispatch from the class of a request to the provider that serves it *)
(* (ProxyHelper.c), and what the requests without a state of their own     *)
(* answer: the instance of a path, and the instances of a class in a       *)
(* database that stands still.                                             *)
(***************************************************************************)
EXTENDS HostDevices

\* The classes of g_instance_providers, but for jobs.
Served == DiskClasses \cup MemoryStateClasses \cup ProcessorClasses \cup NetworkPortClasses
            \cup ConsoleClasses \cup KVPClasses \cup ComputerSystemClasses \cup HostClasses
            \cup HostProcessorClasses \cup HostNetworkPortClasses \cup VirtualSwitchClasses
            \cup StoragePoolClasses \cup DiskImageClasses \cup HostPoolClasses
            \cup CapabilitiesSettings \cup ServiceClasses \cup MetricServiceClasses
            \cup VirtualizationCapabilities

\* xen_resource_get_key_property
KeyProperty(class) ==
    CASE class \in DiskClasses -> DiskKey(class)
      [] class \in MemoryStateClasses -> MemoryStateKey
      [] class \in ProcessorClasses -> ProcessorKey
      [] class \in NetworkPortClasses -> NetworkPortKey(class)
      [] class \in ConsoleClasses -> ConsoleKey(class)
      [] class \in KVPClasses -> KVPKey
      [] class \in ComputerSystemClasses -> ComputerSystemKey(class)
      [] class \in HostClasses -> HostKey(class)
      [] class \in HostProcessorClasses -> HostProcessorKey
      [] class \in HostNetworkPortClasses -> HostNetworkPortKey(class)
      [] class \in VirtualSwitchClasses -> VirtualSwitchKey(class)
      [] class \in StoragePoolClasses -> StoragePoolKey
      [] class \in DiskImageClasses -> DiskImageKey
      [] class \in HostPoolClasses -> HostPoolKey
      [] class \in CapabilitiesSettings -> CapabilitiesKey
      [] class \in ServiceClasses -> ServiceKey(class)
      [] class \in MetricServiceClasses -> MetricServiceKey
      [] class \in VirtualizationCapabilities -> VirtualizationKey

\* xen_resource_list_enum, for the classes whose loop reads nothing
ListEnum(db, class) ==
    CASE class \in DiskClasses -> DiskList(db)
      [] class \in NetworkPortClasses -> NetworkPortList(db)
      [] class \in ConsoleClasses -> ConsoleList(db)
      [] class \in ComputerSystemClasses -> ComputerSystemList(db)
      [] class \in HostClasses -> HostList(db)
      [] class \in HostProcessorClasses -> HostProcessorList(db)
      [] class \in VirtualSwitchClasses -> VirtualSwitchList(db)
      [] class \in StoragePoolClasses -> StoragePoolList(db)
      [] class \in DiskImageClasses -> DiskImageList(db)
      [] class \in HostPoolClasses -> HostPoolList(db)
      [] class \in CapabilitiesSettings -> CapabilitiesList(db, class)
      [] class \in ServiceClasses \cup MetricServiceClasses -> ServiceList
      [] class \in VirtualizationCapabilities -> VirtualizationList
      [] OTHER -> {}

\* The classes whose loop reads an object in each turn, and what it runs over.
WalkingClasses == MemoryStateClasses \cup ProcessorClasses \cup KVPClasses
                      \cup HostNetworkPortClasses
WalkRefs(db, class) == IF class \in HostNetworkPortClasses THEN DOMAIN db.pif ELSE DOMAIN db.vm

\* xen_resource_list_enum, one turn of those loops, for object o
ListWalk(db, class, o, ok) ==
    CASE class \in MemoryStateClasses -> MemoryStateWalk(db, o)
      [] class \in ProcessorClasses -> ProcessorWalk(db, o)
      [] class \in KVPClasses -> KVPWalk(db, o, ok)
      [] class \in HostNetworkPortClasses -> HostNetworkPortWalk(db, o)
      [] OTHER -> {}

\* xen_resource_record_getnext
RecordGetNext(db, class, e) ==
    CASE class \in DiskClasses -> DiskNext(db, class, e)
      [] class \in MemoryStateClasses -> MemoryStateNext(db, e)
      [] class \in ProcessorClasses -> ProcessorNext(db, e)
      [] class \in NetworkPortClasses -> NetworkPortNext(db, e)
      [] class \in ConsoleClasses -> ConsoleNext(db, e)
      [] class \in KVPClasses -> KVPNext(db, e)
      [] class \in ComputerSystemClasses -> ComputerSystemNext(db, class, e)
      [] class \in HostClasses -> HostNext(db, e)
      [] class \in HostProcessorClasses -> HostProcessorNext(db, e)
      [] class \in HostNetworkPortClasses -> HostNetworkPortNext(db, e)
      [] class \in VirtualSwitchClasses -> VirtualSwitchNext(db, e)
      [] class \in StoragePoolClasses -> StoragePoolNext(db, e)
      [] class \in DiskImageClasses -> DiskImageNext(db, e)
      [] class \in HostPoolClasses -> HostPoolNext(db, e)
      [] class \in CapabilitiesSettings -> CapabilitiesNext(db, class, e)
      [] class \in ServiceClasses \cup MetricServiceClasses -> ServiceNext(e)
      [] class \in VirtualizationCapabilities -> VirtualizationNext(e)

\* xen_resource_record_get_from_id
RecordGetFromId(db, class, id) ==
    CASE class \in DiskClasses -> DiskFind(db, class, id)
      [] class \in MemoryStateClasses -> MemoryStateFind(db, id)
      [] class \in ProcessorClasses -> ProcessorFind(db, id)
      [] class \in NetworkPortClasses -> NetworkPortFind(db, class, id)
      [] class \in ConsoleClasses -> ConsoleFind(db, id)
      [] class \in KVPClasses -> KVPFind(db, id)
      [] class \in ComputerSystemClasses -> ComputerSystemFind(db, class, id)
      [] class \in HostClasses -> HostFind(db, class, id)
      [] class \in HostProcessorClasses -> HostProcessorFind(db, id)
      [] class \in HostNetworkPortClasses -> HostNetworkPortFind(db, id)
      [] class \in VirtualSwitchClasses -> VirtualSwitchFind(db, class, id)
      [] class \in StoragePoolClasses -> StoragePoolFind(db, class, id)
      [] class \in DiskImageClasses -> DiskImageFind(db, id)
      [] class \in HostPoolClasses -> HostPoolFind(db, id)
      [] class \in CapabilitiesSettings -> CapabilitiesFind(db, class, id)
      [] class \in ServiceClasses \cup MetricServiceClasses -> ServiceFind(id)
      [] class \in VirtualizationCapabilities -> VirtualizationFind(id)

\* xen_resource_set_properties
SetProperties(db, class, r) ==
    CASE class \in DiskClasses -> DiskProperties(db, class, r)
      [] class \in MemoryStateClasses -> MemoryStateProperties(db, r)
      [] class \in ProcessorClasses -> ProcessorProperties(db, r)
      [] class \in NetworkPortClasses -> NetworkPortProperties(db, class, r)
      [] class \in ConsoleClasses -> ConsoleProperties(db, class, r)
      [] class \in KVPClasses -> KVPProperties(r)
      [] class \in ComputerSystemClasses -> ComputerSystemProperties(db, class, r)
      [] class \in HostClasses -> HostProperties(class, r)
      [] class \in HostProcessorClasses -> HostProcessorProperties(db, r)
      [] class \in HostNetworkPortClasses -> HostNetworkPortProperties(db, class, r)
      [] class \in VirtualSwitchClasses -> VirtualSwitchProperties(db, class, r)
      [] class \in StoragePoolClasses -> StoragePoolProperties(db, class, r)
      [] class \in DiskImageClasses -> DiskImageProperties(db, r)
      [] class \in HostPoolClasses -> HostPoolProperties(r)
      [] class \in CapabilitiesSettings -> CapabilitiesProperties(r)
      [] class \in ServiceClasses -> ServiceProperties(db, class)
      [] class \in MetricServiceClasses -> MetricServiceProperties
      [] class \in VirtualizationCapabilities -> VirtualizationProperties(r)

-----------------------------------------------------------------------------
(* Requests in a database that stands still                                *)

Instance(class, r, props) == [class |-> class, obj |-> r.obj, of |-> r.of, props |-> props]

\* prov_pxy_get and prov_pxy_setproperties: the instance of a path, which is a
\* class and the value of its key property.
GetInstance(db, class, id) ==
    UNION {{Instance(class, r, p) : p \in SetProperties(db, class, r)} :
              r \in RecordGetFromId(db, class, id)}

\* The entries of an enumeration in which no call fails.
AllEntries(db, class) ==
    ListEnum(db, class) \cup UNION {ListWalk(db, class, o, TRUE) : o \in WalkRefs(db, class)}

\* prov_pxy_begin to prov_pxy_end
EnumerateClass(db, class) ==
    UNION {UNION {{Instance(class, r, p) : p \in SetProperties(db, class, r)} :
                     r \in RecordGetNext(db, class, e)} : e \in AllEntries(db, class)}

\* The path of an instance leads by the value of its key.
HasPath(i) == KeyProperty(i.class) \in DOMAIN i.props
PathOf(i) == i.props[KeyProperty(i.class)]

=============================================================================
