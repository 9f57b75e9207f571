------------------------------ MODULE CimView ------------------------------
(***************************************************************************)
(* A client looks at a pool through CIM while the pool changes.  One       *)
(* request at a time is served (ProxyProvider.c, ProxyHelper.c): an        *)
(* enumeration takes the references first, reads an object for each one    *)
(* later and may read more for its properties later still; GetInstance     *)
(* reads the object of a path that was handed out before.  Between two     *)
(* reads other clients of xapi move, remove and reconnect the objects.     *)
(***************************************************************************)
EXTENDS Associations

CONSTANTS
    Pool,            \* the database at the start
    Classes,         \* the classes that are enumerated
    PathClasses,     \* the classes of which the client keeps a path
    MaxEvents        \* how many changes the other clients make, at most

VARIABLES
    db,              \* the objects of xapi
    events,          \* how many changes there were
    request,         \* what the provider is doing
    result,          \* the instances it has returned
    held,            \* a path the client has kept, with its instance, or none
    steady           \* history: what has been there since the request came

vars == <<db, events, request, result, held, steady>>

ASSUME PoolAssumption == DOMAIN Pool.vm # {} /\ Pool.local \in Pool.host
ASSUME ClassAssumption == Classes \subseteq Served /\ PathClasses \subseteq Served
ASSUME EventAssumption == MaxEvents \in Nat

Idle == [phase |-> "idle"]
NothingHeld == [class |-> "none"]

-----------------------------------------------------------------------------
(* What is there                                                           *)

Named(i) == Entry(i.obj, i.of)

\* The entries of a class in a database that stands still.
There(d, class) == {Named(i) : i \in EnumerateClass(d, class)}

Uuids == UNION {DOMAIN Pool.vm, DOMAIN Pool.vbd, DOMAIN Pool.vif, DOMAIN Pool.con,
                DOMAIN Pool.vdi, DOMAIN Pool.sr, DOMAIN Pool.pif, DOMAIN Pool.cpu,
                Pool.net, Pool.host, Pool.pool}
Keys == UNION {Pool.vm[v].keys : v \in DOMAIN Pool.vm}

\* The records of the pool; their references lead somewhere at the start.
VmRecord == [kind : {"machine"} \cup Templates, vcpus : 0..MaxVcpus,
             host : Pool.host \cup {NoObject}, suspend : DOMAIN Pool.vdi \cup {NoObject},
             enabled : BOOLEAN, keys : SUBSET Keys]
PifRecord == [host : Pool.host, net : Pool.net, slave : BOOLEAN]
SrRecord  == [hosts : SUBSET Pool.host]

ASSUME TablesAssumption ==
    /\ {"vm", "vbd", "vif", "con", "vdi", "sr", "pif", "cpu", "net", "host", "pool", "local"}
          \subseteq DOMAIN Pool
    /\ Pool.vm \in [DOMAIN Pool.vm -> VmRecord]
    /\ Pool.vbd \in [DOMAIN Pool.vbd -> [vm : DOMAIN Pool.vm, type : {"Disk", "CD"},
                                        vdi : DOMAIN Pool.vdi \cup {NoObject}]]
    /\ Pool.vif \in [DOMAIN Pool.vif -> [vm : DOMAIN Pool.vm, net : Pool.net]]
    /\ Pool.con \in [DOMAIN Pool.con -> [vm : DOMAIN Pool.vm]]
    /\ Pool.vdi \in [DOMAIN Pool.vdi -> [sr : DOMAIN Pool.sr]]
    /\ Pool.sr \in [DOMAIN Pool.sr -> SrRecord]
    /\ Pool.pif \in [DOMAIN Pool.pif -> PifRecord]
    /\ Pool.cpu \in [DOMAIN Pool.cpu -> [host : Pool.host]]

\* Names are sequences of strings; those of xapi's objects, of VCPUs and of settings have
\* no slash.
ASSUME NamesAssumption ==
    /\ Keys \subseteq Name
    /\ \A n \in Uuids \cup VcpuNames(MaxVcpus)
                  \cup UNION {SettingNames(c) : c \in CapabilitiesSettings} :
          n \in Name /\ ~Has(n, Slash)

\* A pool has finitely many hosts.  A uuid is none of the words that stand where there is
\* no name, and a virtual port and a port of a host have different ones.
ASSUME UuidsAssumption ==
    /\ IsFiniteSet(Pool.host)
    /\ Uuids \cap ({NoName} \cup {<<w>> : w \in Words}) = {}
    /\ DOMAIN Pool.vif \cap DOMAIN Pool.pif = {}

-----------------------------------------------------------------------------
(* xapi: what other clients do meanwhile                                   *)

Init == /\ db = Pool
        /\ events = 0
        /\ request = Idle
        /\ result = {}
        /\ held = NothingHeld
        /\ steady = {}

\* A change is one more event, and what it takes away has not been there
\* throughout the request.
Change(d) == /\ events < MaxEvents
             /\ events' = events + 1
             /\ db' = d
             /\ steady' = IF request = Idle THEN steady ELSE steady \cap There(d, request.class)
             /\ UNCHANGED <<request, result, held>>

DestroyVm == \E v \in DOMAIN db.vm : Change(VmGone(db, v))

ConvertToTemplate == \E v \in DOMAIN db.vm : /\ db.vm[v].kind = "machine"
                                             /\ Change([db EXCEPT !.vm[v].kind = "template"])

\* A machine that is shut down runs nowhere.
Stop == \E v \in DOMAIN db.vm : /\ db.vm[v].host # NoObject
                                /\ Change([db EXCEPT !.vm[v].host = NoObject])

Suspend == \E v \in DOMAIN db.vm, d \in DOMAIN db.vdi :
              /\ db.vm[v].kind = "machine" /\ db.vm[v].host # NoObject
              /\ \A o \in DOMAIN db.vbd : db.vbd[o].vdi # d
              /\ \A u \in DOMAIN db.vm : db.vm[u].suspend # d
              /\ Change([db EXCEPT !.vm[v].suspend = d, !.vm[v].host = NoObject])

Migrate == \E v \in DOMAIN db.vm, h \in db.host :
              /\ db.vm[v].kind = "machine" /\ db.vm[v].host \in db.host \ {h}
              /\ Change([db EXCEPT !.vm[v].host = h])

RemoveDevice == \/ \E o \in DOMAIN db.vbd : Change([db EXCEPT !.vbd = Drop(db.vbd, {o})])
                \/ \E o \in DOMAIN db.vif : Change([db EXCEPT !.vif = Drop(db.vif, {o})])

\* A PBD is destroyed, or another host gets one: the SR becomes local or shared.
Reconnect == \E s \in DOMAIN db.sr, h \in db.host :
                Change([db EXCEPT !.sr[s].hosts = IF h \in @ THEN @ \ {h} ELSE @ \cup {h}])

Bond == \E p \in DOMAIN db.pif : /\ ~db.pif[p].slave
                                 /\ Change([db EXCEPT !.pif[p].slave = TRUE])

\* A host leaves the pool; its processors and ports go later.
Eject == \E h \in db.host \ {db.local} :
            /\ \A v \in DOMAIN db.vm : db.vm[v].host # h
            /\ Change([db EXCEPT !.host = @ \ {h}])
Collect == \E h \in Pool.host \ db.host :
              /\ \E p \in DOMAIN db.cpu : db.cpu[p].host = h
              /\ Change([db EXCEPT
                    !.cpu = Drop(@, {p \in DOMAIN @ : @[p].host = h}),
                    !.pif = Drop(@, {p \in DOMAIN @ : @[p].host = h}),
                    !.sr = [s \in DOMAIN db.sr |-> [db.sr[s] EXCEPT !.hosts = @ \ {h}]]])

OtherClients == \/ DestroyVm \/ ConvertToTemplate \/ Stop \/ Suspend \/ Migrate \/ RemoveDevice
                \/ Reconnect \/ Bond \/ Eject \/ Collect

-----------------------------------------------------------------------------
(* An enumeration                                                          *)

Reading(class, list) == [phase |-> "reading", class |-> class, list |-> list]
Walking(class, refs, list, ok) ==
    IF refs = {} THEN Reading(class, list)
                 ELSE [phase |-> "listing", class |-> class, refs |-> refs, list |-> list,
                       ok |-> ok]
Filling(class, list, r) == [phase |-> "filling", class |-> class, list |-> list, res |-> r]

\* enum_call and prov_pxy_begin: list_enum takes the references, in one call.
Begin(class) ==
    /\ request = Idle
    /\ request' = IF class \in WalkingClasses THEN Walking(class, WalkRefs(db, class), {}, TRUE)
                                              ELSE Reading(class, ListEnum(db, class))
    /\ result' = {}
    /\ steady' = There(db, class)
    /\ UNCHANGED <<db, events, held>>

\* Mutant: an object that is gone ends the loop of every class.
WalkTurn_Ends ==
    /\ request.phase = "listing"
    /\ \E v \in request.refs :
          LET list == request.list \cup ListWalk(db, request.class, v, request.ok)
              rest == IF v \in WalkRefs(db, request.class) THEN request.refs \ {v} ELSE {}
              ok   == WalkOk(db, request.class, v, request.ok)
          IN  request' = Walking(request.class, rest, list, ok)
    /\ UNCHANGED <<db, events, result, held, steady>>

\* One turn of a loop of list_enum that reads an object.
WalkTurn ==
    /\ request.phase = "listing"
    /\ \E v \in request.refs :
          LET list == request.list \cup ListWalk(db, request.class, v, request.ok)
              rest == IF WalkEnds(db, request.class, v) THEN {} ELSE request.refs \ {v}
              ok   == WalkOk(db, request.class, v, request.ok)
          IN  request' = Walking(request.class, rest, list, ok)
    /\ UNCHANGED <<db, events, result, held, steady>>

\* prov_pxy_getnext: what cannot be read, or is not of the class, is passed over.
GetNext ==
    /\ request.phase = "reading"
    /\ \E e \in request.list :
          LET found == RecordGetNext(db, request.class, e)
          IN  \/ /\ found = {}
                 /\ request' = Reading(request.class, request.list \ {e})
              \/ \E r \in found :
                    request' = Filling(request.class, request.list \ {e}, r)
    /\ UNCHANGED <<db, events, result, held, steady>>

\* Setting the properties may end the CIM server, and does if it reads through a
\* null pointer.
MayDie ==
    \/ Crash \in SetProperties(db, request.class, request.res)
    \/ request.class \in ProcessorClasses /\ BeyondArray(db, request.res)
Dies ==
    /\ MayDie
    /\ request' = [phase |-> "dead", class |-> request.class]
    /\ UNCHANGED result

\* prov_pxy_setproperties: a failure skips the object.
FillIn ==
    /\ request.phase = "filling"
    /\ \/ Dies
       \/ LET made == SetProperties(db, request.class, request.res)
          IN  /\ Crash \notin made
              /\ request' = Reading(request.class, request.list)
              /\ result' = result \cup {Instance(request.class, request.res, p) : p \in made}
    /\ UNCHANGED <<db, events, held, steady>>

\* prov_pxy_end; the answer is on its way.
EnumerationEnds == request.phase = "reading" /\ request.list = {}
End ==
    /\ EnumerationEnds
    /\ request' = Idle
    /\ result' = {} /\ steady' = {}
    /\ UNCHANGED <<db, events, held>>

\* The CIM server is started again after it died.
Restart ==
    /\ request.phase = "dead"
    /\ request' = Idle
    /\ result' = {} /\ steady' = {}
    /\ UNCHANGED <<db, events, held>>

-----------------------------------------------------------------------------
(* GetInstance of a path that was handed out earlier                       *)

Keep(class) ==
    /\ request = Idle /\ held = NothingHeld
    /\ \E i \in EnumerateClass(db, class) : HasPath(i) /\ held' = i
    /\ UNCHANGED <<db, events, request, result, steady>>

Answered(class) == [phase |-> "answered", class |-> class]

\* prov_pxy_get
Get ==
    /\ request = Idle /\ held # NothingHeld
    /\ steady' = There(db, held.class) \cap {Named(held)}
    /\ LET found == RecordGetFromId(db, held.class, PathOf(held))
       IN  \/ found = {} /\ request' = Answered(held.class)
           \/ \E r \in found : request' = [phase |-> "found", class |-> held.class, res |-> r]
    /\ UNCHANGED <<db, events, result, held>>

GetFillIn ==
    /\ request.phase = "found"
    /\ \/ Dies
       \/ LET made == SetProperties(db, request.class, request.res)
          IN  /\ Crash \notin made
              /\ request' = Answered(request.class)
              /\ result' = {Instance(request.class, request.res, p) : p \in made}
    /\ UNCHANGED <<db, events, held, steady>>

Received ==
    /\ request.phase = "answered"
    /\ request' = Idle
    /\ result' = {} /\ steady' = {}
    /\ UNCHANGED <<db, events, held>>

Next == \/ OtherClients
        \/ \E class \in Classes : Begin(class)
        \/ WalkTurn \/ GetNext \/ FillIn \/ End \/ Restart
        \/ \E class \in PathClasses : Keep(class)
        \/ Get \/ GetFillIn \/ Received

Spec == Init /\ [][Next]_vars

-----------------------------------------------------------------------------
(* Properties                                                              *)

Names == Uuids \cup {<<"service">>} \cup ResourceTypes
Parts == {NoPart} \cup Uuids \cup Keys \cup VcpuNames(MaxVcpus)
            \cup UNION {SettingNames(c) : c \in CapabilitiesSettings}
EntryType == [obj : Names, of : Parts]
InstanceTyped(i) == i.class \in Served /\ Named(i) \in EntryType

\* TypeOK: the types of the variables.
TypeOK ==
    /\ events \in 0..MaxEvents
    /\ db.host \subseteq Pool.host /\ db.local \in db.host
    /\ \A v \in DOMAIN db.vm : db.vm[v].host \in Pool.host \cup {NoObject}
    /\ \A o \in DOMAIN db.vbd : db.vbd[o].vm \in DOMAIN db.vm
    /\ \A o \in DOMAIN db.vif : db.vif[o].vm \in DOMAIN db.vm
    /\ \A o \in DOMAIN db.con : db.con[o].vm \in DOMAIN db.vm
    /\ request.phase \in {"idle", "listing", "reading", "filling", "found", "answered", "dead"}
    /\ request # Idle => request.class \in Served
    /\ request.phase \in {"listing", "reading", "filling"} => request.list \subseteq EntryType
    /\ \A i \in result : InstanceTyped(i)
    /\ held # NothingHeld => InstanceTyped(held)
    /\ steady \subseteq EntryType

\* Two classes whose enumeration does leave out what is there: the loop of
\* Xen_Processor ends at a VM that has gone, and the one of Xen_KVP passes over
\* the machine after an enabled one whose host has no address.
Truncated == ProcessorClasses \cup KVPClasses

\* EnumerationComplete: whatever other clients do meanwhile, an enumeration
\* returns every object of its class that was there from its beginning to its
\* end (ProxyProvider.c:255, xen_utils.c:1263), but for Truncated.
EnumerationComplete ==
    EnumerationEnds /\ request.class \notin Truncated => steady \subseteq {Named(i) : i \in result}

\* The paths that do not lead back: what is known by a key with a slash, and
\* the settings that are looked up by their whole identifier.
Unfound(i) == \/ i.class \in KVPClasses /\ Has(i.of, Slash)
              \/ i.class \in {"Xen_StorageCapabilitiesSettingData",
                              "Xen_NetworkConnectionCapabilitiesSettingData"}

\* PathOutlivesMoves: a path that was handed out finds its object later, as
\* long as that is there, though what the path is made of, the host of a pool or
\* the machine of a disk, may be another one by then.
PathOutlivesMoves ==
    request.phase = "answered" /\ ~Unfound(held) => steady \subseteq {Named(i) : i \in result}

\* No request is being served and nothing is kept: the state of the pool alone
\* matters.
Quiet == request = Idle /\ held = NothingHeld

\* FoundByPath: the path of every instance that an enumeration returns leads to
\* that very instance: identifiers are taken apart the way they are put
\* together, in every provider, and name one object only.
FoundByPath ==
    Quiet => \A class \in Served : \A i \in EnumerateClass(db, class) :
                HasPath(i) /\ ~Unfound(i) => GetInstance(db, class, PathOf(i)) = {i}

\* What an instance is a part of.
Whereof(i) ==
    CASE i.class \in DiskClasses -> db.vbd[i.obj].vm
      [] i.class = "Xen_VirtualSwitchPort" -> db.vif[i.obj].net
      [] i.class \in NetworkPortClasses \ {"Xen_VirtualSwitchPort"} -> db.vif[i.obj].vm
      [] i.class \in ConsoleClasses -> db.con[i.obj].vm
      [] i.class \in HostProcessorClasses -> db.cpu[i.obj].host
      [] i.class \in DiskImageClasses -> db.vdi[i.obj].sr
      [] OTHER -> i.obj

\* What each association says of its two sides, in terms of xapi's objects.
Holds(row, l, r) ==
    IF row.lhs.key = NoKey THEN TRUE ELSE
    CASE row.assoc = "Xen_HostedComputerSystem" -> db.vm[l.obj].host = r.obj
      [] row.assoc = "Xen_HostedStoragePool" -> db.sr[r.obj].hosts = {l.obj}
      [] row.base \in {"CIM_SystemDevice", "CIM_ConcreteComponent",
                       "CIM_VirtualSystemSettingDataComponent"} -> Whereof(l) = r.obj
      [] OTHER -> l.obj = r.obj

\* The associations whose keys do not have a name in common: settings and
\* states of memory and processors, the storage of a host, and the metrics of
\* processors, whose instances are made like pools of memory.
Incomparable == {"Xen_MemorySettingsDefineState", "Xen_ProcessorSettingsDefineState",
                 "Xen_HostStorageAllocationCapabilities", "Xen_StoragePoolDiskDriveComponent",
                 "Xen_MetricForHostProcessor", "Xen_MetricForVirtualProcessor"}

Compared == {row \in Range(AssocTable) : row.assoc \notin Incomparable}

Garbage == <<"garbage">>

\* References looks at the side on the right only, for want of an else, and
\* finds what is there by its path.
Referred(row, r) ==
    /\ r.class = row.rhs.class
    /\ row.lhs.key # NoKey => row.lhs.key = KeyProperty(row.lhs.class)

\* The service and its capabilities know each other by all four requests.
CapabilitiesOfService ==
    LET S == EnumInstances(db, ManagementService)
        C == EnumInstances(db, ManagementCapabilities)
    IN  \A s \in S, c \in C :
           /\ ManagementAssociators(db, s, NoKey) = {c}
           /\ ManagementAssociators(db, c, NoKey) = {s}
           /\ ManagementReferences(db, s) = ManagementReferences(db, c)
           /\ ManagementReferenceNames(db, c) = {[lhs |-> PathOf(s), rhs |-> PathOf(c)]}
           /\ ManagementAssociatorNames(db, s, NoKey)
                 = {[class |-> ManagementCapabilities, path |-> PathOf(c)]}

\* No instance of the class is made of a record that is taken for granted and is
\* not there: the CIM server lives to answer.
Survives(class) == \A i \in EnumInstances(db, class) : i.props # Crash

\* AssociationsTrue: unless the CIM server dies of an instance on either side, an
\* association relates two instances, asked by Associators from either side and by
\* References from the right, if and only if the objects of xapi they stand for are
\* related.
AssociationsTrue ==
    Quiet =>
      /\ CapabilitiesOfService
      /\ \A row \in Compared :
            LET L == EnumInstances(db, row.lhs.class)
                R == EnumInstances(db, row.rhs.class)
            IN  Survives(row.lhs.class) /\ Survives(row.rhs.class) =>
                  /\ \A l \in L : Associators(db, l, row.assoc, Garbage)
                                     = {r \in R : Holds(row, l, r)}
                  /\ \A r \in R :
                        LET Related == {l \in L : Holds(row, l, r)}
                        IN  /\ row.lhs.class # row.rhs.class =>
                                  Associators(db, r, row.assoc, Garbage) = Related
                            /\ Referred(row, r) =>
                                  ReferencesRoutine(db, r, row.assoc, Garbage)
                                      = {Reference(row.assoc, l, r) : l \in Related}

=============================================================================
