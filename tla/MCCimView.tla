----------------------------- MODULE MCCimView -----------------------------
(* A pool of two hosts with two machines, a snapshot, and one or two of    *)
(* every other kind of object.  The first machine has one VCPU more than   *)
(* its host has processors, and the snapshot a key-value channel without   *)
(* pairs.                                                                  *)
EXTENDS CimView

Vm(kind, vcpus, host, keys) ==
    [kind |-> kind, vcpus |-> vcpus, host |-> host, suspend |-> NoObject,
     enabled |-> TRUE, keys |-> keys]

MCPool ==
    [vm  |-> (<<"v1">> :> Vm("machine", 2, <<"h1">>, {<<"key">>})
                @@ <<"v2">> :> Vm("machine", 1, <<"h2">>, {<<"a", Slash, "b">>})
                @@ <<"v3">> :> Vm("snapshot", 1, NoObject, {})),
     vbd |-> (<<"b1">> :> [vm |-> <<"v1">>, vdi |-> <<"d1">>, type |-> "Disk"]
                @@ <<"b2">> :> [vm |-> <<"v2">>, vdi |-> NoObject, type |-> "CD"]),
     vif |-> (<<"n1">> :> [vm |-> <<"v1">>, net |-> <<"w1">>]),
     con |-> (<<"c1">> :> [vm |-> <<"v1">>]),
     vdi |-> (<<"d1">> :> [sr |-> <<"s1">>] @@ <<"d2">> :> [sr |-> <<"s1">>]),
     sr  |-> (<<"s1">> :> [hosts |-> {<<"h2">>}]),
     pif |-> (<<"p1">> :> [host |-> <<"h1">>, net |-> <<"w1">>, slave |-> FALSE]
                @@ <<"p2">> :> [host |-> <<"h2">>, net |-> <<"w1">>, slave |-> FALSE]),
     cpu |-> (<<"q1">> :> [host |-> <<"h1">>] @@ <<"q2">> :> [host |-> <<"h2">>]),
     net |-> {<<"w1">>},
     host |-> {<<"h1">>, <<"h2">>},
     pool |-> {<<"o1">>},
     local |-> <<"h1">>]

MCClasses == {"Xen_ComputerSystem", "Xen_Disk", "Xen_MemoryState", "Xen_KVP", "Xen_Processor",
              "Xen_HostProcessor", "Xen_HostNetworkPort", "Xen_NetworkPort", "Xen_DiskImage",
              "Xen_StoragePool"}

MCPathClasses == {"Xen_StoragePool", "Xen_NetworkConnectionPool", "Xen_Disk", "Xen_MemoryState",
                  "Xen_ComputerSystem", "Xen_HostProcessor"}

=============================================================================
