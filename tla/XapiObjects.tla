---------------------------- MODULE XapiObjects ----------------------------
(***************************************************************************)
(* The objects of a pool as xapi keeps them: a database of records by      *)
(* uuid.  xapi is not part of this repository; the records hold the fields *)
(* and references that the providers read.  A reference that leads nowhere *)
(* is an object that has gone since it was read.                           *)
(*                                                                         *)
(*   vm    [kind, vcpus, host, suspend, enabled, keys]   host, suspend may *)
(*         be NoObject; enabled says that kvp_enabled is set, and keys is  *)
(*         the store of the guest                                          *)
(*   vbd   [vm, vdi, type]      vif [vm, net]      con [vm]      vdi [sr]  *)
(*   sr    [hosts]  the hosts with a PBD      net [] a set      pool a set *)
(*   pif   [host, net, slave]      cpu [host]      host a set              *)
(*   local the host that the session was opened on                         *)
(***************************************************************************)
EXTENDS Integers, Sequences, CimNames

NoObject == <<>>

Templates == {"template", "snapshot"}      \* is_a_template is set on both

\* What a record reads as when the reference leads nowhere.
Read(table, o) == IF o \in DOMAIN table THEN {table[o]} ELSE {}

Drop(table, gone) == [o \in DOMAIN table \ gone |-> table[o]]

\* The objects that go with a machine.
DevicesOf(table, v) == {o \in DOMAIN table : table[o].vm = v}

VmGone(db, v) == [db EXCEPT !.vm  = Drop(db.vm, {v}),
                            !.vbd = Drop(db.vbd, DevicesOf(db.vbd, v)),
                            !.vif = Drop(db.vif, DevicesOf(db.vif, v)),
                            !.con = Drop(db.con, DevicesOf(db.con, v))]

=============================================================================
