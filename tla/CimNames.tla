------------------------------ MODULE CimNames ------------------------------
(***************************************************************************)
(* The identifiers that CIM instances are known by (cmpiutil.c).  The name *)
(* of a xapi object is its uuid; an identifier puts the name of a system   *)
(* and, after a slash, the name of a device of that system together, as in *)
(* "Xen:<system>/<device>", and is taken apart again wherever an object    *)
(* path or an association has to be resolved.                              *)
(*                                                                         *)
(* A name is a sequence of tokens.  A uuid, "Memory" or "VCPU0" is one     *)
(* token; a key of the key-value store may hold slashes, and is several.   *)
(* All names fit the buffers they are copied to.                           *)
(***************************************************************************)
EXTENDS Integers, Sequences

Colon == ":"
Slash == "/"

\* The words that stand for a system or a device in an identifier where there is no name.
Words == {"NoHost", "Shared", "Memory", "Processor", "MemoryPool", "ProcessorPool",
          "ProcessorAllocationCapabilities", "StorageAllocationCapabilities",
          "NetworkConnectionAllocationCapabilities"}

\* The names: sequences of tokens, which are strings; so are the words above and the
\* three tokens that identifiers add.
Token == STRING \cup Words \cup {"Xen", Colon, Slash}
Name == Seq(Token)

\* What the functions return when they find no separator: NULL.
NoName == <<"NULL">>

\* Does name n hold token t, and which part of it precedes the first, or
\* surrounds the last one (strchr, strrchr).
Has(n, t) == \E i \in DOMAIN n : n[i] = t

FirstAt(n, t) == CHOOSE i \in DOMAIN n : n[i] = t /\ \A j \in 1..(i - 1) : n[j] # t
LastAt(n, t)  == CHOOSE i \in DOMAIN n : n[i] = t /\ \A j \in (i + 1)..Len(n) : n[j] # t

From(n, i) == SubSeq(n, i, Len(n))

-----------------------------------------------------------------------------
(* Identifiers are put together                                            *)

\* _CMPICreateNewSystemInstanceID
NewSystemInstanceID(system) == <<"Xen", Colon>> \o system

\* _CMPICreateNewDeviceInstanceID
NewDeviceInstanceID(system, device) == <<"Xen", Colon>> \o system \o <<Slash>> \o device

-----------------------------------------------------------------------------
(* and taken apart                                                         *)

\* _CMPIStrncpySystemNameFromID: what is between the first colon and the last
\* slash after it, or the end.
SystemNameFromID(id) ==
    IF ~Has(id, Colon)
      THEN NoName
      ELSE LET begin == From(id, FirstAt(id, Colon) + 1)
           IN  IF Has(begin, Slash) THEN SubSeq(begin, 1, LastAt(begin, Slash) - 1) ELSE begin

\* _CMPIStrncpyDeviceNameFromID: what is after the last slash.
DeviceNameFromID(id) ==
    IF Has(id, Slash) THEN From(id, LastAt(id, Slash) + 1) ELSE NoName

\* strncpy, where an identifier is a plain name.
PlainName(id) == id

=============================================================================
