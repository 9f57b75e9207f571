----------------------------- MODULE XenLibrary -----------------------------
(***************************************************************************)
(* The use count of libxenserver and libcurl (xen_utils.c): whoever makes  *)
(* xapi calls initialises the libraries first and closes them at last, and *)
(* the last to close finalises them.                                       *)
(*                                                                         *)
(* The users are the instance and method halves of the provider library,   *)
(* which the CIMOM loads and unloads, and the indication generators, each  *)
(* in its own thread.  Instance halves may be unloaded again and again.    *)
(***************************************************************************)
EXTENDS Integers, FiniteSets

CONSTANTS
    Instances,   \* instance providers   (prov_pxy_init, prov_pxy_uninit)
    Methods,     \* method providers     (XenCommonMethodInitialize, ...Cleanup)
    Generators,  \* generator threads    (xen_utils_xen_init2, xen_utils_xen_close2)
    NoUser       \* ref_count_lock is free

Users == Instances \cup Methods \cup Generators

\* ref_count is unsigned, of at least as many values as there are users.
WordSize == Cardinality(Users) + 2

ASSUME LibraryAssumption == IsFiniteSet(Users) /\ NoUser \notin Users

VARIABLES
    ref_count_lock, \* who holds it
    ref_count,
    up,             \* the libraries are initialised
    loaded,         \* the instance providers whose g_bProviderLoaded is true
    pc,             \* where each user is
    register        \* what each user has read of ref_count

libraryVars == <<ref_count_lock, ref_count, up, loaded, pc, register>>

LibraryInit ==
    /\ ref_count_lock = NoUser /\ ref_count = 0 /\ up = FALSE
    /\ loaded = {}
    /\ pc = [u \in Users |-> "out"]
    /\ register = [u \in Users |-> 0]

Goes(u, from, to) == pc[u] = from /\ pc' = [pc EXCEPT ![u] = to]

-----------------------------------------------------------------------------
(* What the users decide                                                   *)

\* A provider is loaded, or a generator thread starts (each runs once).
Load(u) ==
    /\ Goes(u, "out", "init")
    /\ UNCHANGED <<ref_count_lock, ref_count, up, loaded, register>>

\* Mutant: an instance provider closes at every unload.
Unload_Unguarded(u) ==
    /\ u \in Instances
    /\ pc[u] \in {"in", "out"}
    /\ pc' = [pc EXCEPT ![u] = "close"]
    /\ UNCHANGED <<ref_count_lock, ref_count, up, loaded, register>>

\* An instance provider closes what it has opened, and that once: the call
\* that finds g_bProviderLoaded false changes nothing.
Unload(u) ==
    /\ u \in Instances
    /\ pc[u] \in {"in", "out"}
    /\ u \in loaded
    /\ pc' = [pc EXCEPT ![u] = "close"]
    /\ UNCHANGED <<ref_count_lock, ref_count, up, loaded, register>>

\* A method provider closes when no job is left; a generator when it ends.
Leave(u) ==
    /\ u \in Methods \cup Generators
    /\ Goes(u, "in", "close")
    /\ UNCHANGED <<ref_count_lock, ref_count, up, loaded, register>>

-----------------------------------------------------------------------------
(* xen_utils_xen_init and xen_utils_xen_close                              *)

Lock(u) ==
    /\ ref_count_lock = NoUser
    /\ \/ Goes(u, "init", "test") \/ Goes(u, "close", "read_dec")
    /\ ref_count_lock' = u
    /\ UNCHANGED <<ref_count, up, loaded, register>>

\* xen_init and curl_global_init for the first user.
Start(u) ==
    /\ Goes(u, "test", "read_inc")
    /\ up' = (up \/ ref_count = 0)
    /\ UNCHANGED <<ref_count_lock, ref_count, loaded, register>>

\* ref_count++ and ref_count-- read first ...
ReadCount(u) ==
    /\ \/ Goes(u, "read_inc", "inc") \/ Goes(u, "read_dec", "dec")
    /\ register' = [register EXCEPT ![u] = ref_count]
    /\ UNCHANGED <<ref_count_lock, ref_count, up, loaded>>

\* ... and write then.
Increment(u) ==
    /\ Goes(u, "inc", "opened")
    /\ ref_count' = (register[u] + 1) % WordSize
    /\ UNCHANGED <<ref_count_lock, up, loaded, register>>

Decrement(u) ==
    /\ Goes(u, "dec", "finish")
    /\ ref_count' = (register[u] - 1) % WordSize
    /\ UNCHANGED <<ref_count_lock, up, loaded, register>>

\* Mutant: the last but one finalises the libraries.
Finish_Early(u) ==
    /\ Goes(u, "finish", "closed")
    /\ up' = (up /\ ref_count > 1)
    /\ UNCHANGED <<ref_count_lock, ref_count, loaded, register>>

\* xen_fini and curl_global_cleanup by the last user.
Finish(u) ==
    /\ Goes(u, "finish", "closed")
    /\ up' = (up /\ ref_count # 0)
    /\ UNCHANGED <<ref_count_lock, ref_count, loaded, register>>

\* The lock is released, and prov_pxy_init or prov_pxy_uninit sets its flag.
Unlock(u) ==
    /\ \/ /\ Goes(u, "opened", "in")
          /\ loaded' = loaded \cup ({u} \cap Instances)
       \/ /\ Goes(u, "closed", IF u \in Generators THEN "again" ELSE "out")
          /\ loaded' = loaded \ {u}
    /\ ref_count_lock' = NoUser
    /\ UNCHANGED <<ref_count, up, register>>

\* xen_utils_xen_close2 releases the lock once more: its own no longer, maybe
\* somebody else's by now (undefined; a default mutex is simply free then).
UnlockAgain(u) ==
    /\ Goes(u, "again", "ended")
    /\ ref_count_lock' = NoUser
    /\ UNCHANGED <<ref_count, up, loaded, register>>

User(u) ==
    \/ Load(u) \/ Unload(u) \/ Leave(u)
    \/ Lock(u) \/ Start(u) \/ ReadCount(u) \/ Increment(u) \/ Decrement(u) \/ Finish(u)
    \/ Unlock(u) \/ UnlockAgain(u)

LibraryNext == \E u \in Users : User(u)

LibrarySpec == LibraryInit /\ [][LibraryNext]_libraryVars

-----------------------------------------------------------------------------
(* Properties                                                              *)

Opening == {"test", "read_inc", "inc", "opened"}
Closing == {"read_dec", "dec", "finish", "closed"}

\* The count lies between 0 and the number of users: it never wraps below zero.
LibraryTypeOK ==
    /\ ref_count_lock \in Users \cup {NoUser}
    /\ ref_count \in 0..Cardinality(Users)
    /\ up \in BOOLEAN
    /\ loaded \subseteq Instances
    /\ pc \in [Users -> {"out", "init", "in", "close", "again", "ended"} \cup Opening \cup Closing]
    /\ register \in [Users -> 0..Cardinality(Users)]

\* "reference counting this library's use" (xen_utils.c:51): nobody who has
\* initialised the libraries, and not closed them yet, finds them finalised.
UpWhileUsed == \A u \in Users : pc[u] \in {"in", "close"} => up

\* Outside the critical section the count is the number of users.
CountExact ==
    (\A u \in Users : pc[u] \notin Opening \cup Closing)
        => ref_count = Cardinality({u \in Users : pc[u] \in {"in", "close"}})
=============================================================================
