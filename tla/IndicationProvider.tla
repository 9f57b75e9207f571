------------------------- MODULE IndicationProvider -------------------------
(***************************************************************************)
(* The indication provider (Xen_ComputerSystemIndication.c): a thread that *)
(* turns xapi events into CIM indications while somebody is subscribed.    *)
(*                                                                         *)
(* The CIMOM activates and deactivates filters and enables or disables     *)
(* indications, one call at a time; the generator threads run beside it.   *)
(* Nothing is locked.  Thread zero is the indicationThreadId of "none".    *)
(***************************************************************************)
EXTENDS Naturals, FiniteSets

CONSTANTS
    Threads,    \* the generator threads that may be started: a bound
    NoThread,   \* indicationThreadId is 0
    MaxFilters  \* bound on numActiveFilters

ASSUME IndicationAssumption ==
    NoThread \notin Threads /\ MaxFilters \in Nat \ {0}

VARIABLES
    numActiveFilters, enabled, indicationThreadId,
    cim,        \* where the CIMOM is in ActivateFilter or DeActivateFilter
    newThread,  \* the thread that ActivateFilter has just started
    pc,         \* where each thread is in _indicationThread
    session,    \* the threads that hold a xapi session
    cancelled,  \* the threads that cancelThread was called on
    faults,     \* whether xapi and the delivery of indications may fail:
                \* chosen once for each behaviour
    late        \* history: batches of events that each thread has delivered
                \* since indications were last disabled

cimVars == <<numActiveFilters, enabled, cim, newThread>>
vars == <<cimVars, indicationThreadId, pc, session, cancelled, faults, late>>

Init ==
    /\ numActiveFilters = 0 /\ enabled = FALSE
    /\ indicationThreadId = NoThread
    /\ cim = "idle" /\ newThread = NoThread
    /\ pc = [t \in Threads |-> "unused"]
    /\ session = {} /\ cancelled = {} /\ faults \in BOOLEAN
    /\ late = [t \in Threads |-> 0]

Alive == cim # "crashed"

-----------------------------------------------------------------------------
(* The CIMOM                                                               *)

\* The filter is counted, and a generator started if there is none on record.
ActivateFilter ==
    /\ cim = "idle"
    /\ numActiveFilters < MaxFilters
    /\ numActiveFilters' = numActiveFilters + 1
    /\ \/ /\ indicationThreadId # NoThread
          /\ UNCHANGED <<cim, newThread, pc>>
       \/ /\ indicationThreadId = NoThread
          /\ \E t \in Threads :
               /\ pc[t] = "unused"
               /\ pc' = [pc EXCEPT ![t] = "start"]
               /\ newThread' = t
          /\ cim' = "store"
    /\ UNCHANGED <<enabled, indicationThreadId, session, cancelled, late, faults>>

\* The result of newThread is stored; the thread may be running by now.
StoreThreadId ==
    /\ cim = "store"
    /\ indicationThreadId' = newThread
    /\ newThread' = NoThread
    /\ cim' = "idle"
    /\ UNCHANGED <<numActiveFilters, enabled, pc, session, cancelled, late, faults>>

\* Mutant: a call without an active filter is counted too.
DeActivateFilter_Unguarded ==
    /\ cim = "idle"
    /\ numActiveFilters' = numActiveFilters - 1
    /\ cim' = IF numActiveFilters = 1 THEN "test" ELSE "idle"
    /\ UNCHANGED <<enabled, indicationThreadId, newThread, pc, session, cancelled, late, faults>>

\* Without an active filter the call fails and changes nothing.
DeActivateFilter ==
    /\ cim = "idle"
    /\ numActiveFilters > 0
    /\ numActiveFilters' = numActiveFilters - 1
    /\ cim' = IF numActiveFilters = 1 THEN "test" ELSE "idle"
    /\ UNCHANGED <<enabled, indicationThreadId, newThread, pc, session, cancelled, late, faults>>

\* The last filter is gone: is there a thread to stop?
TestThreadId ==
    /\ cim = "test"
    /\ cim' = IF indicationThreadId = NoThread THEN "idle" ELSE "cancel"
    /\ UNCHANGED <<numActiveFilters, enabled, indicationThreadId, newThread, pc, session,
                   cancelled, late, faults>>

\* cancelThread, on the variable as it is now: the thread itself may have
\* cleared it since the test, and to cancel thread 0 is undefined.
CancelThread ==
    /\ cim = "cancel"
    /\ IF indicationThreadId = NoThread
         THEN cim' \in {"clear", "crashed"} /\ UNCHANGED cancelled
         ELSE cim' = "clear" /\ cancelled' = cancelled \cup {indicationThreadId}
    /\ UNCHANGED <<numActiveFilters, enabled, indicationThreadId, newThread, pc, session, late,
                   faults>>

\* Mutant: the thread is cancelled, but stays on record.
ClearThreadId_Missing ==
    /\ cim = "clear"
    /\ cim' = "idle"
    /\ UNCHANGED <<numActiveFilters, enabled, indicationThreadId, newThread, pc, session,
                   cancelled, late, faults>>

ClearThreadId ==
    /\ cim = "clear"
    /\ indicationThreadId' = NoThread
    /\ cim' = "idle"
    /\ UNCHANGED <<numActiveFilters, enabled, newThread, pc, session, cancelled, late, faults>>

EnableIndications ==
    /\ cim = "idle" /\ ~enabled
    /\ enabled' = TRUE
    /\ UNCHANGED <<numActiveFilters, cim, newThread, indicationThreadId, pc, session,
                   cancelled, late, faults>>

DisableIndications ==
    /\ cim = "idle" /\ enabled
    /\ enabled' = FALSE
    /\ late' = [t \in Threads |-> 0]
    /\ UNCHANGED <<numActiveFilters, cim, newThread, indicationThreadId, pc, session, cancelled,
                   faults>>

Finishing == StoreThreadId \/ TestThreadId \/ CancelThread \/ ClearThreadId
CIMOM == ActivateFilter \/ DeActivateFilter \/ EnableIndications \/ DisableIndications
         \/ Finishing

-----------------------------------------------------------------------------
(* A generator thread                                                      *)

Goes(t, from, to) ==
    /\ Alive
    /\ pc[t] = from
    /\ pc' = [pc EXCEPT ![t] = to]
    /\ UNCHANGED <<cimVars, cancelled, faults>>

Fails(t, from) ==
    /\ faults
    /\ Goes(t, from, "unregister")
    /\ UNCHANGED <<indicationThreadId, session, late>>

\* The caller's context and a session; a session that validates to NULL is not
\* closed, one that was never opened neither.
OpenSession(t) ==
    \/ /\ Goes(t, "start", "register")
       /\ session' = session \cup {t}
       /\ UNCHANGED <<indicationThreadId, late>>
    \/ Fails(t, "start")

RegisterEvents(t) ==
    \/ /\ Goes(t, "register", "loop")
       /\ UNCHANGED <<indicationThreadId, session, late>>
    \/ Fails(t, "register")

\* Mutant: whether indications are enabled is not looked at.
Loop_NotAsked(t) ==
    /\ Goes(t, "loop", IF numActiveFilters = 0 THEN "unregister" ELSE "wait")
    /\ UNCHANGED <<indicationThreadId, session, late>>

\* The head of the loop: any filter left, and are indications enabled?
Loop(t) ==
    /\ Goes(t, "loop", IF numActiveFilters = 0 THEN "unregister"
                       ELSE IF enabled THEN "wait" ELSE "sleep")
    /\ UNCHANGED <<indicationThreadId, session, late>>

Sleep(t) ==
    /\ Goes(t, "sleep", "loop")
    /\ UNCHANGED <<indicationThreadId, session, late>>

\* xen_event_next blocks until something happens in xapi.
NextEvents(t) ==
    \/ /\ Goes(t, "wait", "deliver")
       /\ UNCHANGED <<indicationThreadId, session, late>>
    \/ Fails(t, "wait")

\* Every event of the batch becomes an indication for all subscribers.
Deliver(t) ==
    \/ /\ Goes(t, "deliver", "loop")
       /\ late' = [late EXCEPT ![t] = IF enabled \/ @ = 2 THEN @ ELSE @ + 1]
       /\ UNCHANGED <<indicationThreadId, session>>
    \/ Fails(t, "deliver")

\* The label exit: unregister, detach, close the session.
Unregister(t) ==
    /\ Goes(t, "unregister", "close")
    /\ UNCHANGED <<indicationThreadId, session, late>>

CloseSession(t) ==
    /\ Goes(t, "close", "last")
    /\ session' = session \ {t}
    /\ UNCHANGED <<indicationThreadId, late>>

\* The last statement of the thread, whoever is on record by then.
ForgetThread(t) ==
    /\ Goes(t, "last", "dead")
    /\ indicationThreadId' = NoThread
    /\ UNCHANGED <<session, late>>

\* A cancelled thread ends in a call that blocks: to xapi, the delivery, sleep.
ActOnCancel(t) ==
    /\ t \in cancelled
    /\ \E from \in {"start", "register", "sleep", "wait", "deliver", "unregister", "close"} :
         Goes(t, from, "dead")
    /\ UNCHANGED <<indicationThreadId, session, late>>

Generator(t) ==
    \/ OpenSession(t) \/ RegisterEvents(t) \/ Loop(t) \/ Sleep(t) \/ NextEvents(t)
    \/ Deliver(t) \/ Unregister(t) \/ CloseSession(t) \/ ForgetThread(t) \/ ActOnCancel(t)

Next == CIMOM \/ \E t \in Threads : Generator(t)

Spec == Init /\ [][Next]_vars

-----------------------------------------------------------------------------
(* Properties                                                              *)

ThreadPCs == {"unused", "start", "register", "loop", "sleep", "wait", "deliver",
              "unregister", "close", "last", "dead"}
Ending == {"unregister", "close", "last", "dead"}

\* Every variable stays in its range.
TypeOK ==
    /\ numActiveFilters \in 0..MaxFilters /\ enabled \in BOOLEAN
    /\ indicationThreadId \in Threads \cup {NoThread}
    /\ cim \in {"idle", "store", "test", "cancel", "clear", "crashed"}
    /\ newThread \in Threads \cup {NoThread}
    /\ pc \in [Threads -> ThreadPCs]
    /\ session \subseteq Threads /\ cancelled \subseteq Threads /\ faults \in BOOLEAN
    /\ late \in [Threads -> 0..2]

\* The threads that generate indications and will go on doing so.
Working == {t \in Threads \ cancelled : pc[t] \notin Ending \cup {"unused"}}

\* Without faults a subscriber is never left without a generator, however the
\* end of an old thread and the start of a new one overlap.
SubscribersServed ==
    ~faults /\ numActiveFilters > 0 /\ cim = "idle" => Working # {}

\* After DisableIndications a thread delivers what it was already waiting for,
\* and nothing more.
OneBatchWhenDisabled == \A t \in Threads : late[t] < 2

\* "Startup the indication generator if it isn't already running"
\* (Xen_ComputerSystemIndication.c:333): no event is delivered twice.
OneGenerator == Cardinality(Working) <= 1
=============================================================================
