---------------------- MODULE IndicationProvider_proofs ----------------------
(***************************************************************************)
(* Theorems about IndicationProvider, for any number of threads and        *)
(* filters: the indication provider locks nothing, and is right all the    *)
(* same in what its clients can see.                                       *)
(***************************************************************************)
EXTENDS IndicationProvider, TLAPS

\* A thread that is on record, about to be, or cancelled has been started.
Started ==
    /\ \A t \in Threads : t \in cancelled \cup {indicationThreadId, newThread} => pc[t] # "unused"
    /\ cim = "store" => newThread \in Threads

\* The CIMOM stores a thread only for a filter, and stops one only for want of
\* filters; when that is done, no thread is on record.
Recorded ==
    /\ cim = "store" => numActiveFilters > 0
    /\ cim \in {"test", "cancel", "clear"} => numActiveFilters = 0
    /\ cim = "idle" /\ numActiveFilters = 0 => indicationThreadId = NoThread

\* As long as there are filters there is a generator, the store included.
Served == ~faults /\ numActiveFilters > 0 /\ cim \in {"idle", "store"} => Working # {}

\* A thread that has delivered late waits for nothing until indications are
\* enabled again.
Batches ==
    \A t \in Threads : /\ late[t] < 2
                       /\ ~enabled /\ late[t] = 1 => pc[t] \notin {"wait", "deliver"}

IInv == TypeOK /\ Started /\ Recorded /\ Served /\ Batches

-----------------------------------------------------------------------------
(* The CIMOM                                                               *)

\* The invariant holds at the start.
LEMMA InitIInv == Init => IInv
<1>. SUFFICES ASSUME Init PROVE IInv
  OBVIOUS
<1>. USE IndicationAssumption DEF Init
<1>1. TypeOK
  <2>1. numActiveFilters \in 0..MaxFilters /\ late \in [Threads -> 0..2]
    OBVIOUS
  <2>2. pc \in [Threads -> ThreadPCs]
    BY DEF ThreadPCs
  <2>. QED  BY <2>1, <2>2 DEF TypeOK
<1>2. Started /\ Recorded /\ Served /\ Batches
  BY DEF Started, Recorded, Served, Batches
<1>. QED  BY <1>1, <1>2 DEF IInv

\* A filter is added: if a thread is started for it, that one works.
LEMMA ActivateIInv == ASSUME IInv, ActivateFilter PROVE IInv'
<1>. USE IndicationAssumption DEF IInv, ActivateFilter
<1>1. CASE indicationThreadId # NoThread /\ UNCHANGED <<cim, newThread, pc>>
  <2>1. TypeOK' /\ Started' /\ Recorded' /\ Batches'
    BY <1>1 DEF TypeOK, Started, Recorded, Batches
  <2>2. Working' = Working
    BY <1>1 DEF Working
  <2>3. Served'
    BY <1>1, <2>2 DEF Served, Recorded, TypeOK
  <2>. QED  BY <2>1, <2>3
<1>2. ASSUME NEW t \in Threads, pc[t] = "unused", pc' = [pc EXCEPT ![t] = "start"],
             newThread' = t, cim' = "store"
      PROVE  IInv'
  <2>1. TypeOK'
    BY <1>2 DEF TypeOK, ThreadPCs
  <2>2. Started' /\ Recorded' /\ Batches'
    BY <1>2 DEF TypeOK, Started, Recorded, Batches
  <2>3. t \in Working'
    BY <1>2 DEF Working, Started, TypeOK, Ending
  <2>4. Served'
    BY <2>3 DEF Served
  <2>. QED  BY <2>1, <2>2, <2>4
<1>. QED  BY <1>1, <1>2

\* A filter is taken away; with the last one the promise is off.
LEMMA DeActivateIInv == ASSUME IInv, DeActivateFilter PROVE IInv'
<1>. USE IndicationAssumption DEF IInv, DeActivateFilter
<1>1. TypeOK'
  BY DEF TypeOK
<1>2. Started' /\ Batches'
  BY DEF TypeOK, Started, Batches
<1>3. Recorded'
  BY DEF TypeOK, Recorded
<1>4. Working' = Working
  BY DEF Working
<1>5. Served'
  BY <1>4 DEF Served, TypeOK
<1>. QED  BY <1>1, <1>2, <1>3, <1>5

\* The rest of a call: the thread is stored, or one is cancelled and forgotten.
LEMMA FinishingIInv == ASSUME IInv, Finishing PROVE IInv'
<1>. USE IndicationAssumption DEF IInv, Finishing
<1>1. CASE StoreThreadId
  <2>1. TypeOK' /\ Started' /\ Recorded' /\ Batches'
    BY <1>1 DEF StoreThreadId, TypeOK, Started, Recorded, Batches
  <2>2. Working' = Working
    BY <1>1 DEF StoreThreadId, Working
  <2>3. Served'
    BY <1>1, <2>2 DEF StoreThreadId, Served
  <2>. QED  BY <2>1, <2>3
<1>2. CASE TestThreadId \/ CancelThread \/ ClearThreadId
  <2>. USE <1>2 DEF TestThreadId, CancelThread, ClearThreadId
  <2>1. TypeOK'
    BY DEF TypeOK
  <2>2. Started' /\ Batches'
    BY DEF TypeOK, Started, Batches
  <2>3. Recorded' /\ Served'
    BY DEF TypeOK, Recorded, Served
  <2>. QED  BY <2>1, <2>2, <2>3
<1>. QED  BY <1>1, <1>2

\* Indications are switched: to disable them starts a new count of late batches.
LEMMA SwitchIInv == ASSUME IInv, EnableIndications \/ DisableIndications PROVE IInv'
<1>. USE DEF IInv, EnableIndications, DisableIndications
<1>1. TypeOK'
  <2>1. late' \in [Threads -> 0..2]
    BY DEF TypeOK
  <2>2. enabled' \in BOOLEAN
    OBVIOUS
  <2>. QED  BY <2>1, <2>2 DEF TypeOK
<1>2. Started' /\ Recorded'
  BY DEF Started, Recorded
<1>3. Batches'
  BY DEF TypeOK, Batches
<1>4. Working' = Working
  BY DEF Working
<1>5. Served'
  BY <1>4 DEF Served
<1>. QED  BY <1>1, <1>2, <1>3, <1>5

-----------------------------------------------------------------------------
(* The generator threads                                                   *)

\* What the steps of a thread have in common.  It gets no nearer to a late delivery
\* than from the loop, where it looks whether indications are enabled; and without
\* faults it ends only for want of filters, or because it was cancelled.
Step(t, from, to) ==
    /\ Goes(t, from, to)
    /\ from \in ThreadPCs \ {"unused"} /\ to \in ThreadPCs \ {"unused"}
    /\ to = "wait" => enabled
    /\ to = "deliver" => from = "wait"
    /\ to \in Ending => from \in Ending \/ faults \/ numActiveFilters = 0 \/ t \in cancelled
    /\ indicationThreadId' \in {indicationThreadId, NoThread}
    /\ session' \subseteq Threads
    /\ \/ late' = late
       \/ /\ from = "deliver" /\ to = "loop"
          /\ late' = [late EXCEPT ![t] = IF enabled \/ @ = 2 THEN @ ELSE @ + 1]

\* A move of one thread that keeps to this preserves the invariant.
LEMMA StepIInv ==
  ASSUME IInv, NEW t \in Threads, NEW from, NEW to, Step(t, from, to)
  PROVE  IInv'
<1>. USE IndicationAssumption DEF IInv, Step, Goes, cimVars
<1>1. pc' = [pc EXCEPT ![t] = to] /\ pc' \in [Threads -> ThreadPCs]
  BY DEF TypeOK
<1>2. TypeOK'
  BY <1>1 DEF TypeOK
<1>3. Started' /\ Recorded'
  BY <1>1 DEF TypeOK, Started, Recorded
<1>4. Batches'
  <2>1. late[t] < 2 /\ (from = "deliver" /\ ~enabled => late[t] = 0)
    BY DEF Batches, TypeOK
  <2>2. late'[t] < 2
    BY <2>1 DEF TypeOK
  <2>3. to \in {"wait", "deliver"} /\ ~enabled => late'[t] # 1
    BY <2>1 DEF Batches, TypeOK
  <2>4. \A u \in Threads \ {t} : late'[u] = late[u] /\ pc'[u] = pc[u]
    BY <1>1 DEF TypeOK
  <2>5. pc'[t] = to /\ enabled' = enabled
    BY <1>1 DEF TypeOK
  <2>. QED  BY <2>2, <2>3, <2>4, <2>5 DEF Batches
<1>5. Served'
  <2>. SUFFICES ASSUME ~faults, numActiveFilters > 0, cim \in {"idle", "store"}
                PROVE  Working' # {}
    BY DEF Served
  <2>1. PICK u \in Working : TRUE
    BY DEF Served
  <2>2. CASE u # t
    BY <1>1, <2>1, <2>2 DEF Working, TypeOK
  <2>3. CASE u = t
    <3>1. t \notin cancelled /\ from \notin Ending
      BY <2>1, <2>3 DEF Working
    <3>2. to \notin Ending \cup {"unused"}
      BY <3>1 DEF TypeOK
    <3>. QED  BY <1>1, <3>1, <3>2 DEF Working, TypeOK
  <2>. QED  BY <2>2, <2>3
<1>. QED  BY <1>2, <1>3, <1>4, <1>5

\* Every step of a thread is one of these.
LEMMA GeneratorIInv == ASSUME IInv, NEW t \in Threads, Generator(t) PROVE IInv'
<1>. USE DEF ThreadPCs, Ending, IInv, TypeOK
<1>1. ASSUME NEW from \in {"start", "register", "wait", "deliver"}, Fails(t, from)
      PROVE  Step(t, from, "unregister")
  BY <1>1 DEF Fails, Step
<1>2. CASE OpenSession(t)
  BY <1>1, <1>2, StepIInv DEF OpenSession, Step
<1>3. CASE RegisterEvents(t)
  BY <1>1, <1>3, StepIInv DEF RegisterEvents, Step
<1>4. CASE Loop(t)
  BY <1>4, StepIInv DEF Loop, Step
<1>5. CASE Sleep(t) \/ Unregister(t) \/ CloseSession(t) \/ ForgetThread(t)
  BY <1>5, StepIInv DEF Sleep, Unregister, CloseSession, ForgetThread, Step
<1>6. CASE NextEvents(t)
  BY <1>1, <1>6, StepIInv DEF NextEvents, Step
<1>7. CASE Deliver(t)
  BY <1>1, <1>7, StepIInv DEF Deliver, Step
<1>8. CASE ActOnCancel(t)
  BY <1>8, StepIInv DEF ActOnCancel, Step
<1>. QED  BY <1>2, <1>3, <1>4, <1>5, <1>6, <1>7, <1>8 DEF Generator

-----------------------------------------------------------------------------
(* The theorems                                                            *)

\* IInv is an invariant.
THEOREM Inductive == Spec => []IInv
<1>1. IInv /\ [Next]_vars => IInv'
  <2>. SUFFICES ASSUME IInv, [Next]_vars PROVE IInv'
    OBVIOUS
  <2>1. CASE CIMOM
    BY <2>1, ActivateIInv, DeActivateIInv, FinishingIInv, SwitchIInv DEF CIMOM
  <2>2. CASE \E t \in Threads : Generator(t)
    BY <2>2, GeneratorIInv
  <2>3. CASE UNCHANGED vars
    BY <2>3 DEF vars, cimVars, IInv, TypeOK, Started, Recorded, Served, Working, Batches
  <2>. QED  BY <2>1, <2>2, <2>3 DEF Next
<1>. QED  BY <1>1, InitIInv, PTL DEF Spec

\* The variables of the provider keep their ranges; in particular a filter too many
\* is never taken away.
THEOREM TypeCorrect == Spec => []TypeOK
  BY Inductive, PTL DEF IInv

\* Without faults, subscribers have a generator that goes on, though nothing is locked
\* and a thread that ends clears the record of its successor.
THEOREM SubscribersCorrect == Spec => []SubscribersServed
<1>1. IInv => SubscribersServed
  BY DEF IInv, Served, SubscribersServed
<1>. QED  BY <1>1, Inductive, PTL

\* A thread delivers one batch at most after indications were disabled.
THEOREM BatchesCorrect == Spec => []OneBatchWhenDisabled
<1>1. IInv => OneBatchWhenDisabled
  BY DEF IInv, Batches, OneBatchWhenDisabled
<1>. QED  BY <1>1, Inductive, PTL
=============================================================================
