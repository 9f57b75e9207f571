---------------------------- MODULE AbstractJobs ----------------------------
(***************************************************************************)
(* What the asynchronous job service of the provider promises, with no     *)
(* thread, lock or library load in sight: a job that was accepted is       *)
(* served once, in the order of acceptance, one job at a time.             *)
(*                                                                         *)
(* Xen_Job_Helper.c, lines 41-44: "Asynchronous jobs are queued to a       *)
(* workitem list which is then handled by exactly one thread".             *)
(***************************************************************************)
EXTENDS Sequences, FiniteSets

CONSTANTS
    Jobs,       \* the job_create calls that may be made
    NoJob       \* "no job is being served", no element of Jobs

VARIABLES
    pending,    \* accepted jobs that wait, in the order of acceptance
    current,    \* the job being served, or NoJob
    served      \* the jobs that are over

vars == <<pending, current, served>>

Waiting == {pending[i] : i \in DOMAIN pending}

Init ==
    /\ pending = <<>>
    /\ current = NoJob
    /\ served = {}

Accept(j) ==
    /\ j \notin Waiting \cup {current} \cup served
    /\ pending' = Append(pending, j)
    /\ UNCHANGED <<current, served>>

Take ==
    /\ current = NoJob
    /\ pending # <<>>
    /\ current' = Head(pending)
    /\ pending' = Tail(pending)
    /\ UNCHANGED served

Finish ==
    /\ current # NoJob
    /\ served' = served \cup {current}
    /\ current' = NoJob
    /\ UNCHANGED pending

Next == (\E j \in Jobs : Accept(j)) \/ Take \/ Finish

Spec == Init /\ [][Next]_vars

\* A job that waits, or is being served, does not do so for ever.
Fairness == WF_vars(Take) /\ WF_vars(Finish)

FairSpec == Spec /\ Fairness
=============================================================================
