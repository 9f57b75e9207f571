---------------------------- MODULE JobInstances ----------------------------
(***************************************************************************)
(* Requests about the instances of a class, as the CIMOM's threads carry   *)
(* them out (ProxyProvider.c, ProxyHelper.c), each with xapi sessions of   *)
(* its own (xen_utils.c), for the class of jobs (Xen_Job.c), the one whose *)
(* instances come and go while it is enumerated, and the only one that     *)
(* answers all the operations.                                             *)
(*                                                                         *)
(* The threads share xapi and, by mistake, the return code of              *)
(* prov_pxy_get.  A step is at most one call to xapi that others can tell, *)
(* or one use of that code.                                                *)
(***************************************************************************)
EXTENDS Naturals, FiniteSets

CONSTANTS
    Threads,    \* threads of the CIMOM, each with one request at a time
    Tasks,      \* the tasks of xapi
    Named,      \* those whose name is the class that is asked about
    Asks        \* what each thread may be asked for

Ops == {"enumerate", "query", "get", "create", "modify", "delete", "kill"}

ASSUME JobInstancesAssumption ==
    /\ IsFiniteSet(Tasks)
    /\ Named \subseteq Tasks /\ Tasks # {}
    /\ Asks \in [Threads -> SUBSET Ops]

VARIABLES
    life,       \* of each task: it is not yet there, there, or destroyed
    rc,         \* the static variable of prov_pxy_get
    pc,         \* where each thread is
    req,        \* its request: operation, task (asked for, or selected), what its
                \* lookup found, and whether it goes on to destroy the task
    sess,       \* its session: xapi holds it open, and its flag xen->ok
    walk,       \* its enumeration: the lists and what was returned
    reply,      \* its answer to the last request
    lasting,    \* history: the instances it is about that have been there since it came
    overtaken,  \* history: the threads whose return code a failure of another wrote over
    crashed,    \* the process has ended
    faults      \* fixed: calls to xapi may fail

vars == <<life, rc, pc, req, sess, walk, reply, lasting, overtaken, crashed, faults>>

PCs == {"idle", "login", "validate", "relogin", "getAll", "count",
        "fill", "next", "lookup", "test", "clean", "got", "destroy"}
Replies == {"none", "ok", "notFound", "exists", "unsupported", "failed"}
Walks == [rest : SUBSET Tasks, all : SUBSET Tasks, size : 0..Cardinality(Tasks),
          list : SUBSET Tasks, found : SUBSET Tasks]

NoWalk == [rest |-> {}, all |-> {}, size |-> 0, list |-> {}, found |-> {}]
AnyTask == CHOOSE k \in Tasks : TRUE
Closed == [open |-> FALSE, ok |-> TRUE]
There  == {k \in Tasks : life[k] = "there"}

Init ==
    /\ life \in [Tasks -> {"unborn", "there"}]
    /\ rc = "ok"
    /\ pc = [t \in Threads |-> "idle"]
    /\ req = [t \in Threads |->
                [op |-> "get", task |-> AnyTask, found |-> FALSE, known |-> FALSE]]
    /\ sess = [t \in Threads |-> Closed]
    /\ walk = [t \in Threads |-> NoWalk]
    /\ reply = [t \in Threads |-> "none"]
    /\ lasting = [t \in Threads |-> {}]
    /\ overtaken = {}
    /\ crashed = FALSE
    /\ faults \in BOOLEAN

-----------------------------------------------------------------------------
(* What the steps of a thread have in common                               *)

At(t, place) == ~crashed /\ pc[t] = place
Go(t, place) == pc' = [pc EXCEPT ![t] = place]

Walk(t, w) == walk' = [walk EXCEPT ![t] = w]

\* The request is answered.
Answer(t, a) == Go(t, "idle") /\ reply' = [reply EXCEPT ![t] = a]

\* xen_utils_cleanup_session: the logout, which nobody checks, and the record.
Logout(t) ==
    \E open \in {FALSE, faults} : sess' = [sess EXCEPT ![t] = [open |-> open, ok |-> TRUE]]

\* What GetInstance, CreateInstance, ModifyInstance and DeleteInstance make of
\* a prov_pxy_get that did not return OK (getres4op returns 0).  CreateInstance
\* goes on to extract the instance, which this class does not support.
Absent(op) == IF op = "create" THEN "unsupported" ELSE "notFound"

\* The end of a request whose session could not be had.
NoSession(t) ==
    Answer(t, IF req[t].op \in {"enumerate", "query", "kill"} \/ req[t].known
                THEN "failed"
                ELSE Absent(req[t].op))

\* Where the thread goes on with its session: a DeleteInstance that has found
\* its task has another session to destroy it with.
AfterLogin(t) ==
    CASE req[t].op \in {"enumerate", "query"}    -> "getAll"
      [] req[t].op = "kill" \/ req[t].known      -> "destroy"
      [] OTHER                                   -> "lookup"

\* A task is destroyed.
Ends(k) ==
    /\ life' = [life EXCEPT ![k] = "gone"]
    /\ lasting' = [t \in Threads |-> lasting[t] \ {k}]

-----------------------------------------------------------------------------
(* The clients                                                             *)

Request(t) ==
    /\ At(t, "idle")
    /\ \E op \in Asks[t], k \in Tasks :
         /\ op \in {"enumerate", "query"} => k = AnyTask
         /\ req' = [req EXCEPT ![t] = [op |-> op, task |-> k,
                                        found |-> FALSE, known |-> FALSE]]
         /\ lasting' = [lasting EXCEPT ![t] =
                There \cap Named \cap (IF op = "enumerate" THEN Tasks ELSE {k})]
    /\ overtaken' = overtaken \ {t}
    /\ Walk(t, NoWalk)
    /\ reply' = [reply EXCEPT ![t] = "none"]
    /\ Go(t, "login")
    /\ UNCHANGED <<life, rc, sess, crashed, faults>>

\* Jobs are created and end, other tasks come and go.
Appear(k) ==
    /\ ~crashed /\ life[k] = "unborn"
    /\ life' = [life EXCEPT ![k] = "there"]
    /\ UNCHANGED <<rc, pc, req, sess, walk, reply, lasting, overtaken, crashed, faults>>

Vanish(k) ==
    /\ ~crashed /\ life[k] = "there"
    /\ Ends(k)
    /\ UNCHANGED <<rc, pc, req, sess, walk, reply, overtaken, crashed, faults>>

-----------------------------------------------------------------------------
(* Sessions: xen_utils_validate_session and xen_utils_get_session          *)

\* A record that holds no session yet and gets one.
Opened(t) == sess' = [sess EXCEPT ![t] = [open |-> TRUE, ok |-> TRUE]]

\* xen_utils_get_session: login at the local xapi, or at the master it names,
\* then the host of the session.  A local session whose host cannot be had is
\* closed again.  The error path for the master (xen_utils_get_remote_session)
\* frees the record and closes nothing, and its caller then reads through the
\* NULL it was left with, if it traces errors.
Login(t) ==
    /\ At(t, "login") \/ At(t, "relogin")
    /\ \/ /\ Opened(t)
          /\ Go(t, IF pc[t] = "login" THEN "validate" ELSE AfterLogin(t))
          /\ UNCHANGED <<reply, crashed>>
       \/ /\ faults
          /\ NoSession(t)
          /\ Logout(t)
          /\ crashed' \in BOOLEAN
    /\ UNCHANGED <<life, rc, req, walk, lasting, overtaken, faults>>

\* "attempt a simple call"; if it fails, reconnect, and trust the new session.
Validate(t) ==
    /\ At(t, "validate")
    /\ \/ Go(t, AfterLogin(t)) /\ UNCHANGED <<sess>>
       \/ faults /\ Go(t, "relogin") /\ Logout(t)
    /\ UNCHANGED <<life, rc, req, walk, reply, lasting, overtaken, crashed, faults>>

Session(t) == Login(t) \/ Validate(t)

-----------------------------------------------------------------------------
(* Enumeration: prov_pxy_begin, xen_resource_list_enum, prov_pxy_getnext   *)

\* The references of all tasks; an error ends the request.
GetAll(t) ==
    /\ At(t, "getAll")
    /\ \/ /\ Walk(t, [walk[t] EXCEPT !.rest = There, !.all = There])
          /\ Go(t, "count")
          /\ UNCHANGED <<sess, reply>>
       \/ /\ faults
          /\ Logout(t)
          /\ Answer(t, "failed")
          /\ UNCHANGED walk
    /\ UNCHANGED <<life, rc, req, lasting, overtaken, crashed, faults>>

\* The outcomes of reading task k, and of looking whether its name is the class,
\* as both passes and xen_resource_record_get_from_id do.
Reads(k) == {k \in There} \cup (IF faults THEN {FALSE} ELSE {})
Matches(k) == IF k \in Named THEN Reads(k) ELSE {FALSE}

\* Mutant: a task that is counted is not passed over.
Count_Twice(t) ==
    /\ At(t, "count")
    /\ \/ \E k \in walk[t].rest : \E match \in Matches(k) :
            /\ Walk(t, [walk[t] EXCEPT !.size = IF match THEN @ + 1 ELSE @])
            /\ UNCHANGED pc
       \/ /\ Walk(t, [walk[t] EXCEPT !.rest = walk[t].all, !.all = {}])
          /\ Go(t, "fill")
    /\ UNCHANGED <<life, rc, req, sess, reply, lasting, overtaken, crashed, faults>>

\* First pass: how many there are, for the allocation that follows.
Count(t) ==
    /\ At(t, "count")
    /\ \/ \E k \in walk[t].rest : \E match \in Matches(k) :
            /\ Walk(t, [walk[t] EXCEPT !.rest = @ \ {k},
                                       !.size = IF match THEN @ + 1 ELSE @])
            /\ UNCHANGED pc
       \/ /\ walk[t].rest = {}
          /\ Walk(t, [walk[t] EXCEPT !.rest = walk[t].all, !.all = {}])
          /\ Go(t, "fill")
    /\ UNCHANGED <<life, rc, req, sess, reply, lasting, overtaken, crashed, faults>>

\* Second pass: the list itself.  An item beyond the allocation damages the
\* heap, at once or later; slots that are not filled hold NULL, and are passed
\* over in the end like tasks that are gone.
Fill(t) ==
    /\ At(t, "fill")
    /\ \/ \E k \in walk[t].rest : \E match \in Matches(k) :
            /\ Walk(t, [walk[t] EXCEPT !.rest = @ \ {k},
                                       !.list = IF match THEN @ \cup {k} ELSE @])
            /\ crashed' \in {FALSE, match /\ Cardinality(walk[t].list) >= walk[t].size}
            /\ UNCHANGED pc
       \/ /\ walk[t].rest = {}
          /\ Walk(t, [walk[t] EXCEPT !.size = 0])
          /\ Go(t, "next")
          /\ UNCHANGED crashed
    /\ UNCHANGED <<life, rc, req, sess, reply, lasting, overtaken, faults>>

\* One record of the list: returned, unless it cannot be read.
Fetched(t, k, read) ==
    Walk(t, [walk[t] EXCEPT !.list = @ \ {k},
                            !.found = IF read /\ (req[t].op = "query" => k = req[t].task)
                                        THEN @ \cup {k} ELSE @])

\* The end of the list.
Ended(t) ==
    /\ walk[t].list = {}
    /\ Logout(t)
    /\ Answer(t, "ok")
    /\ UNCHANGED walk

\* Mutant: the flag of the session is not reset after a call that failed.
GetNext_Sticky(t) ==
    /\ At(t, "next")
    /\ \/ \E k \in walk[t].list : \E read \in Reads(k) :
            /\ Fetched(t, k, read /\ sess[t].ok)
            /\ sess' = [sess EXCEPT ![t].ok = read /\ @]
            /\ UNCHANGED <<pc, reply>>
       \/ Ended(t)
    /\ UNCHANGED <<life, rc, req, lasting, overtaken, crashed, faults>>

\* Mutant: a record that cannot be had is not passed over.
GetNext_Stuck(t) ==
    /\ At(t, "next")
    /\ \/ \E k \in walk[t].list : \E read \in Reads(k) :
            /\ read /\ Fetched(t, k, read)
            /\ sess' = [sess EXCEPT ![t].ok = read]
            /\ UNCHANGED <<pc, reply>>
       \/ Ended(t)
    /\ UNCHANGED <<life, rc, req, lasting, overtaken, crashed, faults>>

\* prov_pxy_getnext: the flag is reset, one more record is read, and one that
\* cannot be read is passed over; enum_call and XenCommonExecQuery return it,
\* the latter if the query selects it.  At the end the session is closed.
GetNext(t) ==
    /\ At(t, "next")
    /\ \/ \E k \in walk[t].list : \E read \in Reads(k) :
            /\ Fetched(t, k, read)
            /\ sess' = [sess EXCEPT ![t].ok = read]
            /\ UNCHANGED <<pc, reply>>
       \/ Ended(t)
    /\ UNCHANGED <<life, rc, req, lasting, overtaken, crashed, faults>>

-----------------------------------------------------------------------------
(* One instance: getres4op and prov_pxy_get, and what follows it           *)

\* The threads that have found their task, and not yet returned the code for it.
Exposed == {t \in Threads : req[t].found /\ pc[t] \in {"test", "got"}}

\* Mutant: only a failure is stored, over nothing that resets it.
Lookup_Sticky(t) ==
    /\ At(t, "lookup")
    /\ \E found \in Matches(req[t].task) :
         /\ req' = [req EXCEPT ![t].found = found]
         /\ rc' = IF found THEN rc ELSE "bad"
         /\ overtaken' = overtaken \cup (IF found THEN {} ELSE Exposed)
    /\ Go(t, "test")
    /\ UNCHANGED <<life, sess, walk, reply, lasting, crashed, faults>>

\* prov_pxy_get looks for the record of the task.  The return code of that goes to
\* the static variable, over what another thread has yet to test or to return.
Lookup(t) ==
    /\ At(t, "lookup")
    /\ \E found \in Matches(req[t].task) :
         /\ req' = [req EXCEPT ![t].found = found]
         /\ rc' = IF found THEN "ok" ELSE "bad"
         /\ overtaken' = overtaken \cup (IF found THEN {} ELSE Exposed)
    /\ Go(t, "test")
    /\ UNCHANGED <<life, sess, walk, reply, lasting, crashed, faults>>

\* The test of the return code, as a load of the static variable or from where
\* the compiler still keeps it, and on success the store of OK, or none.
Test(t) ==
    /\ At(t, "test")
    /\ \E code \in {rc, IF req[t].found THEN "ok" ELSE "bad"} :
         \/ code = "ok" /\ Go(t, "got") /\ rc' \in {rc, "ok"}
         \/ code = "bad" /\ Go(t, "clean") /\ UNCHANGED rc
    /\ UNCHANGED <<life, req, sess, walk, reply, lasting, overtaken, crashed, faults>>

\* The answers to a request that only asks whether there is such a task, and,
\* when there is no resource at all, to GetInstance.
Found(op) == IF op = "create" THEN "exists" ELSE "unsupported"
Mistaken(op) == IF op = "get" THEN "failed" ELSE Found(op)

\* prov_pxy_get has returned, and what it found is released: the request is
\* answered, or goes on to destroy the task, with another session.
Reply(t, a) ==
    /\ req' = [req EXCEPT ![t].found = FALSE]
    /\ Answer(t, a)

GoDelete(t) ==
    /\ req' = [req EXCEPT ![t].found = FALSE, ![t].known = TRUE]
    /\ Go(t, "login")
    /\ UNCHANGED reply

\* Mutant: the session stays open.
Clean_NoLogout(t) ==
    /\ At(t, "clean")
    /\ IF rc # "ok"
         THEN Reply(t, Absent(req[t].op))
         ELSE IF req[t].op = "delete" THEN GoDelete(t) ELSE Reply(t, Mistaken(req[t].op))
    /\ UNCHANGED <<life, rc, sess, walk, lasting, overtaken, crashed, faults>>

\* prov_pxy_get has failed: it closes its session, and returns what the static
\* variable holds by then, which may be the success of another thread.  The
\* caller believes it has a resource, and holds NULL.
Clean(t) ==
    /\ At(t, "clean")
    /\ Logout(t)
    /\ IF rc # "ok"
         THEN Reply(t, Absent(req[t].op))
         ELSE IF req[t].op = "delete" THEN GoDelete(t) ELSE Reply(t, Mistaken(req[t].op))
    /\ UNCHANGED <<life, rc, walk, lasting, overtaken, crashed, faults>>

\* prov_pxy_get returns on the way of success, and again the code is that of the
\* static variable, or the constant just stored.  Whatever getres4op then makes
\* of it, the resource is released, and its session closed.
Got(t) ==
    /\ At(t, "got")
    /\ Logout(t)
    /\ \/ rc # "ok" /\ Reply(t, Absent(req[t].op))
       \/ req[t].op = "delete" /\ GoDelete(t)
       \/ req[t].op \in {"create", "modify"} /\ Reply(t, Found(req[t].op))
       \/ req[t].op = "get" /\ req[t].found /\ Reply(t, "ok")
    /\ UNCHANGED <<life, rc, walk, lasting, overtaken, crashed, faults>>

\* GetInstance reads the properties of a resource without a record, which it has
\* if its lookup failed and the test saw the success of another thread.
Crash(t) ==
    /\ At(t, "got")
    /\ req[t].op = "get" /\ ~req[t].found
    /\ crashed' = TRUE
    /\ UNCHANGED <<life, rc, pc, req, sess, walk, reply, lasting, overtaken, faults>>

\* xen_resource_delete: the task is found by its id, whatever its name, and
\* destroyed.  It succeeds if both calls did; KillJob does not ask.
Destroy(t) ==
    /\ At(t, "destroy")
    /\ \E done \in Reads(req[t].task) : \E told \in {done} \cup Reads(req[t].task) :
         /\ told => done
         /\ IF done THEN Ends(req[t].task) ELSE UNCHANGED <<life, lasting>>
         /\ Answer(t, IF told \/ req[t].op = "kill" THEN "ok" ELSE "failed")
    /\ Logout(t)
    /\ UNCHANGED <<rc, req, walk, overtaken, crashed, faults>>

-----------------------------------------------------------------------------
Step(t) ==
    \/ Session(t)
    \/ GetAll(t) \/ Count(t) \/ Fill(t) \/ GetNext(t)
    \/ Lookup(t) \/ Test(t) \/ Clean(t) \/ Got(t) \/ Crash(t) \/ Destroy(t)

Next ==
    \/ \E t \in Threads : Request(t) \/ Step(t)
    \/ \E k \in Tasks : Appear(k) \/ Vanish(k)

\* The CIMOM schedules its threads; nobody needs to ask for anything.
Spec == Init /\ [][Next]_vars /\ \A t \in Threads : WF_vars(Step(t))

-----------------------------------------------------------------------------
(* Properties                                                              *)

\* Types.
TypeOK ==
    /\ life \in [Tasks -> {"unborn", "there", "gone"}]
    /\ rc \in {"ok", "bad"}
    /\ pc \in [Threads -> PCs]
    /\ req \in [Threads -> [op : Ops, task : Tasks, found : BOOLEAN, known : BOOLEAN]]
    /\ sess \in [Threads -> [open : BOOLEAN, ok : BOOLEAN]]
    /\ walk \in [Threads -> Walks]
    /\ reply \in [Threads -> Replies]
    /\ lasting \in [Threads -> SUBSET Tasks]
    /\ overtaken \subseteq Threads
    /\ crashed \in BOOLEAN
    /\ faults \in BOOLEAN

\* While no call fails, every session that a request opened is closed when the
\* request is answered, on the ways through failed lookups too (xen_utils.c,
\* ProxyHelper.c).
SessionsReturned ==
    ~faults =>
        \A t \in Threads : pc[t] \in {"idle", "login"} => ~sess[t].open

\* An enumeration that succeeds returns every instance that was there from its
\* beginning to its end, though others disappear meanwhile (enum_call: "A
\* failure may have been due to an object being removed by someone else, which
\* is a valid case and should not cause other failures"); a query, the one it
\* selects.
EnumerationComplete ==
    ~faults =>
        \A t \in Threads : pc[t] = "idle" /\ reply[t] = "ok" =>
            /\ req[t].op = "enumerate" => lasting[t] \subseteq walk[t].found
            /\ req[t].op = "query" => lasting[t] \cap {req[t].task} \subseteq walk[t].found

\* The list of an enumeration is allocated for the tasks counted in one pass
\* and filled in another, while tasks come and go: it never overflows
\* (xen_resource_list_enum in Xen_Job.c).
ListFits ==
    ~faults => \A t \in Threads : pc[t] = "fill" => Cardinality(walk[t].list) <= walk[t].size

\* "Not found" is said only of an instance that was not there all the time, unless
\* a lookup of another thread failed between that of this one and the return of
\* prov_pxy_get.  Nothing else that the threads leave in its static return code
\* (ProxyHelper.c:400) does harm, neither what earlier requests left there, nor
\* the successes of others, nor their failures before or after.
NotFoundMeansAbsent ==
    ~faults =>
        \A t \in Threads \ overtaken :
            pc[t] = "idle" /\ reply[t] = "notFound" => req[t].task \notin lasting[t]

\* A DeleteInstance that succeeds leaves no task behind, faults or not
\* (xen_resource_delete in Xen_Job.c).
DeletedMeansGone ==
    \A t \in Threads :
        pc[t] = "idle" /\ req[t].op = "delete" /\ reply[t] = "ok" => req[t].task \notin There

\* Every request is answered, unless the process ends (ProxyProvider.c).
EveryRequestEnds == \A t \in Threads : pc[t] # "idle" ~> pc[t] = "idle" \/ crashed
=============================================================================
