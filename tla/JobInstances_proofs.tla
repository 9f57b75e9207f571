------------------------- MODULE JobInstances_proofs -------------------------
(***************************************************************************)
(* For any number of threads and tasks: what the requests of JobInstances  *)
(* say is true, whatever the threads do to one another, and the list of an *)
(* enumeration is never overrun.                                           *)
(***************************************************************************)
EXTENDS JobInstances, FiniteSetTheorems, TLAPS

-----------------------------------------------------------------------------
(* The inductive invariant                                                 *)

Enumerating == {"enumerate", "query"}

\* Who can be where.
Places(t) ==
    /\ pc[t] \in {"getAll", "count", "fill", "next"} => req[t].op \in Enumerating
    /\ pc[t] \in {"lookup", "test", "clean", "got"} =>
          req[t].op \in {"get", "create", "modify", "delete"}
    /\ pc[t] = "destroy" => req[t].op \in {"kill", "delete"}
    /\ req[t].known => req[t].op = "delete"
    /\ pc[t] \notin {"idle", "count", "fill", "next"} => walk[t] = NoWalk

\* The history is about instances that are there, and asked about.
Witnessed(t) ==
    /\ lasting[t] \subseteq There \cap Named
    /\ req[t].op # "enumerate" => lasting[t] \subseteq {req[t].task}

\* The lists hold tasks that have appeared.
Listed(t) ==
    /\ \A k \in walk[t].rest \cup walk[t].all : life[k] # "unborn"
    /\ pc[t] = "count" => walk[t].list = {} /\ walk[t].rest \subseteq walk[t].all

\* Tasks of the class that the first pass has seen, and that are still there,
\* and the list that the second pass can still come to.
Seen(t) == Named \cap There \cap (walk[t].all \ walk[t].rest)
Expected(t) == walk[t].list \cup (Named \cap There \cap walk[t].rest)

Counting(t) ==
    /\ pc[t] = "count" => walk[t].size + Cardinality(walk[t].rest) <= Cardinality(Tasks)
    /\ ~faults /\ pc[t] = "count" => Cardinality(Seen(t)) <= walk[t].size
    /\ ~faults /\ pc[t] = "fill" => Cardinality(Expected(t)) <= walk[t].size

\* What an enumeration must still return is in its lists.
Pursued(t) ==
    ~faults =>
        /\ pc[t] = "count" => lasting[t] \subseteq walk[t].all
        /\ pc[t] = "fill" => lasting[t] \subseteq walk[t].list \cup walk[t].rest
        /\ pc[t] = "next" => lasting[t] \subseteq walk[t].list \cup walk[t].found
        /\ pc[t] = "idle" /\ reply[t] = "ok" /\ req[t].op \in Enumerating =>
              lasting[t] \subseteq walk[t].found

\* A lookup fails only for a task that is not there any more, or never was; and
\* the code of one that succeeds stands, unless it is overtaken.
Missed(t) ==
    ~faults =>
        /\ pc[t] \in {"test", "clean", "got"} /\ ~req[t].found => req[t].task \notin lasting[t]
        /\ pc[t] = "clean" /\ req[t].found => t \in overtaken
        /\ t \in Exposed => rc = "ok" \/ t \in overtaken
        /\ pc[t] = "idle" /\ reply[t] = "notFound" /\ t \notin overtaken =>
              req[t].task \notin lasting[t]

\* A task that is destroyed does not come back.
Gone(t) ==
    pc[t] = "idle" /\ req[t].op = "delete" /\ reply[t] = "ok" => life[req[t].task] = "gone"

Returned(t) == ~faults /\ pc[t] \in {"idle", "login"} => ~sess[t].open

ThreadInv(t) ==
    /\ Places(t) /\ Witnessed(t) /\ Listed(t) /\ Counting(t)
    /\ Pursued(t) /\ Missed(t) /\ Gone(t) /\ Returned(t)

IInv == TypeOK /\ \A t \in Threads : ThreadInv(t)

-----------------------------------------------------------------------------
(* A thread and what the others do                                         *)

\* The thread itself does nothing.
Still(u) ==
    /\ pc'[u] = pc[u] /\ req'[u] = req[u] /\ sess'[u] = sess[u]
    /\ walk'[u] = walk[u] /\ reply'[u] = reply[u]

\* What may happen to the tasks meanwhile.
Same(u) == life' = life /\ lasting'[u] = lasting[u]
Ended1(u) ==
    \E k \in There : /\ life' = [life EXCEPT ![k] = "gone"]
                     /\ lasting'[u] = lasting[u] \ {k}
Spared(u) ==
    /\ u \in overtaken => u \in overtaken'
    /\ u \in Exposed /\ rc = "ok" => rc' = "ok" \/ u \in overtaken'
Began(u) ==
    \E k \in Tasks : /\ life[k] = "unborn"
                     /\ life' = [life EXCEPT ![k] = "there"]
                     /\ lasting'[u] = lasting[u]

\* Sets of tasks are finite, and a smaller one has no more elements.
LEMMA Sizes ==
    ASSUME NEW S \in SUBSET Tasks, NEW T \in SUBSET S
    PROVE  /\ IsFiniteSet(S) /\ IsFiniteSet(T)
           /\ Cardinality(S) \in Nat /\ Cardinality(T) \in Nat
           /\ Cardinality(T) <= Cardinality(S)
<1>1. IsFiniteSet(S)
  BY FS_Subset, JobInstancesAssumption
<1>2. IsFiniteSet(T) /\ Cardinality(T) <= Cardinality(S)
  BY <1>1, FS_Subset
<1> QED
  BY <1>1, <1>2, FS_CardinalityType

\* One more element is at most one more.
LEMMA OneMore ==
    ASSUME NEW S \in SUBSET Tasks, NEW T \in SUBSET Tasks, NEW k, S \subseteq T \cup {k}
    PROVE  Cardinality(S) <= Cardinality(T) + 1
<1>1. T \cup {k} \in SUBSET (T \cup {k}) /\ IsFiniteSet(T) /\ Cardinality(T) \in Nat
  BY Sizes
<1>2. IsFiniteSet(T \cup {k}) /\ Cardinality(T \cup {k}) <= Cardinality(T) + 1
  <2>1. /\ IsFiniteSet(T \cup {k})
        /\ Cardinality(T \cup {k}) = IF k \in T THEN Cardinality(T) ELSE Cardinality(T) + 1
    BY <1>1, FS_AddElement
  <2> QED
    BY <1>1, <2>1
<1>3. IsFiniteSet(S) /\ Cardinality(S) <= Cardinality(T \cup {k})
  BY <1>2, FS_Subset
<1>4. Cardinality(S) \in Nat /\ Cardinality(T \cup {k}) \in Nat
  BY <1>2, <1>3, FS_CardinalityType
<1> QED
  BY <1>1, <1>2, <1>3, <1>4

\* What is true of a thread stays true while others change the tasks.
LEMMA OtherThread ==
    ASSUME TypeOK, faults' = faults, NEW u \in Threads, ThreadInv(u), Still(u), Spared(u),
           Same(u) \/ Ended1(u) \/ Began(u)
    PROVE  ThreadInv(u)'
<1> USE DEF Still
<1>1. walk[u] \in Walks /\ req[u].task \in Tasks /\ lasting[u] \subseteq Tasks
  BY DEF TypeOK
<1>2. life \in [Tasks -> {"unborn", "there", "gone"}]
  BY DEF TypeOK
<1>3. Places(u)' /\ Returned(u)'
  BY DEF ThreadInv, Places, Returned
<1>4. lasting'[u] \subseteq lasting[u]
  BY DEF Same, Ended1, Began
<1>5. \A k \in Tasks : life[k] = "gone" => life'[k] = "gone"
  BY <1>2 DEF Same, Ended1, Began, There
<1>6. \A k \in Tasks : life[k] # "unborn" => life'[k] # "unborn"
  BY <1>2 DEF Same, Ended1, Began, There
<1>7. \A k \in Tasks : life[k] # "unborn" /\ life'[k] = "there" => life[k] = "there"
  BY <1>2 DEF Same, Ended1, Began, There
<1>8. Witnessed(u)'
  <2>1. lasting'[u] \subseteq There'
    BY <1>2 DEF ThreadInv, Witnessed, Same, Ended1, Began, There
  <2> QED
    BY <2>1, <1>4 DEF ThreadInv, Witnessed
<1>9. Listed(u)'
  BY <1>1, <1>6 DEF ThreadInv, Listed, Walks
<1>10. Counting(u)'
  <2>1. Seen(u)' \subseteq Seen(u)
    BY <1>1, <1>7 DEF ThreadInv, Listed, Seen, There, Walks
  <2>2. Expected(u)' \subseteq Expected(u)
    BY <1>1, <1>7 DEF ThreadInv, Listed, Expected, There, Walks
  <2>3. Seen(u) \in SUBSET Tasks /\ Expected(u) \in SUBSET Tasks
    BY <1>1 DEF Seen, Expected, There, Walks
  <2>4. Cardinality(Seen(u)') <= Cardinality(Seen(u))
    BY <2>1, <2>3, Sizes
  <2>5. Cardinality(Expected(u)') <= Cardinality(Expected(u))
    BY <2>2, <2>3, Sizes
  <2>6. /\ Cardinality(Seen(u)) \in Nat /\ Cardinality(Seen(u)') \in Nat
        /\ Cardinality(Expected(u)) \in Nat /\ Cardinality(Expected(u)') \in Nat
    BY <2>1, <2>2, <2>3, Sizes
  <2>7. walk[u].size \in Nat
    BY <1>1, JobInstancesAssumption, FS_CardinalityType DEF Walks
  <2>8. walk'[u].size = walk[u].size
    OBVIOUS
  <2> QED
    BY <2>4, <2>5, <2>6, <2>7, <2>8 DEF ThreadInv, Counting
<1>11. Pursued(u)'
  BY <1>4 DEF ThreadInv, Pursued
<1>12. Missed(u)'
  BY <1>4 DEF ThreadInv, Missed, Spared, Exposed
<1>13. Gone(u)'
  BY <1>1, <1>5 DEF ThreadInv, Gone
<1> QED
  BY <1>3, <1>8, <1>9, <1>10, <1>11, <1>12, <1>13 DEF ThreadInv

-----------------------------------------------------------------------------
(* Initially, and what every step of a thread has in common                *)

\* The inductive invariant holds in the initial states.
LEMMA InitInv == Init => IInv
<1> SUFFICES ASSUME Init PROVE IInv
  OBVIOUS
<1>1. 0 \in 0..Cardinality(Tasks)
  BY FS_CardinalityType, JobInstancesAssumption
<1>2. AnyTask \in Tasks
  BY JobInstancesAssumption DEF AnyTask
<1>3. NoWalk \in Walks
  BY <1>1 DEF NoWalk, Walks
<1>4. TypeOK
  BY <1>2, <1>3 DEF Init, TypeOK, PCs, Replies, Ops, Closed
<1>5. ASSUME NEW t \in Threads PROVE ThreadInv(t)
  <2>1. /\ Places(t) /\ Witnessed(t) /\ Pursued(t) /\ Missed(t) /\ Gone(t) /\ Returned(t)
    BY DEF Init, Places, Witnessed, Pursued, Missed, Exposed, Gone, Returned, Closed
  <2>2. Listed(t) /\ Counting(t)
    BY DEF Init, NoWalk, Listed, Counting
  <2> QED
    BY <2>1, <2>2 DEF ThreadInv
<1> QED
  BY <1>4, <1>5 DEF IInv

\* What the other threads see of a step of thread t.
Apart(t) ==
    /\ faults' = faults
    /\ \A u \in Threads \ {t} : Still(u) /\ Spared(u) /\ (Same(u) \/ Ended1(u))

\* A step of thread t preserves the invariant if it does for t itself.
LEMMA Compose ==
    ASSUME IInv, NEW t \in Threads, Apart(t), TypeOK', ThreadInv(t)'
    PROVE  IInv'
<1>1. ASSUME NEW u \in Threads, u # t PROVE ThreadInv(u)'
  BY <1>1, OtherThread DEF IInv, Apart
<1> QED
  BY <1>1 DEF IInv

\* A logout closes the session of its thread, unless the call fails.
LEMMA LogoutClosed ==
    ASSUME TypeOK, NEW t \in Threads, Logout(t)
    PROVE  /\ sess' \in [Threads -> [open : BOOLEAN, ok : BOOLEAN]]
           /\ ~faults => ~sess'[t].open
           /\ \A u \in Threads \ {t} : sess'[u] = sess[u]
<1>1. PICK open \in {FALSE, faults} : sess' = [sess EXCEPT ![t] = [open |-> open, ok |-> TRUE]]
  BY DEF Logout
<1>2. open \in BOOLEAN /\ (~faults => ~open)
  <2>1. CASE open = FALSE
    BY <2>1
  <2>2. CASE open = faults
    BY <2>2 DEF TypeOK
  <2> QED
    BY <1>1, <2>1, <2>2
<1>3. [open |-> open, ok |-> TRUE] \in [open : BOOLEAN, ok : BOOLEAN]
  BY <1>2
<1> QED
  BY <1>1, <1>2, <1>3 DEF TypeOK

\* A login touches the session of its thread only.
LEMMA OpenedOpen ==
    ASSUME TypeOK, NEW t \in Threads, Opened(t)
    PROVE  /\ sess' \in [Threads -> [open : BOOLEAN, ok : BOOLEAN]]
           /\ \A u \in Threads \ {t} : sess'[u] = sess[u]
BY DEF Opened, TypeOK

\* A thread that has logged in goes on as its request asks.
LEMMA GoesOn ==
    ASSUME NEW t, Places(t), req[t].op \in Ops
    PROVE  \/ /\ AfterLogin(t) = "getAll"
              /\ req[t].op \in Enumerating
           \/ /\ AfterLogin(t) = "destroy"
              /\ req[t].op \in {"kill", "delete"}
           \/ /\ AfterLogin(t) = "lookup"
              /\ req[t].op \in {"get", "create", "modify", "delete"}
<1>1. CASE req[t].op \in Enumerating
  BY <1>1 DEF AfterLogin, Enumerating, Places
<1>2. CASE req[t].op \notin Enumerating /\ (req[t].op = "kill" \/ req[t].known)
  BY <1>2 DEF AfterLogin, Enumerating, Places
<1>3. CASE req[t].op \notin Enumerating /\ req[t].op # "kill" /\ ~req[t].known
  BY <1>3 DEF AfterLogin, Enumerating, Ops
<1> QED
  BY <1>1, <1>2, <1>3

\* The enumeration that has not begun.
LEMMA NoWalkOK == NoWalk \in Walks
<1>1. 0 \in 0..Cardinality(Tasks)
  BY FS_CardinalityType, JobInstancesAssumption
<1> QED
  BY <1>1 DEF NoWalk, Walks

\* The request has found its task, and is about to destroy it.
LEMMA Decided ==
    ASSUME TypeOK, NEW t \in Threads, GoDelete(t)
    PROVE  /\ req' \in [Threads -> [op : Ops, task : Tasks, found : BOOLEAN, known : BOOLEAN]]
           /\ pc' \in [Threads -> PCs] /\ pc'[t] = "login" /\ reply' = reply
           /\ req'[t].op = req[t].op /\ req'[t].task = req[t].task
           /\ \A u \in Threads \ {t} : req'[u] = req[u] /\ pc'[u] = pc[u]
<1>1. req' = [req EXCEPT ![t] = [req[t] EXCEPT !.found = FALSE, !.known = TRUE]]
  BY DEF GoDelete, TypeOK
<1>2. [req[t] EXCEPT !.found = FALSE, !.known = TRUE] \in
          [op : Ops, task : Tasks, found : BOOLEAN, known : BOOLEAN]
  <2>1. req[t] \in [op : Ops, task : Tasks, found : BOOLEAN, known : BOOLEAN]
    BY DEF TypeOK
  <2>2. FALSE \in BOOLEAN /\ TRUE \in BOOLEAN
    OBVIOUS
  <2> QED
    BY <2>1, <2>2
<1>3. pc' = [pc EXCEPT ![t] = "login"] /\ reply' = reply
  BY DEF GoDelete, Go
<1> QED
  BY <1>1, <1>2, <1>3 DEF TypeOK, PCs

\* The request is answered.
LEMMA Replied ==
    ASSUME TypeOK, NEW t \in Threads, NEW a \in Replies, Reply(t, a)
    PROVE  /\ req' \in [Threads -> [op : Ops, task : Tasks, found : BOOLEAN, known : BOOLEAN]]
           /\ pc' \in [Threads -> PCs] /\ pc'[t] = "idle"
           /\ reply' \in [Threads -> Replies] /\ reply'[t] = a
           /\ req'[t].op = req[t].op /\ req'[t].task = req[t].task /\ req'[t].known = req[t].known
           /\ \A u \in Threads \ {t} :
                 req'[u] = req[u] /\ pc'[u] = pc[u] /\ reply'[u] = reply[u]
<1>1. req' = [req EXCEPT ![t] = [req[t] EXCEPT !.found = FALSE]]
  BY DEF Reply, TypeOK
<1>2. [req[t] EXCEPT !.found = FALSE] \in
          [op : Ops, task : Tasks, found : BOOLEAN, known : BOOLEAN]
  <2>1. req[t] \in [op : Ops, task : Tasks, found : BOOLEAN, known : BOOLEAN]
    BY DEF TypeOK
  <2>2. FALSE \in BOOLEAN
    OBVIOUS
  <2> QED
    BY <2>1, <2>2
<1>3. pc' = [pc EXCEPT ![t] = "idle"] /\ reply' = [reply EXCEPT ![t] = a]
  BY DEF Reply, Answer, Go
<1> QED
  BY <1>1, <1>2, <1>3 DEF TypeOK, PCs

\* A new state of the enumeration of thread t, and of no other.
LEMMA PutWalk ==
    ASSUME TypeOK, NEW t \in Threads, NEW w \in Walks, Walk(t, w)
    PROVE  walk' \in [Threads -> Walks] /\ walk'[t] = w
           /\ \A u \in Threads \ {t} : walk'[u] = walk[u]
BY DEF TypeOK, Walk

\* Reading a task gives a Boolean, and without faults the right one.
LEMMA ReadsRight ==
    ASSUME TypeOK, NEW k, NEW read \in Reads(k)
    PROVE  read \in BOOLEAN /\ (read => k \in There) /\ (~faults => read = (k \in There))
<1>1. CASE faults
  BY <1>1 DEF Reads
<1>2. CASE ~faults
  BY <1>2 DEF Reads
<1> QED
  BY <1>1, <1>2 DEF TypeOK

\* Nor does looking at its name take for the class what is not of it.
LEMMA MatchesRight ==
    ASSUME TypeOK, NEW k, NEW match \in Matches(k)
    PROVE  /\ match \in BOOLEAN /\ (match => k \in There \cap Named)
           /\ ~faults => (match <=> k \in There \cap Named)
<1>1. CASE k \in Named
  BY <1>1, ReadsRight DEF Matches
<1>2. CASE k \notin Named
  <2>1. match = FALSE
    BY <1>2 DEF Matches
  <2>2. ~(k \in There \cap Named)
    BY <1>2
  <2>3. match \in BOOLEAN
    BY <2>1
  <2>4. ~match
    BY <2>1
  <2>5. match <=> k \in There \cap Named
    BY <2>1, <2>2
  <2> QED
    BY <2>3, <2>4, <2>5
<1> QED
  BY <1>1, <1>2

-----------------------------------------------------------------------------
(* Every step of a thread preserves the invariant                          *)

\* A new request: what its history holds is there.
LEMMA RequestStep == ASSUME IInv, NEW t \in Threads, Request(t) PROVE IInv'
<1> USE DEF Request, At, Go, Walk
<1>1. TypeOK /\ ThreadInv(t)
  BY DEF IInv
<1>2. PICK op \in Asks[t], k \in Tasks :
            /\ req' = [req EXCEPT ![t] = [op |-> op, task |-> k,
                                           found |-> FALSE, known |-> FALSE]]
            /\ lasting' = [lasting EXCEPT ![t] =
                   There \cap Named \cap (IF op = "enumerate" THEN Tasks ELSE {k})]
  OBVIOUS
<1>3. /\ op \in Ops
      /\ [op |-> op, task |-> k, found |-> FALSE, known |-> FALSE] \in
             [op : Ops, task : Tasks, found : BOOLEAN, known : BOOLEAN]
  BY JobInstancesAssumption
<1>4. walk'[t] = NoWalk /\ walk' \in [Threads -> Walks]
  BY <1>1, NoWalkOK DEF TypeOK
<1>5. Apart(t)
  BY <1>1, <1>2, <1>3, <1>4 DEF TypeOK, Apart, Still, Spared, Same, Ended1, There
<1>6. TypeOK'
  <2>1. life' \in [Tasks -> {"unborn", "there", "gone"}] /\ rc' \in {"ok", "bad"}
    BY <1>1, <1>2, <1>3, <1>4 DEF TypeOK
  <2>2. pc' \in [Threads -> PCs]
    BY <1>1, <1>2, <1>3, <1>4 DEF TypeOK, PCs
  <2>3. req' \in [Threads -> [op : Ops, task : Tasks, found : BOOLEAN, known : BOOLEAN]]
    BY <1>1, <1>2, <1>3, <1>4 DEF TypeOK, Ops
  <2>4. sess' \in [Threads -> [open : BOOLEAN, ok : BOOLEAN]]
    BY <1>1, <1>2, <1>3, <1>4 DEF TypeOK
  <2>5. walk' \in [Threads -> Walks]
    BY <1>1, <1>2, <1>3, <1>4 DEF TypeOK, Walks
  <2>6. reply' \in [Threads -> Replies]
    BY <1>1, <1>2, <1>3, <1>4 DEF TypeOK, Replies
  <2>7. overtaken' \subseteq Threads
        /\ lasting' \in [Threads -> SUBSET Tasks] /\ crashed' \in BOOLEAN /\ faults' \in BOOLEAN
    BY <1>1, <1>2, <1>3, <1>4 DEF TypeOK, There
  <2> QED
    BY <2>1, <2>2, <2>3, <2>4, <2>5, <2>6, <2>7 DEF TypeOK
<1>7. Places(t)'
  BY <1>1, <1>2, <1>3, <1>4 DEF TypeOK, ThreadInv, Places, Enumerating
<1>8. Witnessed(t)'
  BY <1>1, <1>2, <1>3, <1>4 DEF TypeOK, ThreadInv, Witnessed, There
<1>9. Listed(t)'
  BY <1>1, <1>2, <1>3, <1>4 DEF TypeOK, ThreadInv, Listed, NoWalk
<1>10. Counting(t)'
  BY <1>1, <1>2, <1>3, <1>4 DEF TypeOK, ThreadInv, Counting, Walks, Seen, Expected, There
<1>11. Pursued(t)'
  BY <1>1, <1>2, <1>3, <1>4 DEF TypeOK, ThreadInv, Pursued, Places, Enumerating
<1>12. Missed(t)'
  BY <1>1, <1>2, <1>3, <1>4 DEF TypeOK, ThreadInv, Missed, Exposed
<1>13. Gone(t)'
  BY <1>1, <1>2, <1>3, <1>4 DEF TypeOK, ThreadInv, Gone, Places, Enumerating
<1>14. Returned(t)'
  BY <1>1, <1>2, <1>3, <1>4 DEF TypeOK, ThreadInv, Returned
<1> QED
  BY <1>5, <1>6, <1>7, <1>8, <1>9, <1>10, <1>11, <1>12, <1>13, <1>14, Compose DEF ThreadInv

\* A login leaves the request where AfterLogin says, or answers it.
LEMMA LoginStep == ASSUME IInv, NEW t \in Threads, Login(t) PROVE IInv'
<1> USE DEF Login, At, Go, Answer, NoSession, Absent
<1>1. TypeOK /\ ThreadInv(t)
  BY DEF IInv
<1>2. /\ sess' \in [Threads -> [open : BOOLEAN, ok : BOOLEAN]]
      /\ \A u \in Threads \ {t} : sess'[u] = sess[u]
  BY <1>1, OpenedOpen, LogoutClosed
<1>3. /\ pc' = [pc EXCEPT ![t] = pc'[t]]
      /\ \/ pc'[t] = "validate"
         \/ pc'[t] = "getAll" /\ req[t].op \in Enumerating
         \/ pc'[t] = "destroy" /\ req[t].op \in {"kill", "delete"}
         \/ pc'[t] = "lookup" /\ req[t].op \in {"get", "create", "modify", "delete"}
         \/ pc'[t] = "idle" /\ faults /\ reply'[t] # "ok"
  BY <1>1, GoesOn DEF TypeOK, ThreadInv
<1>4. Apart(t)
  BY <1>1, <1>2, <1>3 DEF TypeOK, Apart, Still, Spared, Same, Ended1, There
<1>5. TypeOK'
  <2>1. life' \in [Tasks -> {"unborn", "there", "gone"}] /\ rc' \in {"ok", "bad"}
    BY <1>1, <1>2, <1>3 DEF TypeOK
  <2>2. pc' \in [Threads -> PCs]
    BY <1>1, <1>2, <1>3 DEF TypeOK, PCs
  <2>3. req' \in [Threads -> [op : Ops, task : Tasks, found : BOOLEAN, known : BOOLEAN]]
    BY <1>1, <1>2, <1>3 DEF TypeOK, Ops
  <2>4. sess' \in [Threads -> [open : BOOLEAN, ok : BOOLEAN]]
    BY <1>1, <1>2, <1>3 DEF TypeOK
  <2>5. walk' \in [Threads -> Walks]
    BY <1>1, <1>2, <1>3 DEF TypeOK, Walks
  <2>6. reply' \in [Threads -> Replies]
    BY <1>1, <1>2, <1>3 DEF TypeOK, Replies
  <2>7. overtaken' \subseteq Threads
        /\ lasting' \in [Threads -> SUBSET Tasks] /\ crashed' \in BOOLEAN /\ faults' \in BOOLEAN
    BY <1>1, <1>2, <1>3 DEF TypeOK, There
  <2> QED
    BY <2>1, <2>2, <2>3, <2>4, <2>5, <2>6, <2>7 DEF TypeOK
<1>6. Places(t)'
  BY <1>1, <1>2, <1>3 DEF TypeOK, ThreadInv, Places, Enumerating
<1>7. Witnessed(t)'
  BY <1>1, <1>2, <1>3 DEF TypeOK, ThreadInv, Witnessed, There
<1>8. Listed(t)'
  BY <1>1, <1>2, <1>3 DEF TypeOK, ThreadInv, Listed, Walks, There
<1>9. Counting(t)'
  BY <1>1, <1>2, <1>3 DEF TypeOK, ThreadInv, Counting, Walks, Seen, Expected, There
<1>10. Pursued(t)'
  BY <1>1, <1>2, <1>3 DEF TypeOK, ThreadInv, Pursued, Places, Enumerating
<1>11. Missed(t)'
  BY <1>1, <1>2, <1>3 DEF TypeOK, ThreadInv, Missed, Exposed
<1>12. Gone(t)'
  BY <1>1, <1>2, <1>3 DEF TypeOK, ThreadInv, Gone, Places, Enumerating
<1>13. Returned(t)'
  BY <1>1, <1>2, <1>3 DEF TypeOK, ThreadInv, Returned
<1> QED
  BY <1>4, <1>5, <1>6, <1>7, <1>8, <1>9, <1>10, <1>11, <1>12, <1>13, Compose DEF ThreadInv

\* A session that cannot be used is closed before the next login.
LEMMA ValidateStep == ASSUME IInv, NEW t \in Threads, Validate(t) PROVE IInv'
<1> USE DEF Validate, At, Go
<1>1. TypeOK /\ ThreadInv(t)
  BY DEF IInv
<1>2. /\ sess' \in [Threads -> [open : BOOLEAN, ok : BOOLEAN]]
      /\ \A u \in Threads \ {t} : sess'[u] = sess[u]
  BY <1>1, LogoutClosed DEF TypeOK
<1>3. /\ pc' = [pc EXCEPT ![t] = pc'[t]]
      /\ \/ pc'[t] = "relogin"
         \/ pc'[t] = "getAll" /\ req[t].op \in Enumerating
         \/ pc'[t] = "destroy" /\ req[t].op \in {"kill", "delete"}
         \/ pc'[t] = "lookup" /\ req[t].op \in {"get", "create", "modify", "delete"}
         \/ pc'[t] = "idle" /\ faults /\ reply'[t] # "ok"
  BY <1>1, GoesOn DEF TypeOK, ThreadInv
<1>4. Apart(t)
  BY <1>1, <1>2, <1>3 DEF TypeOK, Apart, Still, Spared, Same, Ended1, There
<1>5. TypeOK'
  <2>1. life' \in [Tasks -> {"unborn", "there", "gone"}] /\ rc' \in {"ok", "bad"}
    BY <1>1, <1>2, <1>3 DEF TypeOK
  <2>2. pc' \in [Threads -> PCs]
    BY <1>1, <1>2, <1>3 DEF TypeOK, PCs
  <2>3. req' \in [Threads -> [op : Ops, task : Tasks, found : BOOLEAN, known : BOOLEAN]]
    BY <1>1, <1>2, <1>3 DEF TypeOK, Ops
  <2>4. sess' \in [Threads -> [open : BOOLEAN, ok : BOOLEAN]]
    BY <1>1, <1>2, <1>3 DEF TypeOK
  <2>5. walk' \in [Threads -> Walks]
    BY <1>1, <1>2, <1>3 DEF TypeOK, Walks
  <2>6. reply' \in [Threads -> Replies]
    BY <1>1, <1>2, <1>3 DEF TypeOK, Replies
  <2>7. overtaken' \subseteq Threads
        /\ lasting' \in [Threads -> SUBSET Tasks] /\ crashed' \in BOOLEAN /\ faults' \in BOOLEAN
    BY <1>1, <1>2, <1>3 DEF TypeOK, There
  <2> QED
    BY <2>1, <2>2, <2>3, <2>4, <2>5, <2>6, <2>7 DEF TypeOK
<1>6. Places(t)'
  BY <1>1, <1>2, <1>3 DEF TypeOK, ThreadInv, Places, Enumerating
<1>7. Witnessed(t)'
  BY <1>1, <1>2, <1>3 DEF TypeOK, ThreadInv, Witnessed, There
<1>8. Listed(t)'
  BY <1>1, <1>2, <1>3 DEF TypeOK, ThreadInv, Listed, Walks, There
<1>9. Counting(t)'
  BY <1>1, <1>2, <1>3 DEF TypeOK, ThreadInv, Counting, Walks, Seen, Expected, There
<1>10. Pursued(t)'
  BY <1>1, <1>2, <1>3 DEF TypeOK, ThreadInv, Pursued, Places, Enumerating
<1>11. Missed(t)'
  BY <1>1, <1>2, <1>3 DEF TypeOK, ThreadInv, Missed, Exposed
<1>12. Gone(t)'
  BY <1>1, <1>2, <1>3 DEF TypeOK, ThreadInv, Gone, Places, Enumerating
<1>13. Returned(t)'
  BY <1>1, <1>2, <1>3 DEF TypeOK, ThreadInv, Returned
<1> QED
  BY <1>4, <1>5, <1>6, <1>7, <1>8, <1>9, <1>10, <1>11, <1>12, <1>13, Compose DEF ThreadInv

\* All tasks that are there are on the list: those the history knows, too.
LEMMA GetAllStep == ASSUME IInv, NEW t \in Threads, GetAll(t) PROVE IInv'
<1> USE DEF GetAll, At, Go, Answer
<1>1. TypeOK /\ ThreadInv(t)
  BY DEF IInv
<1>2. /\ sess' \in [Threads -> [open : BOOLEAN, ok : BOOLEAN]]
      /\ \A u \in Threads \ {t} : sess'[u] = sess[u]
      /\ pc'[t] = "idle" => faults
  BY <1>1, LogoutClosed DEF TypeOK
<1>3. /\ walk' \in [Threads -> Walks]
      /\ \A u \in Threads \ {t} : walk'[u] = walk[u]
      /\ \/ /\ pc'[t] = "count"
            /\ walk'[t].rest = There /\ walk'[t].all = There /\ walk'[t].size = 0
            /\ walk'[t].list = {} /\ walk'[t].found = {}
         \/ pc'[t] = "idle" /\ walk'[t] = walk[t] /\ reply'[t] = "failed"
  <2>1. walk[t] = NoWalk
    BY <1>1 DEF ThreadInv, Places
  <2> DEFINE w == [walk[t] EXCEPT !.rest = There, !.all = There]
  <2>2. w \in Walks
    BY <2>1, NoWalkOK DEF Walks, There
  <2>5. w.rest = There /\ w.all = There /\ w.size = 0 /\ w.list = {} /\ w.found = {}
    BY <2>1 DEF NoWalk
  <2>3. CASE Walk(t, w) /\ Go(t, "count")
    BY <1>1, <2>2, <2>5, <2>3, PutWalk DEF TypeOK
  <2>4. CASE walk' = walk /\ Answer(t, "failed")
    BY <1>1, <2>4 DEF TypeOK
  <2> QED
    BY <2>3, <2>4
<1>4. Apart(t)
  BY <1>1, <1>2, <1>3 DEF TypeOK, Apart, Still, Spared, Same, Ended1, There
<1>5. TypeOK'
  <2>1. life' \in [Tasks -> {"unborn", "there", "gone"}] /\ rc' \in {"ok", "bad"}
    BY <1>1, <1>2, <1>3 DEF TypeOK
  <2>2. pc' \in [Threads -> PCs]
    BY <1>1 DEF TypeOK, PCs
  <2>3. req' \in [Threads -> [op : Ops, task : Tasks, found : BOOLEAN, known : BOOLEAN]]
    BY <1>1, <1>2, <1>3 DEF TypeOK, Ops
  <2>4. sess' \in [Threads -> [open : BOOLEAN, ok : BOOLEAN]]
    BY <1>1, <1>2, <1>3 DEF TypeOK
  <2>5. walk' \in [Threads -> Walks]
    BY <1>1, <1>2, <1>3 DEF TypeOK, Walks
  <2>6. reply' \in [Threads -> Replies]
    BY <1>1, <1>2, <1>3 DEF TypeOK, Replies
  <2>7. overtaken' \subseteq Threads
        /\ lasting' \in [Threads -> SUBSET Tasks] /\ crashed' \in BOOLEAN /\ faults' \in BOOLEAN
    BY <1>1, <1>2, <1>3 DEF TypeOK, There
  <2> QED
    BY <2>1, <2>2, <2>3, <2>4, <2>5, <2>6, <2>7 DEF TypeOK
<1>6. Places(t)'
  BY <1>1, <1>2, <1>3 DEF TypeOK, ThreadInv, Places, Enumerating
<1>7. Witnessed(t)'
  BY <1>1, <1>2, <1>3 DEF TypeOK, ThreadInv, Witnessed, There
<1>8. Listed(t)'
  BY <1>1, <1>2, <1>3 DEF TypeOK, ThreadInv, Listed, Walks, There
<1>9. Counting(t)'
  <2>1. pc'[t] = "count" => Seen(t)' = {}
    BY <1>1, <1>2, <1>3 DEF TypeOK, Seen, There
  <2> QED
    BY <1>1, <1>2, <1>3, <2>1, FS_EmptySet, Sizes DEF TypeOK, ThreadInv, Counting, There
<1>10. Pursued(t)'
  BY <1>1, <1>2, <1>3 DEF TypeOK, ThreadInv, Pursued, Witnessed
<1>11. Missed(t)'
  BY <1>1, <1>2, <1>3 DEF TypeOK, ThreadInv, Missed, Exposed
<1>12. Gone(t)'
  BY <1>1, <1>2, <1>3 DEF TypeOK, ThreadInv, Gone, Places, Enumerating
<1>13. Returned(t)'
  BY <1>1, <1>2, <1>3 DEF TypeOK, ThreadInv, Returned
<1> QED
  BY <1>4, <1>5, <1>6, <1>7, <1>8, <1>9, <1>10, <1>11, <1>12, <1>13, Compose DEF ThreadInv

\* The size stays within the tasks, and no smaller than what was seen of the class.
LEMMA CountStep == ASSUME IInv, NEW t \in Threads, Count(t) PROVE IInv'
<1> USE DEF Count, At, Go
<1>1. TypeOK /\ ThreadInv(t)
  BY DEF IInv
<1>2. /\ walk' \in [Threads -> Walks]
      /\ \A u \in Threads \ {t} : walk'[u] = walk[u]
      /\ walk'[t].list = walk[t].list /\ walk'[t].found = walk[t].found
      /\ \/ /\ pc' = pc /\ walk'[t].all = walk[t].all
            /\ \E k \in walk[t].rest : \E match \in Matches(k) :
                 /\ walk'[t].rest = walk[t].rest \ {k}
                 /\ walk'[t].size = IF match THEN walk[t].size + 1 ELSE walk[t].size
                 /\ Cardinality(walk'[t].rest) + 1 = Cardinality(walk[t].rest)
         \/ /\ pc' = [pc EXCEPT ![t] = "fill"] /\ walk[t].rest = {}
            /\ walk'[t].rest = walk[t].all /\ walk'[t].all = {}
            /\ walk'[t].size = walk[t].size
  <2>1. ASSUME NEW k \in walk[t].rest, NEW match \in Matches(k),
               Walk(t, [walk[t] EXCEPT !.rest = @ \ {k},
                                       !.size = IF match THEN @ + 1 ELSE @])
        PROVE  /\ walk' \in [Threads -> Walks]
               /\ \A u \in Threads \ {t} : walk'[u] = walk[u]
               /\ walk'[t].list = walk[t].list /\ walk'[t].found = walk[t].found
               /\ walk'[t].all = walk[t].all /\ walk'[t].rest = walk[t].rest \ {k}
               /\ walk'[t].size = IF match THEN walk[t].size + 1 ELSE walk[t].size
               /\ Cardinality(walk'[t].rest) + 1 = Cardinality(walk[t].rest)
    <3> DEFINE size == IF match THEN walk[t].size + 1 ELSE walk[t].size
               w == [walk[t] EXCEPT !.rest = walk[t].rest \ {k}, !.size = size]
    <3>1. walk[t] \in Walks
      BY <1>1 DEF TypeOK
    <3>2. IsFiniteSet(walk[t].rest) /\ Cardinality(walk[t].rest) \in Nat
          /\ Cardinality(walk[t].rest \ {k}) \in Nat
      BY <3>1, Sizes DEF Walks
    <3>3. Cardinality(walk[t].rest \ {k}) = Cardinality(walk[t].rest) - 1
      BY <3>2, FS_RemoveElement
    <3>4. Cardinality(Tasks) \in Nat
      BY Sizes
    <3>0. walk[t].size \in 0..Cardinality(Tasks)
      BY <3>1 DEF Walks
    <3>11. pc[t] = "count"
      OBVIOUS
    <3>12. walk[t].size + Cardinality(walk[t].rest) <= Cardinality(Tasks)
      BY <1>1, <3>11 DEF ThreadInv, Counting
    <3> HIDE DEF Count, At, Go
    <3>5. walk[t].size \in Nat
      BY <3>0, <3>4
    <3>13. Cardinality(walk[t].rest) >= 1
      BY <3>2, <3>3
    <3>14. walk[t].size + 1 <= Cardinality(Tasks)
      BY <3>2, <3>4, <3>5, <3>12, <3>13
    <3>6. size \in 0..Cardinality(Tasks)
      <4>1. CASE match
        BY <3>4, <3>5, <3>14, <4>1
      <4>2. CASE ~match
        BY <3>0, <4>2
      <4> QED
        BY <4>1, <4>2
    <3>7. w \in Walks
      BY <3>1, <3>6 DEF Walks
    <3>8. Walk(t, w)
      BY <2>1
    <3>9. w.rest = walk[t].rest \ {k} /\ w.all = walk[t].all /\ w.size = size
          /\ w.list = walk[t].list /\ w.found = walk[t].found
      BY <3>1 DEF Walks
    <3> HIDE DEF w
    <3>10. walk' \in [Threads -> Walks] /\ walk'[t] = w
           /\ \A u \in Threads \ {t} : walk'[u] = walk[u]
      BY <1>1, <3>7, <3>8, PutWalk
    <3>15. Cardinality(walk[t].rest \ {k}) + 1 = Cardinality(walk[t].rest)
      BY <3>2, <3>3
    <3> QED
      BY <3>9, <3>10, <3>15
  <2>2. ASSUME Walk(t, [walk[t] EXCEPT !.rest = walk[t].all, !.all = {}])
        PROVE  /\ walk' \in [Threads -> Walks]
               /\ \A u \in Threads \ {t} : walk'[u] = walk[u]
               /\ walk'[t].list = walk[t].list /\ walk'[t].found = walk[t].found
               /\ walk'[t].rest = walk[t].all /\ walk'[t].all = {}
               /\ walk'[t].size = walk[t].size
    <3> DEFINE w == [walk[t] EXCEPT !.rest = walk[t].all, !.all = {}]
    <3>1. walk[t] \in Walks
      BY <1>1 DEF TypeOK
    <3>2. w \in Walks
      BY <3>1 DEF Walks
    <3>3. w.rest = walk[t].all /\ w.all = {} /\ w.size = walk[t].size
          /\ w.list = walk[t].list /\ w.found = walk[t].found
      BY <3>1 DEF Walks
    <3>4. Walk(t, w)
      BY <2>2
    <3> HIDE DEF w
    <3> QED
      BY <1>1, <3>2, <3>3, <3>4, PutWalk
  <2> QED
    BY <2>1, <2>2
<1>3. Apart(t)
  BY <1>1, <1>2 DEF TypeOK, Apart, Still, Spared, Same, Ended1, There
<1>4. TypeOK'
  <2>1. life' \in [Tasks -> {"unborn", "there", "gone"}] /\ rc' \in {"ok", "bad"}
    BY <1>1, <1>2 DEF TypeOK
  <2>2. pc' \in [Threads -> PCs]
    BY <1>1, <1>2 DEF TypeOK, PCs
  <2>3. req' \in [Threads -> [op : Ops, task : Tasks, found : BOOLEAN, known : BOOLEAN]]
    BY <1>1, <1>2 DEF TypeOK, Ops
  <2>4. sess' \in [Threads -> [open : BOOLEAN, ok : BOOLEAN]]
    BY <1>1, <1>2 DEF TypeOK
  <2>5. walk' \in [Threads -> Walks]
    BY <1>1, <1>2 DEF TypeOK, Walks
  <2>6. reply' \in [Threads -> Replies]
    BY <1>1, <1>2 DEF TypeOK, Replies
  <2>7. overtaken' \subseteq Threads
        /\ lasting' \in [Threads -> SUBSET Tasks] /\ crashed' \in BOOLEAN /\ faults' \in BOOLEAN
    BY <1>1, <1>2 DEF TypeOK, There
  <2> QED
    BY <2>1, <2>2, <2>3, <2>4, <2>5, <2>6, <2>7 DEF TypeOK
<1>5. Places(t)'
  BY <1>1, <1>2 DEF TypeOK, ThreadInv, Places, Enumerating
<1>6. Witnessed(t)'
  BY <1>1, <1>2 DEF TypeOK, ThreadInv, Witnessed, There
<1>7. Listed(t)'
  BY <1>1, <1>2 DEF TypeOK, ThreadInv, Listed, Walks, There
<1>8. Counting(t)'
  <2>1. CASE pc' = pc
    <3>1. PICK k \in walk[t].rest :
            \E match \in Matches(k) :
              /\ walk'[t].rest = walk[t].rest \ {k}
              /\ walk'[t].size = IF match THEN walk[t].size + 1 ELSE walk[t].size
              /\ Cardinality(walk'[t].rest) + 1 = Cardinality(walk[t].rest)
      BY <1>1, <1>2, <2>1 DEF TypeOK
    <3>2. PICK match \in Matches(k) :
              walk'[t].size = IF match THEN walk[t].size + 1 ELSE walk[t].size
      BY <3>1
    <3>3. walk[t] \in Walks /\ walk'[t] \in Walks /\ walk'[t].all = walk[t].all /\ life' = life
      BY <1>1, <1>2, <2>1 DEF TypeOK
    <3>4. /\ walk[t].size \in 0..Cardinality(Tasks) /\ walk'[t].size \in 0..Cardinality(Tasks)
          /\ walk[t].rest \in SUBSET Tasks /\ walk[t].all \in SUBSET Tasks
          /\ walk'[t].rest \in SUBSET Tasks
      BY <3>3 DEF Walks
    <3>5. /\ Cardinality(Tasks) \in Nat /\ Cardinality(walk[t].rest) \in Nat
          /\ Cardinality(walk'[t].rest) \in Nat
      BY <3>4, Sizes
    <3>6. match \in BOOLEAN /\ (~faults => (match <=> k \in There \cap Named))
      BY <1>1, MatchesRight
    <3>11. pc[t] = "count"
      OBVIOUS
    <3>12. walk[t].size + Cardinality(walk[t].rest) <= Cardinality(Tasks)
      BY <1>1, <3>11 DEF ThreadInv, Counting
    <3> HIDE DEF Count, At, Go
    <3>13. walk[t].size \in Nat /\ walk'[t].size \in Nat
      BY <3>4, <3>5
    <3>14. walk'[t].size <= walk[t].size + 1
      BY <3>2, <3>13
    <3>7. walk'[t].size + Cardinality(walk'[t].rest) <= Cardinality(Tasks)
      BY <3>1, <3>5, <3>12, <3>13, <3>14
    <3>8. /\ Seen(t) \in SUBSET Tasks /\ Seen(t)' \in SUBSET Tasks
          /\ Seen(t)' \subseteq Seen(t) \cup {k}
      BY <3>1, <3>3, <3>4 DEF Seen, There
    <3>9. Cardinality(Seen(t)) \in Nat /\ Cardinality(Seen(t)') \in Nat
      BY <3>8, Sizes
    <3>10. ASSUME ~faults PROVE Cardinality(Seen(t)') <= walk'[t].size
      <4>1. Cardinality(Seen(t)) <= walk[t].size
        BY <1>1, <3>10, <3>11 DEF ThreadInv, Counting
      <4>0. walk'[t].size = IF match THEN walk[t].size + 1 ELSE walk[t].size
        BY <3>2
      <4>2. CASE match
        <5>1. Cardinality(Seen(t)') <= Cardinality(Seen(t)) + 1
          BY <3>8, OneMore
        <5> QED
          BY <3>9, <3>13, <4>0, <4>1, <4>2, <5>1
      <4>3. CASE ~match
        <5>1. Seen(t)' \subseteq Seen(t)
          BY <3>1, <3>3, <3>6, <3>10, <4>3 DEF Seen, There
        <5>2. Cardinality(Seen(t)') <= Cardinality(Seen(t))
          BY <3>8, <5>1, Sizes
        <5> QED
          BY <3>9, <3>13, <4>0, <4>1, <4>3, <5>2
      <4> QED
        BY <4>2, <4>3
    <3>16. pc'[t] = "count"
      BY <2>1, <3>11
    <3> QED
      BY <1>2, <3>3, <3>7, <3>10, <3>16, <1>1 DEF Counting, Count
  <2>2. CASE pc' # pc
    <3>1. /\ pc'[t] = "fill" /\ walk[t].rest = {} /\ walk'[t].rest = walk[t].all
          /\ walk'[t].size = walk[t].size /\ walk'[t].list = {} /\ life' = life
      BY <1>1, <1>2, <2>2 DEF TypeOK, ThreadInv, Listed
    <3>2. Expected(t)' = Seen(t)
      BY <3>1 DEF Expected, Seen, There
    <3> QED
      BY <1>1, <3>1, <3>2 DEF ThreadInv, Counting
  <2> QED
    BY <2>1, <2>2
<1>9. Pursued(t)'
  BY <1>1, <1>2 DEF TypeOK, ThreadInv, Pursued, Places, Enumerating
<1>10. Missed(t)'
  BY <1>1, <1>2 DEF TypeOK, ThreadInv, Missed, Exposed
<1>11. Gone(t)'
  BY <1>1, <1>2 DEF TypeOK, ThreadInv, Gone, Places, Enumerating
<1>12. Returned(t)'
  BY <1>1, <1>2 DEF TypeOK, ThreadInv, Returned
<1> QED
  BY <1>3, <1>4, <1>5, <1>6, <1>7, <1>8, <1>9, <1>10, <1>11, <1>12, Compose DEF ThreadInv

\* The list stays within what was expected when the pass began.
LEMMA FillStep == ASSUME IInv, NEW t \in Threads, Fill(t) PROVE IInv'
<1> USE DEF Fill, At, Go
<1>1. TypeOK /\ ThreadInv(t)
  BY DEF IInv
<1>2. /\ walk' \in [Threads -> Walks]
      /\ \A u \in Threads \ {t} : walk'[u] = walk[u]
      /\ walk'[t].all = walk[t].all /\ walk'[t].found = walk[t].found
      /\ \/ /\ pc' = pc /\ walk'[t].size = walk[t].size
            /\ \E k \in walk[t].rest : \E match \in Matches(k) :
                 /\ walk'[t].rest = walk[t].rest \ {k}
                 /\ walk'[t].list = IF match THEN walk[t].list \cup {k} ELSE walk[t].list
         \/ /\ pc' = [pc EXCEPT ![t] = "next"] /\ walk[t].rest = {}
            /\ walk'[t].rest = walk[t].rest /\ walk'[t].list = walk[t].list
  <2>1. ASSUME NEW k \in walk[t].rest, NEW match \in Matches(k),
               Walk(t, [walk[t] EXCEPT !.rest = @ \ {k},
                                       !.list = IF match THEN @ \cup {k} ELSE @])
        PROVE  /\ walk' \in [Threads -> Walks]
               /\ \A u \in Threads \ {t} : walk'[u] = walk[u]
               /\ walk'[t].all = walk[t].all /\ walk'[t].found = walk[t].found
               /\ walk'[t].size = walk[t].size /\ walk'[t].rest = walk[t].rest \ {k}
               /\ walk'[t].list = IF match THEN walk[t].list \cup {k} ELSE walk[t].list
    <3> DEFINE list == IF match THEN walk[t].list \cup {k} ELSE walk[t].list
               w == [walk[t] EXCEPT !.rest = walk[t].rest \ {k}, !.list = list]
    <3>1. walk[t] \in Walks
      BY <1>1 DEF TypeOK
    <3>2. w \in Walks
      BY <3>1 DEF Walks
    <3>3. Walk(t, w)
      BY <2>1
    <3>4. w.rest = walk[t].rest \ {k} /\ w.all = walk[t].all /\ w.size = walk[t].size
          /\ w.list = list /\ w.found = walk[t].found
      BY <3>1 DEF Walks
    <3> HIDE DEF w
    <3> QED
      BY <1>1, <3>2, <3>3, <3>4, PutWalk
  <2>2. ASSUME Walk(t, [walk[t] EXCEPT !.size = 0])
        PROVE  /\ walk' \in [Threads -> Walks]
               /\ \A u \in Threads \ {t} : walk'[u] = walk[u]
               /\ walk'[t].all = walk[t].all /\ walk'[t].found = walk[t].found
               /\ walk'[t].rest = walk[t].rest /\ walk'[t].list = walk[t].list
    <3> DEFINE w == [walk[t] EXCEPT !.size = 0]
    <3>1. walk[t] \in Walks
      BY <1>1 DEF TypeOK
    <3>2. w \in Walks
      BY <3>1, NoWalkOK DEF Walks, NoWalk
    <3>3. w.rest = walk[t].rest /\ w.all = walk[t].all
          /\ w.list = walk[t].list /\ w.found = walk[t].found
      BY <3>1 DEF Walks
    <3>4. Walk(t, w)
      BY <2>2
    <3> HIDE DEF w
    <3> QED
      BY <1>1, <3>2, <3>3, <3>4, PutWalk
  <2> QED
    BY <2>1, <2>2
<1>3. Apart(t)
  BY <1>1, <1>2 DEF TypeOK, Apart, Still, Spared, Same, Ended1, There
<1>4. TypeOK'
  <2>1. life' \in [Tasks -> {"unborn", "there", "gone"}] /\ rc' \in {"ok", "bad"}
    BY <1>1, <1>2 DEF TypeOK
  <2>2. pc' \in [Threads -> PCs]
    BY <1>1, <1>2 DEF TypeOK, PCs
  <2>3. req' \in [Threads -> [op : Ops, task : Tasks, found : BOOLEAN, known : BOOLEAN]]
    BY <1>1, <1>2 DEF TypeOK, Ops
  <2>4. sess' \in [Threads -> [open : BOOLEAN, ok : BOOLEAN]]
    BY <1>1, <1>2 DEF TypeOK
  <2>5. walk' \in [Threads -> Walks]
    BY <1>1, <1>2 DEF TypeOK, Walks
  <2>6. reply' \in [Threads -> Replies]
    BY <1>1, <1>2 DEF TypeOK, Replies
  <2>7. overtaken' \subseteq Threads
        /\ lasting' \in [Threads -> SUBSET Tasks] /\ crashed' \in BOOLEAN /\ faults' \in BOOLEAN
    BY <1>1, <1>2 DEF TypeOK, There
  <2> QED
    BY <2>1, <2>2, <2>3, <2>4, <2>5, <2>6, <2>7 DEF TypeOK
<1>5. Places(t)'
  BY <1>1, <1>2 DEF TypeOK, ThreadInv, Places, Enumerating
<1>6. Witnessed(t)'
  BY <1>1, <1>2 DEF TypeOK, ThreadInv, Witnessed, There
<1>7. Listed(t)'
  BY <1>1, <1>2 DEF TypeOK, ThreadInv, Listed, Walks, There
<1>8. Counting(t)'
  <2>1. CASE pc' = pc
    <3>1. PICK k \in walk[t].rest :
            \E match \in Matches(k) :
              /\ walk'[t].rest = walk[t].rest \ {k}
              /\ walk'[t].list = IF match THEN walk[t].list \cup {k} ELSE walk[t].list
      BY <1>1, <1>2, <2>1 DEF TypeOK
    <3>2. PICK match \in Matches(k) :
              walk'[t].list = IF match THEN walk[t].list \cup {k} ELSE walk[t].list
      BY <3>1
    <3>3. match \in BOOLEAN /\ (~faults => (match <=> k \in There \cap Named))
      BY <1>1, MatchesRight
    <3>4. ~faults => Expected(t)' = Expected(t)
      BY <3>1, <3>2, <3>3 DEF Expected, There
    <3>5. walk'[t].size = walk[t].size
      BY <1>1, <1>2, <2>1 DEF TypeOK
    <3> QED
      BY <1>1, <2>1, <3>4, <3>5 DEF ThreadInv, Counting
  <2>2. CASE pc' # pc
    BY <1>1, <1>2, <2>2 DEF TypeOK, Counting
  <2> QED
    BY <2>1, <2>2
<1>9. Pursued(t)'
  <2>1. CASE pc' = pc
    <3>1. PICK k \in walk[t].rest :
            \E match \in Matches(k) :
              /\ walk'[t].rest = walk[t].rest \ {k}
              /\ walk'[t].list = IF match THEN walk[t].list \cup {k} ELSE walk[t].list
      BY <1>1, <1>2, <2>1 DEF TypeOK
    <3>2. PICK match \in Matches(k) :
              walk'[t].list = IF match THEN walk[t].list \cup {k} ELSE walk[t].list
      BY <3>1
    <3>3. match \in BOOLEAN /\ (~faults => (match <=> k \in There \cap Named))
      BY <1>1, MatchesRight
    <3>4. ~faults => lasting[t] \subseteq walk'[t].list \cup walk'[t].rest
      BY <1>1, <3>1, <3>2, <3>3 DEF ThreadInv, Pursued, Witnessed
    <3> QED
      BY <1>1, <2>1, <3>4 DEF Pursued
  <2>2. CASE pc' # pc
    BY <1>1, <1>2, <2>2 DEF TypeOK, ThreadInv, Pursued
  <2> QED
    BY <2>1, <2>2
<1>10. Missed(t)'
  BY <1>1, <1>2 DEF TypeOK, ThreadInv, Missed, Exposed
<1>11. Gone(t)'
  BY <1>1, <1>2 DEF TypeOK, ThreadInv, Gone, Places, Enumerating
<1>12. Returned(t)'
  BY <1>1, <1>2 DEF TypeOK, ThreadInv, Returned
<1> QED
  BY <1>3, <1>4, <1>5, <1>6, <1>7, <1>8, <1>9, <1>10, <1>11, <1>12, Compose DEF ThreadInv

\* What leaves the list is returned, or is no longer there.
LEMMA GetNextStep == ASSUME IInv, NEW t \in Threads, GetNext(t) PROVE IInv'
<1> USE DEF GetNext, At, Go, Answer
<1>1. TypeOK /\ ThreadInv(t)
  BY DEF IInv
<1>2. /\ sess' \in [Threads -> [open : BOOLEAN, ok : BOOLEAN]]
      /\ \A u \in Threads \ {t} : sess'[u] = sess[u]
      /\ walk' \in [Threads -> Walks]
      /\ \A u \in Threads \ {t} : walk'[u] = walk[u]
      /\ walk'[t].rest = walk[t].rest /\ walk'[t].all = walk[t].all
      /\ \/ /\ pc' = [pc EXCEPT ![t] = "idle"] /\ reply' = [reply EXCEPT ![t] = "ok"]
            /\ walk'[t] = walk[t] /\ walk[t].list = {} /\ (~faults => ~sess'[t].open)
         \/ /\ pc' = pc /\ reply' = reply
            /\ \E k \in walk[t].list : \E read \in Reads(k) :
                 /\ walk'[t].list = walk[t].list \ {k}
                 /\ walk'[t].found =
                      IF read /\ (req[t].op = "query" => k = req[t].task)
                        THEN walk[t].found \cup {k} ELSE walk[t].found
  <2>1. CASE Ended(t)
    BY <1>1, <2>1, LogoutClosed DEF TypeOK, Ended
  <2>2. ASSUME NEW k \in walk[t].list, NEW read \in Reads(k), Fetched(t, k, read),
               sess' = [sess EXCEPT ![t].ok = read]
        PROVE  /\ sess' \in [Threads -> [open : BOOLEAN, ok : BOOLEAN]]
               /\ \A u \in Threads \ {t} : sess'[u] = sess[u]
               /\ walk' \in [Threads -> Walks]
               /\ \A u \in Threads \ {t} : walk'[u] = walk[u]
               /\ walk'[t].rest = walk[t].rest /\ walk'[t].all = walk[t].all
               /\ walk'[t].list = walk[t].list \ {k}
               /\ walk'[t].found =
                    IF read /\ (req[t].op = "query" => k = req[t].task)
                      THEN walk[t].found \cup {k} ELSE walk[t].found
    <3> DEFINE found == IF read /\ (req[t].op = "query" => k = req[t].task)
                          THEN walk[t].found \cup {k} ELSE walk[t].found
               w == [walk[t] EXCEPT !.list = walk[t].list \ {k}, !.found = found]
    <3>1. walk[t] \in Walks /\ read \in BOOLEAN
      BY <1>1, ReadsRight DEF TypeOK
    <3>2. w \in Walks
      BY <3>1 DEF Walks
    <3>3. Walk(t, w)
      BY <2>2 DEF Fetched
    <3>4. sess' \in [Threads -> [open : BOOLEAN, ok : BOOLEAN]]
          /\ \A u \in Threads \ {t} : sess'[u] = sess[u]
      BY <1>1, <2>2, <3>1 DEF TypeOK
    <3>5. w.rest = walk[t].rest /\ w.all = walk[t].all
          /\ w.list = walk[t].list \ {k} /\ w.found = found
      BY <3>1 DEF Walks
    <3> HIDE DEF w
    <3> QED
      BY <1>1, <3>2, <3>3, <3>4, <3>5, PutWalk
  <2> QED
    BY <2>1, <2>2
<1>3. Apart(t)
  BY <1>1, <1>2 DEF TypeOK, Apart, Still, Spared, Same, Ended1, There
<1>4. TypeOK'
  <2>1. life' \in [Tasks -> {"unborn", "there", "gone"}] /\ rc' \in {"ok", "bad"}
    BY <1>1, <1>2 DEF TypeOK
  <2>2. pc' \in [Threads -> PCs]
    BY <1>1, <1>2 DEF TypeOK, PCs
  <2>3. req' \in [Threads -> [op : Ops, task : Tasks, found : BOOLEAN, known : BOOLEAN]]
    BY <1>1, <1>2 DEF TypeOK, Ops
  <2>4. sess' \in [Threads -> [open : BOOLEAN, ok : BOOLEAN]]
    BY <1>1, <1>2 DEF TypeOK
  <2>5. walk' \in [Threads -> Walks]
    BY <1>1, <1>2 DEF TypeOK, Walks
  <2>6. reply' \in [Threads -> Replies]
    BY <1>1, <1>2 DEF TypeOK, Replies
  <2>7. overtaken' \subseteq Threads
        /\ lasting' \in [Threads -> SUBSET Tasks] /\ crashed' \in BOOLEAN /\ faults' \in BOOLEAN
    BY <1>1, <1>2 DEF TypeOK, There
  <2> QED
    BY <2>1, <2>2, <2>3, <2>4, <2>5, <2>6, <2>7 DEF TypeOK
<1>5. Places(t)'
  BY <1>1, <1>2 DEF TypeOK, ThreadInv, Places, Enumerating
<1>6. Witnessed(t)'
  BY <1>1, <1>2 DEF TypeOK, ThreadInv, Witnessed, There
<1>7. Listed(t)'
  BY <1>1, <1>2 DEF TypeOK, ThreadInv, Listed, Walks, There
<1>8. Counting(t)'
  BY <1>1, <1>2 DEF TypeOK, ThreadInv, Counting, Walks, Seen, Expected, There
<1>9. Pursued(t)'
  <2>1. CASE pc' = pc
    <3>1. PICK k \in walk[t].list :
            \E read \in Reads(k) :
              /\ walk'[t].list = walk[t].list \ {k}
              /\ walk'[t].found = IF read /\ (req[t].op = "query" => k = req[t].task)
                                   THEN walk[t].found \cup {k} ELSE walk[t].found
      BY <1>1, <1>2, <2>1 DEF TypeOK
    <3>2. PICK read \in Reads(k) :
              walk'[t].found = IF read /\ (req[t].op = "query" => k = req[t].task)
                                 THEN walk[t].found \cup {k} ELSE walk[t].found
      BY <3>1
    <3>3. read \in BOOLEAN /\ (~faults => read = (k \in There))
      BY <1>1, ReadsRight
    <3>4. ~faults => lasting[t] \subseteq walk'[t].list \cup walk'[t].found
      BY <1>1, <3>1, <3>2, <3>3 DEF ThreadInv, Pursued, Witnessed, Places, Enumerating
    <3> QED
      BY <1>1, <2>1, <3>4 DEF Pursued
  <2>2. CASE pc' # pc
    BY <1>1, <1>2, <2>2 DEF TypeOK, ThreadInv, Pursued
  <2> QED
    BY <2>1, <2>2
<1>10. Missed(t)'
  BY <1>1, <1>2 DEF TypeOK, ThreadInv, Missed, Exposed
<1>11. Gone(t)'
  BY <1>1, <1>2 DEF TypeOK, ThreadInv, Gone, Places, Enumerating
<1>12. Returned(t)'
  BY <1>1, <1>2 DEF TypeOK, ThreadInv, Returned
<1> QED
  BY <1>3, <1>4, <1>5, <1>6, <1>7, <1>8, <1>9, <1>10, <1>11, <1>12, Compose DEF ThreadInv

\* A lookup without faults fails only for a task that is not of the class, or not
\* there; and it overtakes those whose code it writes over.
LEMMA LookupStep == ASSUME IInv, NEW t \in Threads, Lookup(t) PROVE IInv'
<1> USE DEF Lookup, At, Go
<1>1. TypeOK /\ ThreadInv(t)
  BY DEF IInv
<1>2. PICK found \in Matches(req[t].task) :
         /\ req' = [req EXCEPT ![t].found = found]
         /\ rc' = IF found THEN "ok" ELSE "bad"
         /\ overtaken' = overtaken \cup (IF found THEN {} ELSE Exposed)
  OBVIOUS
<1>3. /\ found \in BOOLEAN
      /\ ~faults /\ ~found => req[t].task \notin There \cap Named
  BY <1>1, MatchesRight
<1>4. /\ req' \in [Threads -> [op : Ops, task : Tasks, found : BOOLEAN, known : BOOLEAN]]
      /\ \A u \in Threads \ {t} : req'[u] = req[u]
      /\ req'[t].op = req[t].op /\ req'[t].task = req[t].task
      /\ req'[t].found = found /\ req'[t].known = req[t].known
  <2>1. req' = [req EXCEPT ![t] = [req[t] EXCEPT !.found = found]]
    BY <1>1, <1>2 DEF TypeOK
  <2>2. req[t] \in [op : Ops, task : Tasks, found : BOOLEAN, known : BOOLEAN]
    BY <1>1 DEF TypeOK
  <2>3. [req[t] EXCEPT !.found = found] \in
            [op : Ops, task : Tasks, found : BOOLEAN, known : BOOLEAN]
    BY <1>3, <2>2
  <2> QED
    BY <1>1, <2>1, <2>2, <2>3 DEF TypeOK
<1>5. /\ pc' \in [Threads -> PCs] /\ pc'[t] = "test"
      /\ \A u \in Threads \ {t} : pc'[u] = pc[u]
  BY <1>1 DEF TypeOK, PCs
<1>6. /\ rc' \in {"ok", "bad"} /\ (found => rc' = "ok")
      /\ overtaken' \in SUBSET Threads /\ overtaken \subseteq overtaken'
      /\ \A u \in Exposed : rc' = "ok" \/ u \in overtaken'
  <2>1. CASE found
    BY <1>1, <1>2, <1>3, <2>1 DEF TypeOK
  <2>2. CASE ~found
    BY <1>1, <1>2, <1>3, <2>2 DEF TypeOK, Exposed
  <2> QED
    BY <1>3, <2>1, <2>2
<1> HIDE DEF Lookup
<1>20. /\ life' = life /\ sess' = sess /\ walk' = walk /\ reply' = reply
       /\ lasting' = lasting /\ crashed' = crashed /\ faults' = faults /\ pc[t] = "lookup"
  BY DEF Lookup
<1>7. Apart(t)
  BY <1>1, <1>3, <1>4, <1>5, <1>6, <1>20
  DEF TypeOK, Apart, Still, Spared, Same, Ended1, There, Exposed
<1>8. TypeOK'
  <2>1. life' \in [Tasks -> {"unborn", "there", "gone"}] /\ rc' \in {"ok", "bad"}
    BY <1>1, <1>3, <1>4, <1>5, <1>6, <1>20 DEF TypeOK
  <2>2. pc' \in [Threads -> PCs]
    BY <1>1, <1>3, <1>4, <1>5, <1>6, <1>20 DEF TypeOK, PCs
  <2>3. req' \in [Threads -> [op : Ops, task : Tasks, found : BOOLEAN, known : BOOLEAN]]
    BY <1>1, <1>3, <1>4, <1>5, <1>6, <1>20 DEF TypeOK, Ops
  <2>4. sess' \in [Threads -> [open : BOOLEAN, ok : BOOLEAN]]
    BY <1>1, <1>3, <1>4, <1>5, <1>6, <1>20 DEF TypeOK
  <2>5. walk' \in [Threads -> Walks]
    BY <1>1, <1>3, <1>4, <1>5, <1>6, <1>20 DEF TypeOK, Walks
  <2>6. reply' \in [Threads -> Replies]
    BY <1>1, <1>3, <1>4, <1>5, <1>6, <1>20 DEF TypeOK, Replies
  <2>7. overtaken' \subseteq Threads
        /\ lasting' \in [Threads -> SUBSET Tasks] /\ crashed' \in BOOLEAN /\ faults' \in BOOLEAN
    BY <1>1, <1>3, <1>4, <1>5, <1>6, <1>20 DEF TypeOK, There, Exposed
  <2> QED
    BY <2>1, <2>2, <2>3, <2>4, <2>5, <2>6, <2>7 DEF TypeOK
<1>9. Places(t)'
  BY <1>1, <1>3, <1>4, <1>5, <1>6, <1>20 DEF TypeOK, ThreadInv, Places, Enumerating
<1>10. Witnessed(t)'
  BY <1>1, <1>3, <1>4, <1>5, <1>6, <1>20 DEF TypeOK, ThreadInv, Witnessed, There
<1>11. Listed(t)'
  BY <1>1, <1>3, <1>4, <1>5, <1>6, <1>20 DEF TypeOK, ThreadInv, Listed, Walks, There
<1>12. Counting(t)'
  BY <1>1, <1>4, <1>5, <1>20 DEF TypeOK, ThreadInv, Counting, Walks, Seen, Expected, There
<1>13. Pursued(t)'
  BY <1>1, <1>3, <1>4, <1>5, <1>6, <1>20 DEF TypeOK, ThreadInv, Pursued, Places, Enumerating
<1>14. Missed(t)'
  BY <1>1, <1>3, <1>4, <1>5, <1>6, <1>20 DEF TypeOK, ThreadInv, Missed, Exposed, Witnessed
<1>15. Gone(t)'
  BY <1>1, <1>3, <1>4, <1>5, <1>6, <1>20 DEF TypeOK, ThreadInv, Gone, Places, Enumerating
<1>16. Returned(t)'
  BY <1>1, <1>3, <1>4, <1>5, <1>6, <1>20 DEF TypeOK, ThreadInv, Returned
<1> QED
  BY <1>7, <1>8, <1>9, <1>10, <1>11, <1>12, <1>13, <1>14, <1>15, <1>16, Compose DEF ThreadInv

\* The test believes the failure of a success only if that was overtaken.
LEMMA TestStep == ASSUME IInv, NEW t \in Threads, Test(t) PROVE IInv'
<1> USE DEF Test, At, Go
<1>1. TypeOK /\ ThreadInv(t)
  BY DEF IInv
<1>2. /\ pc' \in [Threads -> PCs] /\ rc' \in {"ok", "bad"} /\ (rc = "ok" => rc' = "ok")
      /\ \A u \in Threads \ {t} : pc'[u] = pc[u]
      /\ \/ pc'[t] = "got"
         \/ pc'[t] = "clean" /\ (req[t].found => rc = "bad")
  BY <1>1 DEF TypeOK, PCs
<1>20. /\ life' = life /\ req' = req /\ sess' = sess /\ walk' = walk /\ reply' = reply
       /\ lasting' = lasting /\ overtaken' = overtaken
       /\ crashed' = crashed /\ faults' = faults /\ pc[t] = "test"
  OBVIOUS
<1> HIDE DEF Test
<1>3. Apart(t)
  BY <1>1, <1>2, <1>20 DEF TypeOK, Apart, Still, Spared, Same, Ended1, There, Exposed
<1>4. TypeOK'
  <2>1. life' \in [Tasks -> {"unborn", "there", "gone"}] /\ rc' \in {"ok", "bad"}
    BY <1>1, <1>2, <1>20 DEF TypeOK
  <2>2. pc' \in [Threads -> PCs]
    BY <1>1, <1>2, <1>20 DEF TypeOK, PCs
  <2>3. req' \in [Threads -> [op : Ops, task : Tasks, found : BOOLEAN, known : BOOLEAN]]
    BY <1>1, <1>2, <1>20 DEF TypeOK, Ops
  <2>4. sess' \in [Threads -> [open : BOOLEAN, ok : BOOLEAN]]
    BY <1>1, <1>2, <1>20 DEF TypeOK
  <2>5. walk' \in [Threads -> Walks]
    BY <1>1, <1>2, <1>20 DEF TypeOK, Walks
  <2>6. reply' \in [Threads -> Replies]
    BY <1>1, <1>2, <1>20 DEF TypeOK, Replies
  <2>7. overtaken' \subseteq Threads
        /\ lasting' \in [Threads -> SUBSET Tasks] /\ crashed' \in BOOLEAN /\ faults' \in BOOLEAN
    BY <1>1, <1>2, <1>20 DEF TypeOK, There, Exposed
  <2> QED
    BY <2>1, <2>2, <2>3, <2>4, <2>5, <2>6, <2>7 DEF TypeOK
<1>5. Places(t)'
  BY <1>1, <1>2, <1>20 DEF TypeOK, ThreadInv, Places, Enumerating
<1>6. Witnessed(t)'
  BY <1>1, <1>2, <1>20 DEF TypeOK, ThreadInv, Witnessed, There
<1>7. Listed(t)'
  BY <1>1, <1>2, <1>20 DEF TypeOK, ThreadInv, Listed, Walks, There
<1>8. Counting(t)'
  BY <1>1, <1>2, <1>20 DEF TypeOK, ThreadInv, Counting, Walks, Seen, Expected, There
<1>9. Pursued(t)'
  BY <1>1, <1>2, <1>20 DEF TypeOK, ThreadInv, Pursued, Places, Enumerating
<1>10. Missed(t)'
  BY <1>1, <1>2, <1>20 DEF TypeOK, ThreadInv, Missed, Exposed, Places
<1>11. Gone(t)'
  BY <1>1, <1>2, <1>20 DEF TypeOK, ThreadInv, Gone, Places, Enumerating
<1>12. Returned(t)'
  BY <1>1, <1>2, <1>20 DEF TypeOK, ThreadInv, Returned
<1> QED
  BY <1>3, <1>4, <1>5, <1>6, <1>7, <1>8, <1>9, <1>10, <1>11, <1>12, Compose DEF ThreadInv

\* The failure of a lookup is reported as such, or as another answer than "notFound".
LEMMA CleanStep == ASSUME IInv, NEW t \in Threads, Clean(t) PROVE IInv'
<1> USE DEF Clean, At
<1>1. TypeOK /\ ThreadInv(t)
  BY DEF IInv
<1>2. /\ sess' \in [Threads -> [open : BOOLEAN, ok : BOOLEAN]]
      /\ \A u \in Threads \ {t} : sess'[u] = sess[u]
      /\ ~faults => ~sess'[t].open
  BY <1>1, LogoutClosed
<1>3. /\ req' \in [Threads -> [op : Ops, task : Tasks, found : BOOLEAN, known : BOOLEAN]]
      /\ pc' \in [Threads -> PCs] /\ reply' \in [Threads -> Replies]
      /\ \A u \in Threads \ {t} : req'[u] = req[u] /\ pc'[u] = pc[u] /\ reply'[u] = reply[u]
      /\ req'[t].op = req[t].op /\ req'[t].task = req[t].task
      /\ req'[t].known => req[t].known \/ req[t].op = "delete"
      /\ \/ pc'[t] = "login"
         \/ pc'[t] = "idle" /\ reply'[t] # "ok"
         \/ pc'[t] = "idle" /\ reply'[t] = "ok" /\ req[t].op # "delete"
  <2>1. Absent(req[t].op) \in {"unsupported", "notFound"}
    BY DEF Absent
  <2>2. Mistaken(req[t].op) \in {"failed", "exists", "unsupported"}
    BY DEF Mistaken, Found
  <2>3. CASE Reply(t, Absent(req[t].op))
    BY <1>1, <2>1, <2>3, Replied DEF Replies
  <2>4. CASE req[t].op = "delete" /\ GoDelete(t)
    BY <1>1, <2>4, Decided DEF TypeOK
  <2>5. CASE Reply(t, Mistaken(req[t].op))
    BY <1>1, <2>2, <2>5, Replied DEF Replies
  <2> QED
    BY <2>3, <2>4, <2>5
<1>20. /\ life' = life /\ rc' = rc /\ walk' = walk /\ lasting' = lasting
       /\ overtaken' = overtaken /\ crashed' = crashed /\ faults' = faults
       /\ pc[t] = "clean"
  OBVIOUS
<1> HIDE DEF Clean
<1>4. Apart(t)
  BY <1>1, <1>2, <1>3, <1>20 DEF TypeOK, Apart, Still, Spared, Same, Ended1, There, Exposed
<1>5. TypeOK'
  <2>1. life' \in [Tasks -> {"unborn", "there", "gone"}] /\ rc' \in {"ok", "bad"}
    BY <1>1, <1>2, <1>3, <1>20 DEF TypeOK
  <2>2. pc' \in [Threads -> PCs]
    BY <1>1, <1>2, <1>3, <1>20 DEF TypeOK, PCs
  <2>3. req' \in [Threads -> [op : Ops, task : Tasks, found : BOOLEAN, known : BOOLEAN]]
    BY <1>1, <1>2, <1>3, <1>20 DEF TypeOK, Ops
  <2>4. sess' \in [Threads -> [open : BOOLEAN, ok : BOOLEAN]]
    BY <1>1, <1>2, <1>3, <1>20 DEF TypeOK
  <2>5. walk' \in [Threads -> Walks]
    BY <1>1, <1>2, <1>3, <1>20 DEF TypeOK, Walks
  <2>6. reply' \in [Threads -> Replies]
    BY <1>1, <1>2, <1>3, <1>20 DEF TypeOK, Replies
  <2>7. overtaken' \subseteq Threads
        /\ lasting' \in [Threads -> SUBSET Tasks] /\ crashed' \in BOOLEAN /\ faults' \in BOOLEAN
    BY <1>1, <1>2, <1>3, <1>20 DEF TypeOK, There, Exposed
  <2> QED
    BY <2>1, <2>2, <2>3, <2>4, <2>5, <2>6, <2>7 DEF TypeOK
<1>6. Places(t)'
  BY <1>1, <1>2, <1>3, <1>20 DEF TypeOK, ThreadInv, Places, Enumerating
<1>7. Witnessed(t)'
  BY <1>1, <1>2, <1>3, <1>20 DEF TypeOK, ThreadInv, Witnessed, There
<1>8. Listed(t)'
  BY <1>1, <1>2, <1>3, <1>20 DEF TypeOK, ThreadInv, Listed, Walks, There
<1>9. Counting(t)'
  BY <1>1, <1>2, <1>3, <1>20 DEF TypeOK, ThreadInv, Counting, Walks, Seen, Expected, There
<1>10. Pursued(t)'
  BY <1>1, <1>2, <1>3, <1>20 DEF TypeOK, ThreadInv, Pursued, Places, Enumerating
<1>11. Missed(t)'
  BY <1>1, <1>2, <1>3, <1>20 DEF TypeOK, ThreadInv, Missed, Exposed, Places
<1>12. Gone(t)'
  BY <1>1, <1>2, <1>3, <1>20 DEF TypeOK, ThreadInv, Gone, Places, Enumerating
<1>13. Returned(t)'
  BY <1>1, <1>2, <1>3, <1>20 DEF TypeOK, ThreadInv, Returned
<1> QED
  BY <1>4, <1>5, <1>6, <1>7, <1>8, <1>9, <1>10, <1>11, <1>12, <1>13, Compose DEF ThreadInv

\* A task that was found is reported, or destroyed next, or was overtaken.
LEMMA GotStep == ASSUME IInv, NEW t \in Threads, Got(t) PROVE IInv'
<1> USE DEF Got, At
<1>1. TypeOK /\ ThreadInv(t)
  BY DEF IInv
<1>2. /\ sess' \in [Threads -> [open : BOOLEAN, ok : BOOLEAN]]
      /\ \A u \in Threads \ {t} : sess'[u] = sess[u]
      /\ ~faults => ~sess'[t].open
  BY <1>1, LogoutClosed
<1>3. /\ req' \in [Threads -> [op : Ops, task : Tasks, found : BOOLEAN, known : BOOLEAN]]
      /\ pc' \in [Threads -> PCs] /\ reply' \in [Threads -> Replies]
      /\ \A u \in Threads \ {t} : req'[u] = req[u] /\ pc'[u] = pc[u] /\ reply'[u] = reply[u]
      /\ req'[t].op = req[t].op /\ req'[t].task = req[t].task
      /\ req'[t].known => req[t].known \/ req[t].op = "delete"
      /\ \/ pc'[t] = "login"
         \/ pc'[t] = "idle" /\ reply'[t] # "ok" /\ (reply'[t] = "notFound" => rc # "ok")
         \/ pc'[t] = "idle" /\ reply'[t] = "ok" /\ req[t].op = "get"
  <2>1. Absent(req[t].op) \in {"unsupported", "notFound"}
    BY DEF Absent
  <2>2. Found(req[t].op) \in {"exists", "unsupported"}
    BY DEF Found
  <2>3. CASE rc # "ok" /\ Reply(t, Absent(req[t].op))
    BY <1>1, <2>1, <2>3, Replied DEF Replies
  <2>4. CASE req[t].op = "delete" /\ GoDelete(t)
    BY <1>1, <2>4, Decided DEF TypeOK
  <2>5. CASE Reply(t, Found(req[t].op))
    BY <1>1, <2>2, <2>5, Replied DEF Replies
  <2>6. CASE req[t].op = "get" /\ Reply(t, "ok")
    BY <1>1, <2>6, Replied DEF Replies
  <2> QED
    BY <2>3, <2>4, <2>5, <2>6
<1>20. /\ life' = life /\ rc' = rc /\ walk' = walk /\ lasting' = lasting
       /\ overtaken' = overtaken /\ crashed' = crashed /\ faults' = faults
       /\ pc[t] = "got"
  OBVIOUS
<1> HIDE DEF Got
<1>4. Apart(t)
  BY <1>1, <1>2, <1>3, <1>20 DEF TypeOK, Apart, Still, Spared, Same, Ended1, There, Exposed
<1>5. TypeOK'
  <2>1. life' \in [Tasks -> {"unborn", "there", "gone"}] /\ rc' \in {"ok", "bad"}
    BY <1>1, <1>2, <1>3, <1>20 DEF TypeOK
  <2>2. pc' \in [Threads -> PCs]
    BY <1>1, <1>2, <1>3, <1>20 DEF TypeOK, PCs
  <2>3. req' \in [Threads -> [op : Ops, task : Tasks, found : BOOLEAN, known : BOOLEAN]]
    BY <1>1, <1>2, <1>3, <1>20 DEF TypeOK, Ops
  <2>4. sess' \in [Threads -> [open : BOOLEAN, ok : BOOLEAN]]
    BY <1>1, <1>2, <1>3, <1>20 DEF TypeOK
  <2>5. walk' \in [Threads -> Walks]
    BY <1>1, <1>2, <1>3, <1>20 DEF TypeOK, Walks
  <2>6. reply' \in [Threads -> Replies]
    BY <1>1, <1>2, <1>3, <1>20 DEF TypeOK, Replies
  <2>7. overtaken' \subseteq Threads
        /\ lasting' \in [Threads -> SUBSET Tasks] /\ crashed' \in BOOLEAN /\ faults' \in BOOLEAN
    BY <1>1, <1>2, <1>3, <1>20 DEF TypeOK, There, Exposed
  <2> QED
    BY <2>1, <2>2, <2>3, <2>4, <2>5, <2>6, <2>7 DEF TypeOK
<1>6. Places(t)'
  BY <1>1, <1>2, <1>3, <1>20 DEF TypeOK, ThreadInv, Places, Enumerating
<1>7. Witnessed(t)'
  BY <1>1, <1>2, <1>3, <1>20 DEF TypeOK, ThreadInv, Witnessed, There
<1>8. Listed(t)'
  BY <1>1, <1>2, <1>3, <1>20 DEF TypeOK, ThreadInv, Listed, Walks, There
<1>9. Counting(t)'
  BY <1>1, <1>2, <1>3, <1>20 DEF TypeOK, ThreadInv, Counting, Walks, Seen, Expected, There
<1>10. Pursued(t)'
  BY <1>1, <1>2, <1>3, <1>20 DEF TypeOK, ThreadInv, Pursued, Places, Enumerating
<1>11. Missed(t)'
  BY <1>1, <1>2, <1>3, <1>20 DEF TypeOK, ThreadInv, Missed, Exposed, Places
<1>12. Gone(t)'
  BY <1>1, <1>2, <1>3, <1>20 DEF TypeOK, ThreadInv, Gone, Places, Enumerating
<1>13. Returned(t)'
  BY <1>1, <1>2, <1>3, <1>20 DEF TypeOK, ThreadInv, Returned
<1> QED
  BY <1>4, <1>5, <1>6, <1>7, <1>8, <1>9, <1>10, <1>11, <1>12, <1>13, Compose DEF ThreadInv

\* The end of the process changes nothing else.
LEMMA CrashStep == ASSUME IInv, NEW t \in Threads, Crash(t) PROVE IInv'
<1> USE DEF Crash
<1>1. TypeOK'
  BY DEF IInv, TypeOK
<1>2. ASSUME NEW u \in Threads PROVE ThreadInv(u)'
  BY OtherThread DEF IInv, Still, Spared, Same
<1> QED
  BY <1>1, <1>2 DEF IInv

\* Destroying a task takes it from the history of every thread.
LEMMA DestroyStep == ASSUME IInv, NEW t \in Threads, Destroy(t) PROVE IInv'
<1> USE DEF Destroy, At, Go, Answer, Ends, Reads
<1>1. TypeOK /\ ThreadInv(t)
  BY DEF IInv
<1>2. /\ sess' \in [Threads -> [open : BOOLEAN, ok : BOOLEAN]]
      /\ \A u \in Threads \ {t} : sess'[u] = sess[u]
      /\ ~faults => ~sess'[t].open
  BY <1>1, LogoutClosed
<1>3. Apart(t)
  BY <1>1, <1>2 DEF TypeOK, Apart, Still, Spared, Same, Ended1, There
<1>4. TypeOK'
  <2>1. life' \in [Tasks -> {"unborn", "there", "gone"}] /\ rc' \in {"ok", "bad"}
    BY <1>1, <1>2 DEF TypeOK
  <2>2. pc' \in [Threads -> PCs]
    BY <1>1, <1>2 DEF TypeOK, PCs
  <2>3. req' \in [Threads -> [op : Ops, task : Tasks, found : BOOLEAN, known : BOOLEAN]]
    BY <1>1, <1>2 DEF TypeOK, Ops
  <2>4. sess' \in [Threads -> [open : BOOLEAN, ok : BOOLEAN]]
    BY <1>1, <1>2 DEF TypeOK
  <2>5. walk' \in [Threads -> Walks]
    BY <1>1, <1>2 DEF TypeOK, Walks
  <2>6. reply' \in [Threads -> Replies]
    BY <1>1, <1>2 DEF TypeOK, Replies
  <2>7. overtaken' \subseteq Threads
        /\ lasting' \in [Threads -> SUBSET Tasks] /\ crashed' \in BOOLEAN /\ faults' \in BOOLEAN
    BY <1>1, <1>2 DEF TypeOK, There
  <2> QED
    BY <2>1, <2>2, <2>3, <2>4, <2>5, <2>6, <2>7 DEF TypeOK
<1>5. Places(t)'
  BY <1>1, <1>2 DEF TypeOK, ThreadInv, Places, Enumerating
<1>6. Witnessed(t)'
  BY <1>1, <1>2 DEF TypeOK, ThreadInv, Witnessed, There
<1>7. Listed(t)'
  BY <1>1, <1>2 DEF TypeOK, ThreadInv, Listed, Walks, There
<1>8. Counting(t)'
  BY <1>1, <1>2 DEF TypeOK, ThreadInv, Counting, Walks, Seen, Expected, There
<1>9. Pursued(t)'
  BY <1>1, <1>2 DEF TypeOK, ThreadInv, Pursued, Places, Enumerating
<1>10. Missed(t)'
  BY <1>1, <1>2 DEF TypeOK, ThreadInv, Missed, Exposed
<1>11. Gone(t)'
  BY <1>1, <1>2 DEF TypeOK, ThreadInv, Gone, Places, Enumerating
<1>12. Returned(t)'
  BY <1>1, <1>2 DEF TypeOK, ThreadInv, Returned
<1> QED
  BY <1>3, <1>4, <1>5, <1>6, <1>7, <1>8, <1>9, <1>10, <1>11, <1>12, Compose DEF ThreadInv

-----------------------------------------------------------------------------
(* The clients, and the steps together                                     *)

\* A task that appears is in no history and on no list.
LEMMA AppearStep == ASSUME IInv, NEW k \in Tasks, Appear(k) PROVE IInv'
<1> USE DEF Appear
<1>1. TypeOK
  BY DEF IInv
<1>2. TypeOK'
  BY <1>1 DEF TypeOK
<1>3. ASSUME NEW u \in Threads PROVE ThreadInv(u)'
  <2>1. ThreadInv(u) /\ Still(u) /\ Spared(u) /\ Began(u) /\ faults' = faults
    BY DEF IInv, Still, Spared, Began
  <2> QED
    BY <1>1, <2>1, OtherThread
<1> QED
  BY <1>2, <1>3 DEF IInv

\* A task that disappears leaves every history.
LEMMA VanishStep == ASSUME IInv, NEW k \in Tasks, Vanish(k) PROVE IInv'
<1> USE DEF Vanish, Ends
<1>1. TypeOK
  BY DEF IInv
<1>2. TypeOK'
  BY <1>1 DEF TypeOK
<1>3. ASSUME NEW u \in Threads PROVE ThreadInv(u)'
  <2>1. ThreadInv(u) /\ Still(u) /\ Spared(u) /\ faults' = faults
    BY DEF IInv, Still, Spared
  <2>2. Ended1(u)
    BY DEF Ended1, There
  <2> QED
    BY <1>1, <2>1, <2>2, OtherThread
<1> QED
  BY <1>2, <1>3 DEF IInv

\* The invariant is inductive.
LEMMA NextInv == IInv /\ [Next]_vars => IInv'
<1> SUFFICES ASSUME IInv, [Next]_vars PROVE IInv'
  OBVIOUS
<1>1. ASSUME NEW t \in Threads, Request(t) PROVE IInv'
  BY <1>1, RequestStep
<1>2. ASSUME NEW t \in Threads, Step(t) PROVE IInv'
  <2>1. CASE Login(t)
    BY <2>1, LoginStep
  <2>2. CASE Validate(t)
    BY <2>2, ValidateStep
  <2>3. CASE GetAll(t)
    BY <2>3, GetAllStep
  <2>4. CASE Count(t)
    BY <2>4, CountStep
  <2>5. CASE Fill(t)
    BY <2>5, FillStep
  <2>6. CASE GetNext(t)
    BY <2>6, GetNextStep
  <2>7. CASE Lookup(t)
    BY <2>7, LookupStep
  <2>8. CASE Clean(t)
    BY <2>8, CleanStep
  <2>9. CASE Got(t)
    BY <2>9, GotStep
  <2>10. CASE Destroy(t)
    BY <2>10, DestroyStep
  <2>11. CASE Test(t)
    BY <2>11, TestStep
  <2>12. CASE Crash(t)
    BY <2>12, CrashStep
  <2> QED
    BY <1>2, <2>1, <2>2, <2>3, <2>4, <2>5, <2>6, <2>7, <2>8, <2>9, <2>10, <2>11, <2>12
    DEF Step, Session
<1>3. ASSUME NEW k \in Tasks, Appear(k) \/ Vanish(k) PROVE IInv'
  BY <1>3, AppearStep, VanishStep
<1>4. CASE UNCHANGED vars
  <2> USE <1>4 DEF vars
  <2>1. TypeOK'
    BY DEF IInv, TypeOK
  <2>2. ASSUME NEW u \in Threads PROVE ThreadInv(u)'
    BY OtherThread DEF IInv, Still, Spared, Same
  <2> QED
    BY <2>1, <2>2 DEF IInv
<1> QED
  BY <1>1, <1>2, <1>3, <1>4 DEF Next

\* The invariant holds in every state of every run.
THEOREM Invariance == Spec => []IInv
BY InitInv, NextInv, PTL DEF Spec

-----------------------------------------------------------------------------
(* What it says                                                            *)

\* Every variable has its type, however many threads and tasks there are.
THEOREM TypeCorrect == Spec => []TypeOK
<1>1. IInv => TypeOK
  BY DEF IInv
<1> QED
  BY <1>1, Invariance, PTL

\* An enumeration that succeeds has returned every instance that was there
\* while it went on (prov_pxy_begin, prov_pxy_getnext, enum_call).
THEOREM EnumerationCorrect == Spec => []EnumerationComplete
<1>1. IInv => EnumerationComplete
  BY DEF IInv, ThreadInv, Pursued, Enumerating, EnumerationComplete
<1> QED
  BY <1>1, Invariance, PTL

\* The second pass of an enumeration never puts more into the list than the
\* first has counted, whatever comes and goes between them (the two loops of
\* xen_resource_list_enum).
THEOREM ListSafe == Spec => []ListFits
<1>1. IInv => ListFits
  <2> SUFFICES ASSUME IInv, ~faults, NEW t \in Threads, pc[t] = "fill"
               PROVE  Cardinality(walk[t].list) <= walk[t].size
    BY DEF ListFits
  <2>1. walk[t] \in Walks
    BY DEF IInv, TypeOK
  <2>2. Expected(t) \in SUBSET Tasks /\ walk[t].list \in SUBSET Expected(t)
    BY <2>1 DEF Expected, Walks
  <2>3. Cardinality(walk[t].list) <= Cardinality(Expected(t))
    BY <2>2, Sizes
  <2>4. Cardinality(walk[t].list) \in Nat /\ Cardinality(Expected(t)) \in Nat
    BY <2>2, Sizes
  <2>5. walk[t].size \in Nat
    BY <2>1, JobInstancesAssumption, FS_CardinalityType DEF Walks
  <2>6. Cardinality(Expected(t)) <= walk[t].size
    BY DEF IInv, ThreadInv, Counting
  <2> QED
    BY <2>3, <2>4, <2>5, <2>6
<1> QED
  BY <1>1, Invariance, PTL

\* "Not found" is true, unless another thread's failure has overtaken the success
\* of this one in the static return code of prov_pxy_get; nothing else that the
\* threads leave there makes it untrue.
THEOREM NotFoundCorrect == Spec => []NotFoundMeansAbsent
<1>1. IInv => NotFoundMeansAbsent
  BY DEF IInv, ThreadInv, Missed, NotFoundMeansAbsent
<1> QED
  BY <1>1, Invariance, PTL

\* What a DeleteInstance reports as deleted is gone, faults or not
\* (xen_resource_delete).
THEOREM DeletedCorrect == Spec => []DeletedMeansGone
<1>1. IInv => DeletedMeansGone
  BY DEF IInv, ThreadInv, Gone, DeletedMeansGone, There
<1> QED
  BY <1>1, Invariance, PTL

\* A request leaves no session open (xen_utils_cleanup_session on every way
\* out of ProxyHelper.c).
THEOREM SessionsCorrect == Spec => []SessionsReturned
<1>1. IInv => SessionsReturned
  BY DEF IInv, ThreadInv, Returned, SessionsReturned
<1> QED
  BY <1>1, Invariance, PTL
=============================================================================
