------------------------------ MODULE TasksProofs ------------------------------
(***************************************************************************)
(* What the task registry promises, over Redis and in one process, for any *)
(* number of tasks, instances, stops, lost subscriptions and crashes; and  *)
(* what the rate limiter promises, for any limit, any number of processes  *)
(* and requests, and any window of whole buckets.                          *)
(***************************************************************************)
EXTENDS TaskRegistries, SequenceTheorems, FiniteSetTheorems, WellFoundedInduction, TLAPS

-----------------------------------------------------------------------------
(* Over Redis *)

RegistryTypes ==
    /\ state \in [Tasks -> {"none", "running", "done", "lost"}]
    /\ saving \in [Tasks -> {"none", "sent", "saved"}]
    /\ cleaning \in [Tasks -> CleanSteps]
    /\ hash \subseteq Tasks /\ set \subseteq Tasks /\ streams \subseteq Tasks

\* Only a task that is over is cleaned up, so none of its saves is still to come:
\* from the cleanup's pipeline on, Redis has nothing of it.
CleanedUp ==
    \A t \in Tasks :
        /\ cleaning[t] # "none" => state[t] = "done"
        /\ cleaning[t] \in {"removed", "empty", "done"} =>
             saving[t] = "saved" /\ t \notin hash \cup set \cup streams

RegistryInv == RegistryTypes /\ CleanedUp

\* Nothing is cleaned up at the start.
LEMMA RegistryInit == Init => RegistryInv
  BY DEF Init, RegistryInv, RegistryTypes, CleanedUp, CleanSteps

\* The invariant of the registry is inductive.
LEMMA RegistryStep == RegistryInv /\ [Next]_vars => RegistryInv'
  <1> SUFFICES ASSUME RegistryInv, [Next]_vars PROVE RegistryInv'
    OBVIOUS
  <1> USE DEF RegistryInv, RegistryTypes
  <1>1. ASSUME NEW t \in Tasks, NEW i \in Instances, CreateTask(t, i) PROVE RegistryInv'
    BY <1>1 DEF CreateTask, CleanedUp
  <1>2. ASSUME NEW t \in Tasks, NEW i \in Instances, Listen(i, t) PROVE RegistryInv'
    BY <1>2 DEF Listen, Finish, CleanedUp, CleanSteps
  <1>3. ASSUME NEW t \in Tasks, RedisSaveTask(t) PROVE RegistryInv'
    BY <1>3 DEF RedisSaveTask, CleanedUp
  <1>4. ASSUME NEW t \in Tasks, SaveResponseStream(t) \/ ClearResponseStream(t) PROVE RegistryInv'
    BY <1>4 DEF SaveResponseStream, ClearResponseStream, CleanedUp
  <1>5. ASSUME NEW t \in Tasks, TaskEnds(t) PROVE RegistryInv'
    BY <1>5 DEF TaskEnds, Finish, CleanedUp, CleanSteps
  <1>6. ASSUME NEW t \in Tasks, CleanStep(t) PROVE RegistryInv'
    BY <1>6 DEF CleanStep, CleanRemove, CleanCount, CleanDelete, RemovedFromRedis, CleanedUp, CleanSteps
  <1>7. ASSUME NEW t \in Tasks, StopAsk(t) \/ StopStep(t) PROVE RegistryInv'
    BY <1>7 DEF StopAsk, StopStep, StopPublish, StopRemove, StopCount, StopDelete, RemovedFromRedis, CleanedUp
  <1>8. ASSUME NEW i \in Instances, ListenerDrops(i) \/ ListenerReconnects(i) PROVE RegistryInv'
    BY <1>8 DEF ListenerDrops, ListenerReconnects, CleanedUp
  <1>9. ASSUME NEW i \in Instances, Crash(i) PROVE RegistryInv'
    BY <1>9 DEF Crash, CleanedUp, CleanSteps
  <1>10. CASE UNCHANGED vars
    BY <1>10 DEF vars, CleanedUp
  <1> QED
    BY <1>1, <1>2, <1>3, <1>4, <1>5, <1>6, <1>7, <1>8, <1>9, <1>10 DEF Next

\* Once the cleanup of a task is through Redis has no entry, list or stream of it,
\* however saves, stops and the cleanups of other tasks interleave with it.
THEOREM CleanedTasksAreGone == Spec => []GoneWhenDone
  <1>1. RegistryInv => GoneWhenDone
    BY DEF RegistryInv, CleanedUp, GoneWhenDone
  <1> QED
    BY <1>1, RegistryInit, RegistryStep, PTL DEF Spec

-----------------------------------------------------------------------------
(* In one process *)

Distinct(s) == \A j, k \in 1..Len(s) : s[j] = s[k] => j = k
Has(s, x) == \E k \in 1..Len(s) : s[k] = x
Listed == Local!Live \cup Local!Over

\* The list has no task twice, and exactly the tasks not yet cleaned up.
LocalInv ==
    /\ lState \in [Local!Tasks -> {"none", "cleaned"} \cup Listed]
    /\ list \in Seq(Local!Tasks)
    /\ Distinct(list)
    /\ \A t \in Local!Tasks : Has(list, t) <=> lState[t] \in Listed

\* The list is empty at the start.
LEMMA LocalInit == Local!Init => LocalInv
  BY DEF Local!Init, LocalInv, Distinct, Has, Listed, Local!Live, Local!Over

\* A set of numbers that is not empty has a least one.
LEMMA LeastIn ==
  ASSUME NEW S \in SUBSET Nat, S # {}
  PROVE  Local!Min(S) \in S
  <1>1. PICK x \in S : \A y \in S : <<y, x>> \notin OpToRel(<, Nat)
    BY NatLessThanWellFounded, WFMin
  <1>2. \A y \in S : ~ (y < x)
    BY <1>1 DEF OpToRel
  <1>3. \A y \in S : x <= y
    BY <1>2
  <1> QED
    BY <1>3 DEF Local!Min

\* list.remove takes one element out and closes the gap.
LEMMA WithoutFacts ==
  ASSUME NEW S, NEW s \in Seq(S), NEW e, Has(s, e)
  PROVE  \E n \in 1..Len(s) :
            /\ s[n] = e
            /\ Local!Without(s, e) \in Seq(S) /\ Len(Local!Without(s, e)) = Len(s) - 1
            /\ \A j \in 1..(Len(s) - 1) :
                 /\ j < n => Local!Without(s, e)[j] = s[j]
                 /\ j >= n => Local!Without(s, e)[j] = s[j + 1]
  <1> DEFINE at == {k \in 1..Len(s) : s[k] = e}
  <1>1. at # {} /\ Local!Min(at) \in at
    <2>1. at \in SUBSET Nat /\ at # {}
      BY DEF Has
    <2> HIDE DEF at
    <2> QED
      BY <2>1, LeastIn
  <1>2. Local!Without(s, e) = SubSeq(s, 1, Local!Min(at) - 1) \o SubSeq(s, Local!Min(at) + 1, Len(s))
    BY <1>1 DEF Local!Without, Local!RemoveAt
  <1>3. PICK n \in 1..Len(s) :
          s[n] = e /\ Local!Without(s, e) = SubSeq(s, 1, n - 1) \o SubSeq(s, n + 1, Len(s))
    BY <1>1, <1>2
  <1> DEFINE a == SubSeq(s, 1, n - 1)
             b == SubSeq(s, n + 1, Len(s))
  <1>4. a \in Seq(S) /\ Len(a) = n - 1 /\ \A j \in 1..(n - 1) : a[j] = s[j]
    BY <1>3
  <1>5. b \in Seq(S) /\ Len(b) = Len(s) - n /\ \A j \in 1..(Len(s) - n) : b[j] = s[j + n]
    BY <1>3
  <1> HIDE DEF a, b
  <1>6. /\ a \o b \in Seq(S) /\ Len(a \o b) = Len(s) - 1
        /\ \A j \in 1..(Len(s) - 1) : (a \o b)[j] = IF j <= n - 1 THEN a[j] ELSE b[j - (n - 1)]
    <2>1. Len(a) + Len(b) = Len(s) - 1 /\ Len(a) = n - 1
      BY <1>3, <1>4, <1>5
    <2>2. /\ a \o b \in Seq(S) /\ Len(a \o b) = Len(a) + Len(b)
          /\ \A j \in 1..(Len(a) + Len(b)) : (a \o b)[j] = IF j <= Len(a) THEN a[j] ELSE b[j - Len(a)]
      BY <1>4, <1>5, ConcatProperties
    <2> QED
      BY <2>1, <2>2
  <1>7. ASSUME NEW j \in 1..(Len(s) - 1)
        PROVE  (j < n => (a \o b)[j] = s[j]) /\ (j >= n => (a \o b)[j] = s[j + 1])
    <2>1. CASE j < n
      BY <1>3, <1>4, <1>6, <2>1
    <2>2. CASE j >= n
      <3>1. j - (n - 1) \in 1..(Len(s) - n) /\ (j - (n - 1)) + n = j + 1
        BY <1>3, <2>2
      <3>2. (a \o b)[j] = b[j - (n - 1)]
        <4>1. ~(j <= n - 1)
          BY <1>3, <2>2
        <4> QED
          BY <1>6, <4>1
      <3> QED
        BY <1>5, <2>2, <3>1, <3>2
    <2> QED
      BY <2>1, <2>2
  <1> QED
    BY <1>3, <1>6, <1>7 DEF a, b

\* Appending what is not there keeps the entries distinct.
LEMMA AppendKeeps ==
  ASSUME NEW S, NEW s \in Seq(S), NEW e \in S, ~Has(s, e), Distinct(s)
  PROVE  LET q == Append(s, e)
         IN q \in Seq(S) /\ Distinct(q) /\ \A u : Has(q, u) <=> Has(s, u) \/ u = e
  <1> DEFINE q == Append(s, e)
  <1>1. /\ q \in Seq(S) /\ Len(q) = Len(s) + 1 /\ q[Len(s) + 1] = e
        /\ \A k \in 1..Len(s) : q[k] = s[k] /\ s[k] # e
    BY DEF Has
  <1> HIDE DEF q
  <1>2. Distinct(q)
    BY <1>1 DEF Distinct
  <1>3. \A u : Has(q, u) <=> Has(s, u) \/ u = e
    BY <1>1 DEF Has
  <1> QED
    BY <1>1, <1>2, <1>3 DEF q

\* Of a list without repetitions it leaves one that has everything else.
LEMMA WithoutKeeps ==
  ASSUME NEW S, NEW s \in Seq(S), NEW e, Has(s, e), Distinct(s)
  PROVE  LET q == Local!Without(s, e)
         IN q \in Seq(S) /\ Distinct(q) /\ \A u : Has(q, u) <=> Has(s, u) /\ u # e
  <1>1. PICK n \in 1..Len(s) :
          /\ s[n] = e
          /\ Local!Without(s, e) \in Seq(S) /\ Len(Local!Without(s, e)) = Len(s) - 1
          /\ \A j \in 1..(Len(s) - 1) :
               /\ j < n => Local!Without(s, e)[j] = s[j]
               /\ j >= n => Local!Without(s, e)[j] = s[j + 1]
    BY WithoutFacts
  <1> DEFINE q == Local!Without(s, e)
  <1> HIDE DEF q
  <1>2. /\ s[n] = e /\ q \in Seq(S) /\ Len(q) = Len(s) - 1
        /\ \A j \in 1..(Len(s) - 1) : (j < n => q[j] = s[j]) /\ (j >= n => q[j] = s[j + 1])
    BY <1>1 DEF q
  <1>3. \A j \in 1..Len(q) : \E m \in 1..Len(s) : m # n /\ q[j] = s[m] /\ (m = j \/ m = j + 1) /\ (m = j <=> j < n)
    <2> SUFFICES ASSUME NEW j \in 1..Len(q)
                 PROVE  \E m \in 1..Len(s) : m # n /\ q[j] = s[m] /\ (m = j \/ m = j + 1) /\ (m = j <=> j < n)
      OBVIOUS
    <2>1. CASE j < n
      BY <1>2, <2>1
    <2>2. CASE j >= n
      <3>1. j + 1 \in 1..Len(s) /\ j + 1 # n /\ q[j] = s[j + 1] /\ ~(j < n) /\ j + 1 # j
        BY <1>2, <2>2
      <3> QED
        BY <3>1
    <2> QED
      BY <1>2, <2>1, <2>2
  <1>4. \A m \in 1..Len(s) : m # n => \E j \in 1..Len(q) : q[j] = s[m]
    <2> SUFFICES ASSUME NEW m \in 1..Len(s), m # n PROVE \E j \in 1..Len(q) : q[j] = s[m]
      OBVIOUS
    <2>1. CASE m < n
      BY <1>2, <2>1
    <2>2. CASE m > n
      <3>1. m - 1 \in 1..Len(q) /\ m - 1 >= n /\ (m - 1) + 1 = m
        BY <1>2, <2>2
      <3> QED
        BY <1>2, <3>1
    <2> QED
      BY <2>1, <2>2
  <1>5. Distinct(q)
    <2> SUFFICES ASSUME NEW j \in 1..Len(q), NEW k \in 1..Len(q), q[j] = q[k] PROVE j = k
      BY DEF Distinct
    <2>1. PICK a \in 1..Len(s) : q[j] = s[a] /\ (a = j \/ a = j + 1) /\ (a = j <=> j < n)
      BY <1>3
    <2>2. PICK b \in 1..Len(s) : q[k] = s[b] /\ (b = k \/ b = k + 1) /\ (b = k <=> k < n)
      BY <1>3
    <2>3. a = b
      BY <2>1, <2>2 DEF Distinct
    <2> QED
      BY <1>2, <2>1, <2>2, <2>3
  <1>6. ASSUME NEW u PROVE Has(q, u) <=> Has(s, u) /\ u # e
    <2>1. ASSUME Has(q, u) PROVE Has(s, u) /\ u # e
      BY <1>2, <1>3, <2>1 DEF Has, Distinct
    <2>2. ASSUME Has(s, u), u # e PROVE Has(q, u)
      BY <1>2, <1>4, <2>2 DEF Has
    <2> QED
      BY <2>1, <2>2
  <1> QED
    BY <1>2, <1>5, <1>6 DEF q

\* The invariant of the lists of one process is inductive.
LEMMA LocalStep == LocalInv /\ [Local!Next]_(Local!vars) => LocalInv'
  <1> SUFFICES ASSUME LocalInv, [Local!Next]_(Local!vars) PROVE LocalInv'
    OBVIOUS
  <1> USE DEF LocalInv, Listed, Local!Live, Local!Over
  <1>1. ASSUME NEW t \in Local!Tasks, Local!CreateTask(t) PROVE LocalInv'
    <2>1. /\ lState[t] = "none" /\ lState' = [lState EXCEPT ![t] = "running"]
          /\ list' = Append(list, t)
      BY <1>1 DEF Local!CreateTask
    <2>2. list' \in Seq(Local!Tasks) /\ Distinct(list') /\ \A u : Has(list', u) <=> Has(list, u) \/ u = t
      <3>1. list \in Seq(Local!Tasks) /\ Distinct(list) /\ ~Has(list, t)
        BY <2>1
      <3> QED
        BY <2>1, <3>1, AppendKeeps
    <2>3. /\ lState' \in [Local!Tasks -> {"none", "cleaned"} \cup Listed]
          /\ \A u \in Local!Tasks : lState'[u] \in Listed <=> lState[u] \in Listed \/ u = t
      BY <2>1
    <2> QED
      BY <2>2, <2>3
  <1>2. ASSUME NEW t \in Local!Tasks, Local!TaskEnds(t) PROVE LocalInv'
    BY <1>2 DEF Local!TaskEnds
  <1>3. ASSUME NEW t \in Local!Tasks, Local!CleanupTask(t) PROVE LocalInv'
    <2>1. lState[t] \in Listed /\ lState' = [lState EXCEPT ![t] = "cleaned"] /\ list' = Local!Without(list, t)
      BY <1>3 DEF Local!CleanupTask
    <2>2. /\ list' \in Seq(Local!Tasks) /\ Distinct(list')
          /\ \A u : Has(list', u) <=> Has(list, u) /\ u # t
      <3>1. list \in Seq(Local!Tasks) /\ Distinct(list) /\ Has(list, t)
        BY <2>1
      <3> QED
        BY <2>1, <3>1, WithoutKeeps
    <2>3. /\ lState' \in [Local!Tasks -> {"none", "cleaned"} \cup Listed]
          /\ \A u \in Local!Tasks : lState'[u] \in Listed <=> lState[u] \in Listed /\ u # t
      BY <2>1
    <2> QED
      BY <2>2, <2>3
  <1>4. ASSUME NEW s \in Stoppers, Local!StopTask(s) PROVE LocalInv'
    <2>1. PICK t : lState' = [lState EXCEPT ![t] = IF lState[t] = "running" THEN "cancelling" ELSE lState[t]]
                   \/ lState' = lState
      BY <1>4 DEF Local!StopTask
    <2>2. list' = list
      BY <1>4 DEF Local!StopTask
    <2> QED
      BY <2>1, <2>2
  <1>5. ASSUME NEW s \in Stoppers, Local!StopItemTasks(s) \/ Local!StopAll(s) \/ Local!StopAwaited(s)
        PROVE  LocalInv'
    BY <1>5 DEF Local!StopItemTasks, Local!StopAll, Local!StopAwaited
  <1>6. CASE UNCHANGED Local!vars
    BY <1>6 DEF Local!vars
  <1> QED
    BY <1>1, <1>2, <1>3, <1>4, <1>5, <1>6 DEF Local!Next, Local!StopStep

\* Both modules mean the same cardinality.
LEMMA SameCardinality == \A S : Local!Cardinality(S) = Cardinality(S)
  BY DEF Local!Cardinality, Cardinality

\* The tasks a call's iterator is still to come to.
Ahead(s) == {list[k] : k \in stop[s].at .. Len(list)}

Calls == [pc : {"idle", "next", "await", "stopped", "failed"}, at : Nat \ {0},
          cur : SUBSET Local!Tasks, same : BOOLEAN, asked : SUBSET Local!Tasks, moved : Nat]

\* What is known of a call c with the tasks miss still running and ahead still to come.
Counted(c, miss, ahead) ==
    /\ c.pc \in {"next", "await"} => Cardinality(miss \ ahead) <= c.moved /\ (~c.same => miss = {})
    /\ c.pc = "stopped" => Cardinality(miss) <= c.moved

\* A call has left behind at most one running task for each time the list moved.
CallInv(s) ==
    /\ \A t \in stop[s].asked : lState[t] # "none"
    /\ stop[s].pc = "idle" => stop[s].at = 1 /\ stop[s].moved = 0
    /\ stop[s].cur # {} => stop[s].pc = "await"
    /\ Counted(stop[s], Local!Missed(s), Ahead(s))

StopInv == LocalInv /\ stop \in [Stoppers -> Calls] /\ \A s \in Stoppers : CallInv(s)

\* Sets of tasks are finite, and a smaller one has no more.
LEMMA TaskSets ==
  ASSUME Local!LocalAssumption, NEW A \in SUBSET Local!Tasks, NEW B \in SUBSET A
  PROVE  /\ IsFiniteSet(A) /\ IsFiniteSet(B)
         /\ Cardinality(A) \in Nat /\ Cardinality(B) \in Nat /\ Cardinality(B) <= Cardinality(A)
  <1>1. IsFiniteSet(Local!Tasks)
    BY FS_Interval DEF Local!LocalAssumption, Local!Tasks
  <1>2. IsFiniteSet(A)
    BY <1>1, FS_Subset
  <1> QED
    BY <1>2, FS_Subset, FS_CardinalityType

\* Fewer tasks that run and no new ones left behind.
LEMMA CountedShrinks ==
  ASSUME Local!LocalAssumption,
         NEW c \in Calls, NEW d \in Calls,
         NEW m \in SUBSET Local!Tasks, NEW m2 \in SUBSET m, NEW a, NEW a2,
         Counted(c, m, a), m2 \ a2 \subseteq m \ a,
         d.pc = c.pc, d.moved = c.moved, d.same = c.same \/ m2 = {}
  PROVE  Counted(d, m2, a2)
  <1> DEFINE p == m \ a
             p2 == m2 \ a2
  <1>1. Cardinality(m2) \in Nat /\ Cardinality(m) \in Nat /\ Cardinality(m2) <= Cardinality(m)
    BY TaskSets
  <1>2. Cardinality(p2) \in Nat /\ Cardinality(p) \in Nat /\ Cardinality(p2) <= Cardinality(p)
    <2>1. p \in SUBSET Local!Tasks /\ p2 \in SUBSET p
      OBVIOUS
    <2> HIDE DEF p, p2
    <2> QED
      BY <2>1, TaskSets
  <1>3. d.moved \in Nat /\ c.moved \in Nat
    BY DEF Calls
  <1>4. c.pc \in {"next", "await"} => Cardinality(p) <= c.moved /\ (~c.same => m = {})
    BY DEF Counted
  <1>5. c.pc = "stopped" => Cardinality(m) <= c.moved
    BY DEF Counted
  <1>6. d.pc \in {"next", "await"} => Cardinality(p2) <= d.moved /\ (~d.same => m2 = {})
    BY <1>2, <1>3, <1>4
  <1>7. d.pc = "stopped" => Cardinality(m2) <= d.moved
    BY <1>1, <1>3, <1>5
  <1> QED
    BY <1>6, <1>7 DEF Counted

\* One more task may be left behind when the list moved once more.
LEMMA CountedMoves ==
  ASSUME Local!LocalAssumption,
         NEW c \in Calls, NEW d \in Calls,
         NEW m \in SUBSET Local!Tasks, NEW m2 \in SUBSET m, NEW a, NEW a2, NEW x,
         Counted(c, m, a), m2 \ a2 \subseteq (m \ a) \cup {x},
         c.pc = "await", d.pc = "await", d.moved = c.moved + 1, d.same = c.same \/ m2 = {}
  PROVE  Counted(d, m2, a2)
  <1> DEFINE p == m \ a
             p2 == m2 \ a2
             q == p2 \ {x}
  <1>1. /\ Cardinality(p) \in Nat /\ Cardinality(p) <= c.moved /\ (~c.same => m = {})
        /\ c.moved \in Nat /\ d.moved \in Nat
    <2>1. p \in SUBSET Local!Tasks
      OBVIOUS
    <2>2. Cardinality(p) <= c.moved /\ (~c.same => m = {})
      BY DEF Counted
    <2> HIDE DEF p
    <2> QED
      BY <2>1, <2>2, TaskSets DEF Calls
  <1>2. IsFiniteSet(q) /\ Cardinality(q) \in Nat /\ Cardinality(q) <= Cardinality(p)
    <2>1. p \in SUBSET Local!Tasks /\ q \in SUBSET p
      OBVIOUS
    <2> HIDE DEF p, q
    <2> QED
      BY <2>1, TaskSets
  <1>3. Cardinality(p2) \in Nat /\ Cardinality(p2) <= Cardinality(q) + 1
    <2>1. p2 = q \/ (p2 = q \cup {x} /\ x \notin q)
      OBVIOUS
    <2> DEFINE r == q \cup {x}
    <2>2. r = q \cup {x}
      OBVIOUS
    <2> HIDE DEF p, p2, q, r
    <2>3. x \notin q => Cardinality(r) = Cardinality(q) + 1
      BY <1>2, <2>2, FS_AddElement
    <2> QED
      BY <1>2, <2>1, <2>2, <2>3
  <1>4. Cardinality(p2) <= d.moved
    <2> HIDE DEF p, p2, q
    <2> QED
      BY <1>1, <1>2, <1>3
  <1> QED
    BY <1>1, <1>4 DEF Counted

\* A step that leaves the calls alone and makes no asked task run again.
LEMMA CallsStay ==
  ASSUME Local!LocalAssumption, StopInv, NEW s \in Stoppers, stop'[s] = stop[s],
         \A t \in Local!Tasks : lState[t] # "none" /\ lState[t] # "running" =>
                                  lState'[t] # "none" /\ lState'[t] # "running",
         \A t \in Local!Tasks : lState[t] = "running" => lState'[t] # "none",
         Ahead(s) \subseteq Ahead(s)'
  PROVE  CallInv(s)'
  <1>1. stop[s] \in Calls /\ stop[s].asked \subseteq Local!Tasks /\ CallInv(s)
    BY DEF StopInv, Calls
  <1>2. \A t \in stop[s].asked : lState'[t] # "none" /\ (lState'[t] = "running" => lState[t] = "running")
    BY <1>1 DEF CallInv
  <1> DEFINE m == Local!Missed(s)
             m2 == Local!Missed(s)'
             a == Ahead(s)
             a2 == Ahead(s)'
             c == stop[s]
  <1>3. m \in SUBSET Local!Tasks /\ m2 \in SUBSET m
    BY <1>1, <1>2 DEF Local!Missed
  <1>4. m2 \ a2 \subseteq m \ a
    BY <1>3
  <1>5. Counted(c, m, a) /\ c \in Calls
    BY <1>1 DEF CallInv
  <1>6. Counted(c, m2, a2)
    <2> HIDE DEF m, m2, a, a2, c
    <2> QED
      BY <1>3, <1>4, <1>5, CountedShrinks
  <1> QED
    BY <1>1, <1>2, <1>6 DEF CallInv

\* cleanup_task moves what follows the task, and only then a call may lose one.
LEMMA CallCleanup ==
  ASSUME Local!LocalAssumption, StopInv, LocalInv', stop' \in [Stoppers -> Calls],
         NEW t \in Local!Tasks, Local!CleanupTask(t), NEW s \in Stoppers
  PROVE  CallInv(s)'
  <1>1. /\ lState[t] \in Local!Over /\ lState' = [lState EXCEPT ![t] = "cleaned"]
        /\ list' = Local!Without(list, t) /\ stop[s].pc # "next"
        /\ stop'[s] = [stop[s] EXCEPT !.same = stop[s].same /\ list' # <<>>,
                                      !.moved = IF Local!Passed(s, t) THEN stop[s].moved + 1
                                                                      ELSE stop[s].moved]
    BY Zenon DEF Local!CleanupTask, Local!Yielded
  <1>2. stop[s] \in Calls /\ CallInv(s) /\ stop'[s] \in Calls
    BY DEF StopInv
  <1>3. /\ stop'[s].pc = stop[s].pc /\ stop'[s].at = stop[s].at /\ stop'[s].asked = stop[s].asked
        /\ stop'[s].cur = stop[s].cur
        /\ stop'[s].same = (stop[s].same /\ list' # <<>>)
        /\ stop'[s].moved = IF Local!Passed(s, t) THEN stop[s].moved + 1 ELSE stop[s].moved
        /\ stop[s].at \in Nat \ {0} /\ stop[s].asked \subseteq Local!Tasks
    BY <1>1, <1>2 DEF Calls
  <1> DEFINE m == Local!Missed(s)
             m2 == Local!Missed(s)'
             a == Ahead(s)
             a2 == Ahead(s)'
             c == stop[s]
             d == stop'[s]
  <1>4. m \in SUBSET Local!Tasks /\ m2 \in SUBSET m /\ t \notin m
    BY <1>1, <1>3 DEF Local!Missed, Local!Over, StopInv, LocalInv
  <1>5. d.same = c.same \/ m2 = {}
    <2>1. CASE list' = <<>>
      <3>1. \A u \in Local!Tasks : lState'[u] # "running"
        BY <2>1 DEF LocalInv, Has, Listed, Local!Live, Local!Over
      <3> QED
        BY <1>3, <3>1 DEF Local!Missed
    <2>2. CASE list' # <<>>
      BY <1>2, <1>3, <2>2 DEF Calls
    <2> QED
      BY <2>1, <2>2
  <1>6. list \in Seq(Local!Tasks) /\ Has(list, t) /\ Distinct(list)
    BY <1>1 DEF StopInv, LocalInv, Listed
  <1>7. PICK n \in 1..Len(list) :
          /\ list[n] = t
          /\ list' \in Seq(Local!Tasks) /\ Len(list') = Len(list) - 1
          /\ \A j \in 1..(Len(list) - 1) :
               (j < n => list'[j] = list[j]) /\ (j >= n => list'[j] = list[j + 1])
    BY <1>1, <1>6, WithoutFacts
  <1>8. stop[s].pc = "idle" => ~Local!Passed(s, t)
    BY DEF Local!Passed
  <1>9. Counted(c, m, a) /\ c \in Calls /\ d \in Calls
    BY <1>2 DEF CallInv
  <1>10. Counted(d, m2, a2)
    <2>1. CASE n >= c.at
      <3>1. a \subseteq a2 \cup {t}
        <4> SUFFICES ASSUME NEW k \in c.at .. Len(list), list[k] # t PROVE list[k] \in a2
          BY DEF Ahead
        <4>1. k \in Nat /\ k # n /\ k <= Len(list)
          BY <1>3, <1>7
        <4>2. CASE k < n
          <5>1. k \in 1..(Len(list) - 1) /\ k \in d.at .. Len(list')
            BY <1>3, <1>7, <4>1, <4>2
          <5> QED
            BY <1>7, <4>2, <5>1 DEF Ahead
        <4>3. CASE k > n
          <5>1. k - 1 \in 1..(Len(list) - 1) /\ k - 1 \in d.at .. Len(list') /\ k - 1 >= n /\ (k - 1) + 1 = k
            BY <1>3, <1>7, <2>1, <4>1, <4>3
          <5>2. list'[k - 1] = list[k]
            BY <1>7, <5>1
          <5> QED
            BY <5>1, <5>2 DEF Ahead
        <4> QED
          BY <4>1, <4>2, <4>3
      <3>2. ~Local!Passed(s, t)
        BY <1>3, <1>6, <1>7, <2>1 DEF Local!Passed, Distinct
      <3>3. m2 \ a2 \subseteq m \ a /\ d.pc = c.pc /\ d.moved = c.moved
        BY <1>3, <1>4, <3>1, <3>2
      <3> HIDE DEF m, m2, a, a2, c, d
      <3> QED
        BY <1>4, <1>5, <1>9, <3>3, CountedShrinks
    <2>2. CASE n < c.at
      <3>1. a \subseteq a2 \cup {list[c.at]}
        <4> SUFFICES ASSUME NEW k \in c.at .. Len(list), k # c.at PROVE list[k] \in a2
          BY DEF Ahead
        <4>1. /\ k - 1 \in 1..(Len(list) - 1) /\ k - 1 \in d.at .. Len(list')
              /\ k - 1 >= n /\ (k - 1) + 1 = k
          BY <1>3, <1>7, <2>2
        <4>2. list'[k - 1] = list[k]
          BY <1>7, <4>1
        <4> QED
          BY <4>1, <4>2 DEF Ahead
      <3>2. CASE Local!Passed(s, t)
        <4>1. c.pc = "await" /\ d.pc = "await" /\ d.moved = c.moved + 1
          BY <1>3, <3>2 DEF Local!Passed
        <4>2. m2 \ a2 \subseteq (m \ a) \cup {list[c.at]}
          BY <1>4, <3>1
        <4> DEFINE x == list[c.at]
        <4>3. m2 \ a2 \subseteq (m \ a) \cup {x}
          BY <4>2
        <4> HIDE DEF m, m2, a, a2, c, d, x
        <4> QED
          BY <1>4, <1>5, <1>9, <4>1, <4>3, CountedMoves
      <3>3. CASE ~Local!Passed(s, t)
        <4>1. d.pc = c.pc /\ d.moved = c.moved /\ (c.pc = "await" => ~c.same)
          BY <1>3, <1>6, <1>7, <2>2, <3>3 DEF Local!Passed
        <4>2. CASE c.pc = "await"
          <5>1. m = {}
            BY <1>9, <4>1, <4>2 DEF Counted
          <5>2. m2 \ a2 \subseteq m \ a
            BY <1>4, <5>1
          <5> HIDE DEF m, m2, a, a2, c, d
          <5> QED
            BY <1>4, <1>5, <1>9, <4>1, <5>2, CountedShrinks
        <4>3. CASE c.pc # "await"
          <5>1. c.pc # "next"
            BY <1>1
          <5>2. Cardinality(m2) \in Nat /\ Cardinality(m) \in Nat /\ Cardinality(m2) <= Cardinality(m)
            <6> HIDE DEF m, m2, a, a2, c, d
            <6> QED
              BY <1>4, TaskSets
          <5>3. c.moved \in Nat
            BY <1>2 DEF Calls
          <5> HIDE DEF m, m2, a, a2, c, d
          <5> QED
            BY <1>9, <4>1, <4>3, <5>1, <5>2, <5>3 DEF Counted
        <4> QED
          BY <4>2, <4>3
      <3> QED
        BY <3>2, <3>3
    <2> QED
      BY <1>3, <1>7, <2>1, <2>2
  <1> QED
    BY <1>1, <1>2, <1>3, <1>8, <1>10 DEF CallInv, StopInv, LocalInv

\* stop_item_tasks starts with everything that runs still ahead.
LEMMA CallStarts ==
  ASSUME Local!LocalAssumption, StopInv, NEW s \in Stoppers, Local!StopItemTasks(s)
  PROVE  CallInv(s)'
  <1>1. /\ UNCHANGED <<lState, list>> /\ stop[s].pc = "idle"
        /\ stop' = [stop EXCEPT ![s].pc = IF list = <<>> THEN "stopped" ELSE "next",
                               ![s].same = TRUE,
                               ![s].asked = {t \in Local!Tasks : lState[t] \in Local!Live}]
    BY DEF Local!StopItemTasks
  <1>2. stop \in [Stoppers -> Calls] /\ stop[s].at = 1 /\ stop[s].moved = 0
    BY <1>1 DEF StopInv, CallInv
  <1>3. /\ stop'[s].pc = (IF list = <<>> THEN "stopped" ELSE "next") /\ stop'[s].same = TRUE
        /\ stop'[s].asked = {t \in Local!Tasks : lState[t] \in Local!Live}
        /\ stop'[s].at = 1 /\ stop'[s].moved = 0 /\ stop'[s].cur = {}
    BY <1>1, <1>2 DEF Calls, StopInv, CallInv
  <1>4. \A t \in Local!Tasks : lState[t] = "running" => Has(list, t)
    BY DEF StopInv, LocalInv, Listed, Local!Live
  <1>5. \A t \in Local!Missed(s)' : Has(list, t)
    BY <1>1, <1>3, <1>4 DEF Local!Missed
  <1>6. Local!Missed(s)' \ Ahead(s)' = {} /\ (list = <<>> => Local!Missed(s)' = {})
    <2>1. Ahead(s)' = {list[k] : k \in 1..Len(list)}
      BY <1>1, <1>3 DEF Ahead
    <2>2. \A t : Has(list, t) => t \in Ahead(s)'
      BY <2>1 DEF Has
    <2>3. list = <<>> => \A t : ~Has(list, t)
      BY DEF Has
    <2> QED
      BY <1>5, <2>2, <2>3
  <1>7. Counted(stop'[s], Local!Missed(s)', Ahead(s)')
    <2> DEFINE m2 == Local!Missed(s)'
               a2 == Ahead(s)'
               d == stop'[s]
    <2>1. /\ m2 \ a2 = {} /\ (d.pc = "stopped" => m2 = {})
          /\ d.pc \in {"stopped", "next"} /\ d.same /\ d.moved = 0
      BY <1>3, <1>6
    <2> HIDE DEF m2, a2, d
    <2>2. Counted(d, m2, a2)
      BY <2>1, FS_EmptySet DEF Counted
    <2> QED
      BY <2>2 DEF m2, a2, d
  <1> QED
    BY <1>1, <1>3, <1>7 DEF CallInv, Local!Live

\* The loop passes a task only after it has cancelled it.
LEMMA CallPasses ==
  ASSUME Local!LocalAssumption, StopInv, stop' \in [Stoppers -> Calls],
         NEW s \in Stoppers, Local!StopTask(s)
  PROVE  CallInv(s)'
  <1> DEFINE t == list[stop[s].at]
  <1>1. /\ stop \in [Stoppers -> Calls] /\ CallInv(s) /\ list' = list
        /\ stop[s].pc = "next" /\ stop[s].at \in 1..Len(list) /\ stop[s].same
    BY DEF StopInv, Local!StopTask, Local!Exhausted, Calls, LocalInv
  <1>2. CASE t \notin tasks
    <2>1. stop' = [stop EXCEPT ![s].pc = "failed"] /\ lState' = lState
      BY <1>2 DEF Local!StopTask
    <2>2. stop'[s].pc = "failed" /\ stop'[s].asked = stop[s].asked /\ stop'[s].cur = {}
      BY <1>1, <2>1 DEF Calls, CallInv
    <2> QED
      BY <1>1, <2>1, <2>2 DEF CallInv, Counted
  <1>3. CASE t \in tasks
    <2>1. /\ stop' = [stop EXCEPT ![s].pc = Local!After(t), ![s].at = @ + 1,
                                 ![s].cur = IF Local!After(t) = "await" THEN {t} ELSE {}]
          /\ lState' = [lState EXCEPT ![t] = IF lState[t] = "running" THEN "cancelling" ELSE lState[t]]
      BY <1>3 DEF Local!StopTask
    <2>2. t \in Local!Tasks /\ lState \in [Local!Tasks -> {"none", "cleaned"} \cup Listed] /\ list \in Seq(Local!Tasks)
      BY <1>1 DEF StopInv, LocalInv
    <2>3. /\ stop'[s].pc = Local!After(t) /\ stop'[s].at = stop[s].at + 1
          /\ stop'[s].asked = stop[s].asked /\ stop'[s].moved = stop[s].moved
          /\ stop'[s].same = stop[s].same
          /\ stop'[s].cur # {} => Local!After(t) = "await"
      BY <1>1, <2>1 DEF Calls
    <2>4. Local!After(t) \in {"next", "await", "failed"}
      BY DEF Local!After
    <2> DEFINE m == Local!Missed(s)
               m2 == Local!Missed(s)'
               a == Ahead(s)
               a2 == Ahead(s)'
               c == stop[s]
               d == stop'[s]
    <2>5. m \in SUBSET Local!Tasks /\ m2 \in SUBSET m /\ t \notin m2
      <3>1. stop[s].asked \subseteq Local!Tasks
        BY <1>1 DEF Calls
      <3> QED
        BY <2>1, <2>2, <2>3, <3>1 DEF Local!Missed
    <2>6. a \subseteq a2 \cup {t}
      <3> SUFFICES ASSUME NEW k \in stop[s].at .. Len(list), k # stop[s].at PROVE list[k] \in a2
        BY DEF Ahead
      <3>1. k \in stop'[s].at .. Len(list')
        BY <1>1, <2>3
      <3> QED
        BY <1>1, <3>1 DEF Ahead
    <2>7. m2 \ a2 \subseteq m \ a
      BY <2>5, <2>6
    <2>8. Cardinality(m \ a) <= c.moved
      BY <1>1 DEF CallInv, Counted
    <2>9. Cardinality(m2 \ a2) <= d.moved
      <3> DEFINE p == m \ a
                 p2 == m2 \ a2
      <3>1. p \in SUBSET Local!Tasks /\ p2 \in SUBSET p /\ Cardinality(p) <= c.moved
        BY <2>5, <2>7, <2>8
      <3>2. c.moved \in Nat /\ d.moved = c.moved
        BY <1>1, <2>3 DEF Calls
      <3> HIDE DEF p, p2, c, d
      <3>3. Cardinality(p2) \in Nat /\ Cardinality(p) \in Nat /\ Cardinality(p2) <= Cardinality(p)
        BY <3>1, TaskSets
      <3>4. Cardinality(p2) <= d.moved
        BY <3>1, <3>2, <3>3
      <3> QED
        BY <3>4 DEF p2
    <2>10. Counted(d, m2, a2)
      BY <1>1, <2>3, <2>4, <2>9 DEF Counted
    <2>11. \A u \in d.asked : lState'[u] # "none"
      <3>1. \A u \in c.asked : u \in Local!Tasks /\ lState[u] # "none"
        BY <1>1 DEF CallInv, Calls
      <3> QED
        BY <2>1, <2>2, <2>3, <3>1
    <2>12. d.pc # "idle"
      BY <2>3, <2>4
    <2> QED
      BY <2>3, <2>10, <2>11, <2>12 DEF CallInv
  <1> QED
    BY <1>2, <1>3

\* The end of the loop, and the end of an await.
LEMMA CallGoesOn ==
  ASSUME Local!LocalAssumption, StopInv, NEW s \in Stoppers,
         Local!StopAll(s) \/ Local!StopAwaited(s)
  PROVE  CallInv(s)'
  <1>1. stop \in [Stoppers -> Calls] /\ CallInv(s)
    BY DEF StopInv
  <1>2. CASE Local!StopAll(s)
    <2>1. /\ stop[s].pc = "next" /\ (~stop[s].same \/ stop[s].at > Len(list))
          /\ stop' = [stop EXCEPT ![s].pc = "stopped"] /\ UNCHANGED <<lState, list>>
      BY <1>2 DEF Local!StopAll, Local!Exhausted
    <2>2. /\ stop[s].pc = "next"
          /\ stop'[s].pc = "stopped" /\ stop'[s].asked = stop[s].asked /\ stop'[s].cur = {}
          /\ stop'[s].moved = stop[s].moved /\ stop[s].moved \in Nat /\ stop[s].at \in Nat
      BY <1>1, <1>2, <2>1 DEF Calls, CallInv, Local!StopAll
    <2>3. Local!Missed(s)' = Local!Missed(s)
      BY <2>1, <2>2 DEF Local!Missed
    <2>4. Cardinality(Local!Missed(s)) <= stop[s].moved
      <3>1. CASE ~stop[s].same
        <4>1. Local!Missed(s) = {}
          BY <1>1, <2>2, <3>1 DEF CallInv, Counted
        <4> QED
          BY <2>2, <4>1, FS_EmptySet
      <3>2. CASE stop[s].same
        <4>1. stop[s].at > Len(list) /\ Len(list) \in Nat
          BY <1>2, <3>2 DEF Local!StopAll, Local!Exhausted, StopInv, LocalInv
        <4>2. Ahead(s) = {}
          BY <2>2, <4>1 DEF Ahead
        <4>3. Local!Missed(s) \ Ahead(s) = Local!Missed(s)
          BY <4>2
        <4> QED
          BY <1>1, <2>2, <4>3 DEF CallInv, Counted
      <3> QED
        BY <3>1, <3>2
    <2>5. Counted(stop'[s], Local!Missed(s)', Ahead(s)')
      BY <2>2, <2>3, <2>4 DEF Counted
    <2> QED
      BY <1>1, <2>1, <2>2, <2>5 DEF CallInv
  <1>3. CASE Local!StopAwaited(s)
    <2>1. PICK t \in stop[s].cur :
            /\ stop' = [stop EXCEPT ![s].pc = Local!After(t), ![s].cur = {}]
            /\ lState[t] \in Local!Over /\ UNCHANGED <<lState, list>>
      BY <1>3 DEF Local!StopAwaited
    <2>2. Local!After(t) \in {"next", "failed"}
      BY <2>1 DEF Local!After, Local!Over
    <2>3. /\ stop'[s].pc = Local!After(t) /\ stop'[s].asked = stop[s].asked
          /\ stop'[s].at = stop[s].at /\ stop'[s].same = stop[s].same
          /\ stop'[s].moved = stop[s].moved /\ stop'[s].cur = {}
      BY <1>1, <2>1 DEF Calls
    <2>4. Local!Missed(s)' = Local!Missed(s) /\ Ahead(s)' = Ahead(s)
      BY <2>1, <2>3 DEF Local!Missed, Ahead
    <2>5. stop[s].pc = "await"
      BY <1>1 DEF CallInv
    <2>6. Counted(stop'[s], Local!Missed(s)', Ahead(s)')
      BY <1>1, <2>2, <2>3, <2>4, <2>5 DEF Counted, CallInv
    <2> QED
      BY <1>1, <2>1, <2>2, <2>3, <2>6 DEF CallInv
  <1> QED
    BY <1>2, <1>3

\* Every step keeps the records of the calls.
LEMMA StopTypes ==
  ASSUME StopInv, [Local!Next]_(Local!vars)
  PROVE  stop' \in [Stoppers -> Calls]
  <1> LocalInv /\ stop \in [Stoppers -> Calls]
    BY DEF StopInv
  <1>1. ASSUME NEW t \in Local!Tasks, Local!CreateTask(t) \/ Local!TaskEnds(t)
        PROVE  stop' \in [Stoppers -> Calls]
    BY <1>1 DEF Local!CreateTask, Local!TaskEnds
  <1>2. ASSUME NEW t \in Local!Tasks, Local!CleanupTask(t) PROVE stop' \in [Stoppers -> Calls]
    <2> DEFINE moved(s) == IF Local!Passed(s, t) THEN stop[s].moved + 1 ELSE stop[s].moved
               same(s) == stop[s].same /\ list' # <<>>
    <2>1. stop' = [s \in Stoppers |-> [stop[s] EXCEPT !.same = same(s), !.moved = moved(s)]]
      BY <1>2, Zenon DEF Local!CleanupTask
    <2>2. \A s \in Stoppers : same(s) \in BOOLEAN /\ moved(s) \in Nat
      BY DEF Calls
    <2> HIDE DEF same, moved
    <2> QED
      BY <2>1, <2>2 DEF Calls
  <1>3. ASSUME NEW s \in Stoppers, Local!StopItemTasks(s) PROVE stop' \in [Stoppers -> Calls]
    <2> DEFINE p == IF list = <<>> THEN "stopped" ELSE "next"
               live == {t \in Local!Tasks : lState[t] \in Local!Live}
    <2>1. stop' = [stop EXCEPT ![s].pc = p, ![s].same = TRUE, ![s].asked = live]
      BY <1>3 DEF Local!StopItemTasks
    <2>2. p \in {"stopped", "next"} /\ live \subseteq Local!Tasks
      OBVIOUS
    <2> HIDE DEF p, live
    <2> DEFINE d == [stop[s] EXCEPT !.pc = p, !.same = TRUE, !.asked = live]
    <2>3. d \in Calls
      BY <2>2 DEF Calls
    <2>4. stop' = [stop EXCEPT ![s] = d]
      BY <2>1
    <2> HIDE DEF d
    <2> QED
      BY <2>3, <2>4
  <1>4. ASSUME NEW s \in Stoppers, Local!StopTask(s) PROVE stop' \in [Stoppers -> Calls]
    <2> DEFINE t == list[stop[s].at]
    <2>1. t \in Local!Tasks
      BY <1>4 DEF Local!StopTask, Local!Exhausted, LocalInv, Calls
    <2>2. Local!After(t) \in {"next", "await", "failed"}
      BY DEF Local!After
    <2> QED
      BY <1>4, <2>1, <2>2 DEF Local!StopTask, Calls
  <1>5. ASSUME NEW s \in Stoppers, Local!StopAll(s) \/ Local!StopAwaited(s)
        PROVE  stop' \in [Stoppers -> Calls]
    <2>1. CASE Local!StopAll(s)
      BY <2>1 DEF Local!StopAll, Calls
    <2>2. CASE Local!StopAwaited(s)
      <3>1. PICK t : stop' = [stop EXCEPT ![s].pc = Local!After(t), ![s].cur = {}]
        BY <2>2 DEF Local!StopAwaited
      <3>2. Local!After(t) \in {"next", "await", "failed"}
        BY DEF Local!After
      <3> QED
        BY <3>1, <3>2 DEF Calls
    <2> QED
      BY <1>5, <2>1, <2>2
  <1>6. CASE UNCHANGED Local!vars
    BY <1>6 DEF Local!vars
  <1> QED
    BY <1>1, <1>2, <1>3, <1>4, <1>5, <1>6 DEF Local!Next, Local!StopStep

\* The invariant of StopsMissOnlyMoved is inductive.
LEMMA CallsStep == Local!LocalAssumption /\ StopInv /\ [Local!Next]_(Local!vars) => StopInv'
  <1> SUFFICES ASSUME Local!LocalAssumption, StopInv, [Local!Next]_(Local!vars) PROVE StopInv'
    OBVIOUS
  <1>1. LocalInv'
    BY LocalStep DEF StopInv
  <1>2. stop' \in [Stoppers -> Calls]
    BY StopTypes
  <1> SUFFICES ASSUME NEW s \in Stoppers PROVE CallInv(s)'
    BY <1>1, <1>2 DEF StopInv
  <1>3. LocalInv /\ stop \in [Stoppers -> Calls]
    BY DEF StopInv
  <1>4. ASSUME NEW t \in Local!Tasks, Local!CreateTask(t) PROVE CallInv(s)'
    <2>1. /\ lState[t] = "none" /\ lState' = [lState EXCEPT ![t] = "running"]
          /\ list' = Append(list, t) /\ stop' = stop
      BY <1>4 DEF Local!CreateTask
    <2>2. Len(list') = Len(list) + 1 /\ \A k \in 1..Len(list) : list'[k] = list[k]
      BY <1>3, <2>1 DEF LocalInv
    <2>3. Ahead(s) \subseteq Ahead(s)'
      <3>1. stop[s].at \in Nat \ {0} /\ Len(list) \in Nat
        BY <1>3 DEF Calls, LocalInv
      <3> QED
        BY <2>1, <2>2, <3>1 DEF Ahead
    <2> QED
      BY <1>3, <2>1, <2>3, CallsStay DEF LocalInv
  <1>5. ASSUME NEW t \in Local!Tasks, Local!TaskEnds(t) PROVE CallInv(s)'
    <2>1. PICK how \in Local!Over : lState' = [lState EXCEPT ![t] = how]
      BY <1>5 DEF Local!TaskEnds
    <2>2. UNCHANGED <<list, stop>>
      BY <1>5 DEF Local!TaskEnds
    <2>3. Ahead(s)' = Ahead(s)
      BY <2>2 DEF Ahead
    <2> QED
      BY <1>3, <2>1, <2>2, <2>3, CallsStay DEF LocalInv, Local!Over
  <1>6. ASSUME NEW q \in Stoppers, Local!StopItemTasks(q) \/ Local!StopStep(q) PROVE CallInv(s)'
    <2>1. CASE q = s
      BY <1>2, <1>6, <2>1, CallStarts, CallPasses, CallGoesOn DEF Local!StopStep
    <2>2. CASE q # s
      <3>1. list' = list /\ stop'[s] = stop[s]
        BY <1>3, <1>6, <2>2
           DEF Local!StopStep, Local!StopItemTasks, Local!StopTask, Local!StopAll, Local!StopAwaited
      <3>2. \/ lState' = lState
            \/ \E t : lState' = [lState EXCEPT ![t] = IF lState[t] = "running" THEN "cancelling" ELSE lState[t]]
        BY <1>6
           DEF Local!StopStep, Local!StopItemTasks, Local!StopTask, Local!StopAll, Local!StopAwaited
      <3>3. Ahead(s)' = Ahead(s)
        BY <3>1 DEF Ahead
      <3> QED
        BY <1>3, <3>1, <3>2, <3>3, CallsStay DEF LocalInv
    <2> QED
      BY <2>1, <2>2
  <1>7. CASE UNCHANGED Local!vars
    <2>1. UNCHANGED <<lState, list, stop>>
      BY <1>7 DEF Local!vars
    <2> QED
      BY <2>1, CallsStay DEF Ahead
  <1> QED
    BY <1>1, <1>2, <1>4, <1>5, <1>6, <1>7, CallCleanup DEF Local!Next

\* A call of stop_item_tasks that answers that all tasks were stopped has left running at
\* most one task for each cleanup of a task it had passed, for any number of tasks and
\* of calls: what it skips, it skips for that reason alone.
THEOREM StopsMissOnlyMoved == Local!LocalAssumption /\ Local!Spec => []MissesOnlyMoved
  <1> SUFFICES ASSUME Local!LocalAssumption PROVE Local!Spec => []MissesOnlyMoved
    OBVIOUS
  <1>1. Local!Init => StopInv
    <2> SUFFICES ASSUME Local!Init PROVE StopInv
      OBVIOUS
    <2>1. LocalInv
      BY LocalInit
    <2>2. stop = [s \in Stoppers |-> Local!IdleStop] /\ Local!IdleStop \in Calls
      BY DEF Local!Init, Local!IdleStop, Calls
    <2>3. \A s \in Stoppers : CallInv(s)
      BY <2>2 DEF CallInv, Counted, Local!IdleStop
    <2> QED
      BY <2>1, <2>2, <2>3 DEF StopInv
  <1>2. StopInv => MissesOnlyMoved
    BY SameCardinality DEF StopInv, CallInv, Counted, MissesOnlyMoved, Local!MissesOnlyMoved
  <1>3. StopInv /\ [Local!Next]_(Local!vars) => StopInv'
    BY CallsStep
  <1> QED
    BY <1>1, <1>2, <1>3, PTL DEF Local!Spec

-----------------------------------------------------------------------------
(* Sums *)

\* A set of numbers without a least one is empty.
LEMMA NoLeast ==
  ASSUME NEW S \in SUBSET Nat, \A n \in S : \E m \in S : m < n
  PROVE  S = {}
  <1> SUFFICES ASSUME S # {} PROVE FALSE
    OBVIOUS
  <1>1. PICK x \in S : \A y \in S : <<y, x>> \notin OpToRel(<, Nat)
    BY NatLessThanWellFounded, WFMin
  <1>2. \A y \in S : ~ (y < x)
    BY <1>1 DEF OpToRel
  <1> QED
    BY <1>2

\* What k adds to the sum of f over S.
Term(f, S, k) == IF k \in S THEN f[k] ELSE 0

\* What upTo is in Rate!Total.
SumsUp(g, f, S) ==
    g = [k \in Rate!Times |-> (IF k \in S THEN f[k] ELSE 0) + (IF k = 0 THEN 0 ELSE g[k - 1])]

\* g has the sums of f over S up to n.
SummedTo(g, f, S, n) ==
    /\ g \in [0..n -> Int] /\ g[0] = Term(f, S, 0)
    /\ \A k \in 1..n : g[k] = Term(f, S, k) + g[k - 1]

\* Numbers are added up.
Summable(f, S) == \A k \in S : f[k] \in Int

\* The recursive definition in Rate!Total has a solution.
LEMMA SumExists ==
  ASSUME MaxTime \in Nat, NEW f, NEW S, Summable(f, S)
  PROVE  \E g : SumsUp(g, f, S)
  <1> DEFINE bad == {n \in 0..MaxTime : ~ \E g : SummedTo(g, f, S, n)}
  <1>1. \A k : Term(f, S, k) \in Int
    BY DEF Term, Summable
  <1>2. ASSUME NEW n \in bad PROVE \E m \in bad : m < n
    <2>1. CASE n = 0
      <3> DEFINE g == [k \in 0..0 |-> Term(f, S, 0)]
      <3>1. SummedTo(g, f, S, 0)
        BY <1>1 DEF SummedTo
      <3> QED
        BY <2>1, <3>1
    <2>2. CASE n # 0
      <3>1. n - 1 \in 0..MaxTime /\ n \in 1..MaxTime
        BY <2>2
      <3>2. SUFFICES ASSUME NEW g, SummedTo(g, f, S, n - 1) PROVE \E h : SummedTo(h, f, S, n)
        BY <3>1
      <3> DEFINE h == [k \in 0..n |-> IF k <= n - 1 THEN g[k] ELSE Term(f, S, n) + g[n - 1]]
      <3>3. h \in [0..n -> Int] /\ h[0] = Term(f, S, 0)
        BY <1>1, <3>1, <3>2 DEF SummedTo
      <3>4. ASSUME NEW k \in 1..n PROVE h[k] = Term(f, S, k) + h[k - 1]
        <4>1. CASE k <= n - 1
          <5>1. k \in 1..(n - 1) /\ k - 1 <= n - 1 /\ k - 1 \in 0..n /\ k \in 0..n
            BY <3>1, <4>1
          <5>2. h[k] = g[k] /\ h[k - 1] = g[k - 1]
            BY <4>1, <5>1
          <5> QED
            BY <3>2, <5>1, <5>2 DEF SummedTo
        <4>2. CASE k = n
          <5>1. k - 1 <= n - 1 /\ k - 1 \in 0..n /\ k \in 0..n /\ ~(k <= n - 1)
            BY <3>1, <4>2
          <5>2. h[k - 1] = g[n - 1]
            BY <4>2, <5>1
          <5> QED
            BY <4>2, <5>1, <5>2
        <4> QED
          BY <3>1, <4>1, <4>2
      <3> HIDE DEF h
      <3>5. SummedTo(h, f, S, n)
        BY <3>3, <3>4 DEF SummedTo
      <3> QED
        BY <3>5
    <2> QED
      BY <2>1, <2>2
  <1>3. bad = {}
    <2>1. bad \in SUBSET Nat
      OBVIOUS
    <2> HIDE DEF bad
    <2> QED
      BY <1>2, <2>1, NoLeast
  <1>4. PICK g : SummedTo(g, f, S, MaxTime)
    BY <1>3
  <1>5. \A k \in 0..MaxTime : g[k] = (IF k \in S THEN f[k] ELSE 0) + (IF k = 0 THEN 0 ELSE g[k - 1])
    <2> SUFFICES ASSUME NEW k \in 0..MaxTime
                 PROVE  g[k] = (IF k \in S THEN f[k] ELSE 0) + (IF k = 0 THEN 0 ELSE g[k - 1])
      BY Zenon
    <2>1. CASE k = 0
      BY <1>1, <1>4, <2>1 DEF SummedTo, Term
    <2>2. CASE k # 0
      <3>1. k \in 1..MaxTime
        BY <2>2
      <3> QED
        BY <1>4, <2>2, <3>1 DEF SummedTo, Term
    <2> QED
      BY <2>1, <2>2
  <1>6. g = [k \in 0..MaxTime |-> g[k]]
    BY <1>4 DEF SummedTo
  <1>7. g = [k \in 0..MaxTime |-> (IF k \in S THEN f[k] ELSE 0) + (IF k = 0 THEN 0 ELSE g[k - 1])]
    BY <1>5, <1>6
  <1> QED
    BY <1>7 DEF SumsUp, Rate!Times

\* A sum is the last of the partial sums.
LEMMA TotalIs ==
  ASSUME MaxTime \in Nat, NEW f, NEW S, Summable(f, S)
  PROVE  \E g : SummedTo(g, f, S, MaxTime) /\ Rate!Total(f, S) = g[MaxTime]
  <1>1. PICK g : SumsUp(g, f, S) /\ Rate!Total(f, S) = g[MaxTime]
    <2>1. Rate!Total(f, S) = (CHOOSE g : SumsUp(g, f, S))[MaxTime]
      BY DEF Rate!Total, SumsUp
    <2>2. \E g : SumsUp(g, f, S)
      BY SumExists
    <2> HIDE DEF SumsUp
    <2> QED
      BY <2>1, <2>2
  <1>2. DOMAIN g = 0..MaxTime /\ g = [k \in 0..MaxTime |-> g[k]]
    BY <1>1 DEF SumsUp, Rate!Times
  <1>3. \A k \in 0..MaxTime : g[k] = Term(f, S, k) + (IF k = 0 THEN 0 ELSE g[k - 1])
    BY <1>1 DEF SumsUp, Rate!Times, Term
  <1>4. \A k : Term(f, S, k) \in Int
    BY DEF Term, Summable
  <1>5. g[0] = Term(f, S, 0)
    BY <1>3, <1>4
  <1>6. \A k \in 1..MaxTime : g[k] = Term(f, S, k) + g[k - 1]
    BY <1>3
  <1> DEFINE bad == {n \in 0..MaxTime : g[n] \notin Int}
  <1>7. ASSUME NEW n \in bad PROVE \E m \in bad : m < n
    <2>1. CASE n = 0
      BY <1>4, <1>5, <2>1
    <2>2. CASE n # 0
      <3>1. n \in 1..MaxTime /\ n - 1 \in 0..MaxTime /\ n - 1 < n
        BY <2>2
      <3>2. g[n] = Term(f, S, n) + g[n - 1]
        BY <1>6, <3>1
      <3>3. CASE g[n - 1] \in Int
        BY <1>4, <3>2, <3>3
      <3>4. CASE g[n - 1] \notin Int
        BY <3>1, <3>4
      <3> QED
        BY <3>3, <3>4
    <2> QED
      BY <2>1, <2>2
  <1>8. bad = {}
    <2>1. bad \in SUBSET Nat
      OBVIOUS
    <2> HIDE DEF bad
    <2> QED
      BY <1>7, <2>1, NoLeast
  <1>9. g \in [0..MaxTime -> Int]
    <2>1. \A n \in 0..MaxTime : g[n] \in Int
      BY <1>8
    <2> QED
      BY <1>2, <2>1
  <1> QED
    BY <1>1, <1>5, <1>6, <1>9 DEF SummedTo

\* A sum is a number, and grows with its terms.
LEMMA TotalGrows ==
  ASSUME MaxTime \in Nat, NEW f, NEW S, Summable(f, S), NEW h, NEW R, Summable(h, R),
         \A k \in Rate!Times : Term(f, S, k) <= Term(h, R, k)
  PROVE  Rate!Total(f, S) \in Int /\ Rate!Total(f, S) <= Rate!Total(h, R)
  <1>1. PICK a : SummedTo(a, f, S, MaxTime) /\ Rate!Total(f, S) = a[MaxTime]
    BY TotalIs
  <1>2. PICK b : SummedTo(b, h, R, MaxTime) /\ Rate!Total(h, R) = b[MaxTime]
    BY TotalIs
  <1>3. \A k : Term(f, S, k) \in Int /\ Term(h, R, k) \in Int
    BY DEF Term, Summable
  <1> DEFINE bad == {n \in 0..MaxTime : ~(a[n] <= b[n])}
  <1>4. ASSUME NEW n \in bad PROVE \E m \in bad : m < n
    <2>1. CASE n = 0
      BY <1>1, <1>2, <2>1 DEF SummedTo, Rate!Times
    <2>2. CASE n # 0
      <3>1. n \in 1..MaxTime /\ n - 1 \in 0..MaxTime /\ n - 1 < n /\ n \in Rate!Times
        BY <2>2 DEF Rate!Times
      <3>2. a[n] = Term(f, S, n) + a[n - 1] /\ b[n] = Term(h, R, n) + b[n - 1] /\ Term(f, S, n) <= Term(h, R, n)
        BY <1>1, <1>2, <3>1 DEF SummedTo
      <3>3. a[n - 1] \in Int /\ b[n - 1] \in Int
        BY <1>1, <1>2, <3>1 DEF SummedTo
      <3>4. ~(a[n - 1] <= b[n - 1])
        BY <1>3, <3>2, <3>3
      <3> QED
        BY <3>1, <3>4
    <2> QED
      BY <2>1, <2>2
  <1>5. bad = {}
    <2>1. bad \in SUBSET Nat
      OBVIOUS
    <2> HIDE DEF bad
    <2> QED
      BY <1>4, <2>1, NoLeast
  <1>6. MaxTime \in 0..MaxTime
    OBVIOUS
  <1>7. a[MaxTime] <= b[MaxTime]
    BY <1>5, <1>6
  <1> QED
    BY <1>1, <1>2, <1>6, <1>7 DEF SummedTo

\* If terms add up, sums do.
LEMMA TotalAdds ==
  ASSUME MaxTime \in Nat, NEW f, NEW S, Summable(f, S), NEW h, NEW R, Summable(h, R), NEW e, NEW Q, Summable(e, Q),
         \A k \in Rate!Times : Term(f, S, k) = Term(h, R, k) + Term(e, Q, k)
  PROVE  Rate!Total(f, S) = Rate!Total(h, R) + Rate!Total(e, Q)
  <1>1. PICK a : SummedTo(a, f, S, MaxTime) /\ Rate!Total(f, S) = a[MaxTime]
    BY TotalIs
  <1>2. PICK b : SummedTo(b, h, R, MaxTime) /\ Rate!Total(h, R) = b[MaxTime]
    BY TotalIs
  <1>3. PICK c : SummedTo(c, e, Q, MaxTime) /\ Rate!Total(e, Q) = c[MaxTime]
    BY TotalIs
  <1>4. \A k : Term(f, S, k) \in Int /\ Term(h, R, k) \in Int /\ Term(e, Q, k) \in Int
    BY DEF Term, Summable
  <1> DEFINE bad == {n \in 0..MaxTime : a[n] # b[n] + c[n]}
  <1>5. ASSUME NEW n \in bad PROVE \E m \in bad : m < n
    <2>1. CASE n = 0
      BY <1>1, <1>2, <1>3, <2>1 DEF SummedTo, Rate!Times
    <2>2. CASE n # 0
      <3>1. n \in 1..MaxTime /\ n - 1 \in 0..MaxTime /\ n - 1 < n /\ n \in Rate!Times
        BY <2>2 DEF Rate!Times
      <3>2. /\ a[n] = Term(f, S, n) + a[n - 1] /\ b[n] = Term(h, R, n) + b[n - 1] /\ c[n] = Term(e, Q, n) + c[n - 1]
            /\ Term(f, S, n) = Term(h, R, n) + Term(e, Q, n)
        BY <1>1, <1>2, <1>3, <3>1 DEF SummedTo
      <3>3. a[n - 1] \in Int /\ b[n - 1] \in Int /\ c[n - 1] \in Int
        BY <1>1, <1>2, <1>3, <3>1 DEF SummedTo
      <3>4. a[n - 1] # b[n - 1] + c[n - 1]
        BY <1>4, <3>2, <3>3
      <3> QED
        BY <3>1, <3>4
    <2> QED
      BY <2>1, <2>2
  <1>6. bad = {}
    <2>1. bad \in SUBSET Nat
      OBVIOUS
    <2> HIDE DEF bad
    <2> QED
      BY <1>5, <2>1, NoLeast
  <1>7. MaxTime \in 0..MaxTime
    OBVIOUS
  <1> QED
    BY <1>1, <1>2, <1>3, <1>6, <1>7

\* The sum over one element is its value.
LEMMA TotalOfOne ==
  ASSUME MaxTime \in Nat, NEW f, NEW x \in Rate!Times, f[x] \in Int
  PROVE  Rate!Total(f, {x}) = f[x]
  <1>1. Summable(f, {x})
    BY DEF Summable
  <1>2. PICK a : SummedTo(a, f, {x}, MaxTime) /\ Rate!Total(f, {x}) = a[MaxTime]
    BY <1>1, TotalIs
  <1> DEFINE bad == {n \in 0..MaxTime : a[n] # IF n < x THEN 0 ELSE f[x]}
  <1>3. ASSUME NEW n \in bad PROVE \E m \in bad : m < n
    <2>0. x \in 0..MaxTime
      BY DEF Rate!Times
    <2>1. CASE n = 0
      BY <1>2, <2>0, <2>1 DEF SummedTo, Term
    <2>2. CASE n # 0
      <3>1. n \in 1..MaxTime /\ n - 1 \in 0..MaxTime /\ n - 1 < n
        BY <2>2
      <3>2. a[n] = Term(f, {x}, n) + a[n - 1] /\ a[n - 1] \in Int
        BY <1>2, <3>1 DEF SummedTo
      <3>3. a[n - 1] # IF n - 1 < x THEN 0 ELSE f[x]
        <4>1. CASE n < x
          BY <2>0, <3>1, <3>2, <4>1 DEF Term
        <4>2. CASE n = x
          BY <2>0, <3>1, <3>2, <4>2 DEF Term
        <4>3. CASE n > x
          BY <2>0, <3>1, <3>2, <4>3 DEF Term
        <4> QED
          BY <2>0, <3>1, <4>1, <4>2, <4>3
      <3> QED
        BY <3>1, <3>3
    <2> QED
      BY <2>1, <2>2
  <1>4. bad = {}
    <2>1. bad \in SUBSET Nat
      OBVIOUS
    <2> HIDE DEF bad
    <2> QED
      BY <1>3, <2>1, NoLeast
  <1>5. MaxTime \in 0..MaxTime /\ ~(MaxTime < x)
    BY DEF Rate!Times
  <1>6. MaxTime \notin bad
    BY ONLY <1>4, Zenon
  <1>7. a[MaxTime] = IF MaxTime < x THEN 0 ELSE f[x]
    BY ONLY <1>5, <1>6
  <1> QED
    BY <1>2, <1>5, <1>7

\* The sum over nothing is zero.
LEMMA TotalOfNone ==
  ASSUME MaxTime \in Nat, NEW f
  PROVE  Rate!Total(f, {}) = 0
  <1>1. Summable(f, {}) /\ \A k : Term(f, {}, k) = 0
    BY DEF Summable, Term
  <1>2. Rate!Total(f, {}) = Rate!Total(f, {}) + Rate!Total(f, {})
    BY <1>1, TotalAdds
  <1>3. Rate!Total(f, {}) \in Int
    BY <1>1, TotalGrows
  <1>4. \A x \in Int : x = x + x => x = 0
    OBVIOUS
  <1> QED
    BY <1>2, <1>3, <1>4, Zenon

-----------------------------------------------------------------------------
(* Buckets *)

\* The seconds of bucket c.
InBucket(c) == {u \in Rate!Times : u \div BucketSize = c}

\* The seconds in the buckets from lo to below n.
InBuckets(lo, n) == {u \in Rate!Times : lo <= u \div BucketSize /\ u \div BucketSize < n}

\* Those buckets.
From(lo, n) == {c \in Rate!Buckets : lo <= c /\ c < n}

\* The sum of f in each bucket.
Grouped(f) == [c \in Rate!Buckets |-> Rate!Total(f, InBucket(c))]

Scale == MaxTime \in Nat /\ BucketSize \in Nat \ {0}

\* Each second is in one of the buckets, and there are no more buckets than seconds.
LEMMA BucketFacts ==
  ASSUME Scale
  PROVE  /\ Rate!Buckets \subseteq Rate!Times
         /\ \A u \in Rate!Times : /\ u \div BucketSize \in Rate!Buckets
                                /\ (u \div BucketSize) * BucketSize <= u
                                /\ u < (u \div BucketSize) * BucketSize + BucketSize
         /\ \A c \in Rate!Buckets : c * BucketSize <= MaxTime
  <1> USE DEF Scale
  <1>1. \A u \in Nat : /\ u \div BucketSize \in Nat
                       /\ (u \div BucketSize) * BucketSize <= u
                       /\ u < (u \div BucketSize) * BucketSize + BucketSize
    OBVIOUS
  <1>2. \A u, v \in Nat : u <= v => u \div BucketSize <= v \div BucketSize
    OBVIOUS
  <1>3. \A u \in Nat : u \div BucketSize <= u
    OBVIOUS
  <1>4. ASSUME NEW c \in Rate!Buckets PROVE c * BucketSize <= MaxTime /\ c \in Rate!Times
    <2>1. c \in Nat /\ c <= MaxTime \div BucketSize
      BY <1>1 DEF Rate!Buckets
    <2> DEFINE d == MaxTime \div BucketSize
    <2>2. d \in Nat /\ d * BucketSize <= MaxTime /\ d <= MaxTime
      BY <1>1, <1>3
    <2> HIDE DEF d
    <2>3. c * BucketSize <= d * BucketSize
      BY <2>1, <2>2 DEF d
    <2> QED
      BY <2>1, <2>2, <2>3 DEF d, Rate!Times
  <1>5. ASSUME NEW u \in Rate!Times PROVE u \div BucketSize \in Rate!Buckets
    BY <1>1, <1>2 DEF Rate!Times, Rate!Buckets
  <1>6. Rate!Times \subseteq Nat
    BY DEF Rate!Times
  <1> QED
    BY <1>1, <1>4, <1>5, <1>6

\* The sum over the seconds of some buckets is the sum over these buckets.
LEMMA SumByBucket ==
  ASSUME Scale, NEW f \in [Rate!Times -> Int], NEW lo \in Int, NEW n \in Nat
  PROVE  Rate!Total(f, InBuckets(lo, n)) = Rate!Total(Grouped(f), From(lo, n))
  <1>1. \A T \in SUBSET Rate!Times : Summable(f, T) /\ Rate!Total(f, T) \in Int
    <2> SUFFICES ASSUME NEW T \in SUBSET Rate!Times PROVE Summable(f, T) /\ Rate!Total(f, T) \in Int
      OBVIOUS
    <2>1. Summable(f, T)
      BY DEF Summable
    <2>2. \A k \in Rate!Times : Term(f, T, k) <= Term(f, T, k)
      BY DEF Term
    <2> QED
      BY <2>1, <2>2, TotalGrows DEF Scale
  <1>2. \A T \in SUBSET Rate!Buckets : Summable(Grouped(f), T)
    BY <1>1 DEF Summable, Grouped, InBucket
  <1> DEFINE bad == {m \in Nat : Rate!Total(f, InBuckets(lo, m)) # Rate!Total(Grouped(f), From(lo, m))}
  <1>3. ASSUME NEW m \in bad PROVE \E k \in bad : k < m
    <2>1. CASE m = 0
      <3>1. InBuckets(lo, 0) = {}
        BY BucketFacts DEF InBuckets, Rate!Buckets
      <3>2. From(lo, 0) = {}
        BY DEF From, Rate!Buckets
      <3> QED
        BY <2>1, <3>1, <3>2, TotalOfNone DEF Scale
    <2>2. CASE m # 0
      <3> DEFINE k == m - 1
      <3>1. k \in Nat /\ k < m /\ m = k + 1
        BY <2>2
      <3> HIDE DEF k
      <3>2. SUFFICES ASSUME Rate!Total(f, InBuckets(lo, k)) = Rate!Total(Grouped(f), From(lo, k))
                     PROVE  Rate!Total(f, InBuckets(lo, m)) = Rate!Total(Grouped(f), From(lo, m))
        BY <3>1
      <3>3. CASE ~(lo <= k /\ k \in Rate!Buckets)
        <4>1. InBuckets(lo, m) = InBuckets(lo, k)
          BY <3>1, <3>3, BucketFacts DEF InBuckets, Rate!Buckets
        <4>2. From(lo, m) = From(lo, k)
          BY <3>1, <3>3 DEF From, Rate!Buckets
        <4> QED
          BY <3>2, <4>1, <4>2
      <3>4. CASE lo <= k /\ k \in Rate!Buckets
        <4>1. Rate!Total(f, InBuckets(lo, m)) = Rate!Total(f, InBuckets(lo, k)) + Rate!Total(f, InBucket(k))
          <5>1. ASSUME NEW u \in Rate!Times
                PROVE  Term(f, InBuckets(lo, m), u) = Term(f, InBuckets(lo, k), u) + Term(f, InBucket(k), u)
            <6>1. u \div BucketSize \in Int /\ f[u] \in Int
              BY BucketFacts DEF Rate!Buckets
            <6> QED
              BY <3>1, <3>4, <6>1 DEF Term, InBuckets, InBucket
          <5>2. Summable(f, InBuckets(lo, m)) /\ Summable(f, InBuckets(lo, k)) /\ Summable(f, InBucket(k))
            BY <1>1 DEF InBuckets, InBucket
          <5> QED
            BY <5>1, <5>2, TotalAdds DEF Scale
        <4>2. Rate!Total(Grouped(f), From(lo, m)) = Rate!Total(Grouped(f), From(lo, k)) + Rate!Total(Grouped(f), {k})
          <5>1. ASSUME NEW c \in Rate!Times
                PROVE  Term(Grouped(f), From(lo, m), c) = Term(Grouped(f), From(lo, k), c) + Term(Grouped(f), {k}, c)
            <6>1. c \in Rate!Buckets => Grouped(f)[c] \in Int
              BY <1>1 DEF Grouped, InBucket
            <6>2. c \in Int
              BY DEF Rate!Times
            <6> QED
              BY <3>1, <3>4, <6>1, <6>2 DEF Term, From
          <5>2. Summable(Grouped(f), From(lo, m)) /\ Summable(Grouped(f), From(lo, k)) /\ Summable(Grouped(f), {k})
            <6>1. From(lo, m) \in SUBSET Rate!Buckets /\ From(lo, k) \in SUBSET Rate!Buckets /\ {k} \in SUBSET Rate!Buckets
              BY <3>4 DEF From
            <6> QED
              BY <1>2, <6>1
          <5> QED
            BY <5>1, <5>2, TotalAdds DEF Scale
        <4>3. Rate!Total(Grouped(f), {k}) = Rate!Total(f, InBucket(k))
          <5>1. Grouped(f)[k] = Rate!Total(f, InBucket(k)) /\ Grouped(f)[k] \in Int /\ k \in Rate!Times
            BY <1>1, <3>4, BucketFacts DEF Grouped, InBucket
          <5> QED
            BY <5>1, TotalOfOne DEF Scale
        <4> QED
          BY <3>2, <4>1, <4>2, <4>3
      <3> QED
        BY <3>3, <3>4
    <2> QED
      BY <2>1, <2>2
  <1>4. bad = {}
    <2>1. bad \in SUBSET Nat
      OBVIOUS
    <2> HIDE DEF bad
    <2> QED
      BY <1>3, <2>1, NoLeast
  <1> QED
    BY <1>4

-----------------------------------------------------------------------------
(* The rate limiter *)

\* Processes about to count in bucket c, and those that have.
Asking(ch, c) == {n \in Nodes : ch[n].at = "incr" /\ ch[n].bucket = c}
Counting(ch, c) == {n \in Nodes : ch[n].at \in {"expire", "count"} /\ ch[n].bucket = c}

RateTypes ==
    /\ now \in Rate!Times /\ faults \in Nat
    /\ redis \in [Rate!Buckets -> Nat] /\ dies \in [Rate!Buckets -> Nat]
    /\ memory \in [Nodes -> [Rate!Buckets -> Nat]]
    /\ check \in [Nodes -> [at : {"idle", "incr", "expire", "count", "memory"},
                            bucket : Rate!Buckets, came : Rate!Times]]
    /\ asked \in [Rate!Times -> Nat] /\ let \in [Rate!Times -> Nat]
    /\ refused \subseteq Rate!Times

\* A check is of the present second; later ones have nothing yet.
Present ==
    /\ \A n \in Nodes : check[n].at # "idle" => check[n].came = now /\ check[n].bucket = now \div BucketSize
    /\ \A u \in Rate!Times : u > now => asked[u] = 0 /\ let[u] = 0

\* Redis keeps a bucket for as long as a check may add it up.
Lives == \A c \in Rate!Buckets : (c + Rate!NumBuckets + 1) * BucketSize <= dies[c]

\* Redis and each process have counted no more than was asked.
CountsAsked ==
    /\ \A c \in Rate!Buckets : redis[c] + Cardinality(Asking(check, c)) <= Rate!Total(asked, InBucket(c))
    /\ \A n \in Nodes, c \in Rate!Buckets :
         memory[n][c] + (IF check[n].at # "idle" /\ check[n].bucket = c THEN 1 ELSE 0) <= Rate!Total(asked, InBucket(c))

\* As long as Redis answers, it has counted in the buckets of the window what was
\* let through and what is about to be.
CountsLet ==
    faults = 0 =>
        /\ \A n \in Nodes : check[n].at # "memory"
        /\ \A c \in Rate!Buckets : now \div BucketSize - Rate!NumBuckets <= c =>
             Rate!Total(let, InBucket(c)) + Cardinality(Counting(check, c)) <= redis[c]

RateInv == RateTypes /\ Present /\ Lives /\ CountsAsked /\ CountsLet /\ LimitIsKept

\* The facts of arithmetic the proofs need of the constants.
LEMMA RateFacts ==
  ASSUME Rate!RateAssumption
  PROVE  /\ Scale /\ Window \in Nat /\ Limit \in Nat /\ IsFiniteSet(Nodes)
         /\ Rate!NumBuckets \in Nat /\ Rate!NumBuckets * BucketSize = Window
  <1>1. Scale /\ Window \in Nat /\ Limit \in Nat /\ IsFiniteSet(Nodes) /\ BucketSize \in Nat \ {0} /\ Window % BucketSize = 0
    BY DEF Rate!RateAssumption, Scale, Rate!IsFiniteSet, IsFiniteSet
  <1>2. (Window \div BucketSize) \in Nat /\ (Window \div BucketSize) * BucketSize = Window
    BY ONLY <1>1
  <1> QED
    BY <1>1, <1>2, Zenon DEF Rate!NumBuckets

\* Sums of counts: numbers that grow with the set, as far as there is anything
\* to count.
LEMMA CountTotals ==
  ASSUME Scale, NEW f \in [Rate!Times -> Nat], NEW S \in SUBSET Rate!Times
  PROVE  /\ Rate!Total(f, S) \in Nat
         /\ \A T \in SUBSET Rate!Times : (\A u \in S : f[u] # 0 => u \in T) => Rate!Total(f, S) <= Rate!Total(f, T)
  <1>1. \A T \in SUBSET Rate!Times : Summable(f, T)
    BY DEF Summable
  <1>2. Rate!Total(f, S) \in Nat
    <2>1. Summable(f, {}) /\ \A k \in Rate!Times : Term(f, {}, k) <= Term(f, S, k)
      BY DEF Summable, Term
    <2>2. Rate!Total(f, {}) <= Rate!Total(f, S) /\ Rate!Total(f, {}) = 0
      BY <1>1, <2>1, TotalGrows, TotalOfNone DEF Scale
    <2>3. Rate!Total(f, S) \in Int
      <3>1. \A k \in Rate!Times : Term(f, S, k) <= Term(f, S, k)
        BY DEF Term
      <3> QED
        BY <1>1, <3>1, TotalGrows DEF Scale
    <2> QED
      BY <2>2, <2>3
  <1>3. ASSUME NEW T \in SUBSET Rate!Times, \A u \in S : f[u] # 0 => u \in T
        PROVE  Rate!Total(f, S) <= Rate!Total(f, T)
    <2>1. \A k \in Rate!Times : Term(f, S, k) <= Term(f, T, k)
      BY <1>3 DEF Term
    <2> QED
      BY <1>1, <2>1, TotalGrows DEF Scale
  <1> QED
    BY <1>2, <1>3

\* One more in a second is one more in the sum.
LEMMA BumpTotal ==
  ASSUME Scale, NEW f \in [Rate!Times -> Nat], NEW x \in Rate!Times, NEW S \in SUBSET Rate!Times
  PROVE  Rate!Total([f EXCEPT ![x] = @ + 1], S) = Rate!Total(f, S) + (IF x \in S THEN 1 ELSE 0)
  <1> DEFINE g == [f EXCEPT ![x] = @ + 1]
             e == [k \in Rate!Times |-> 1]
  <1>1. g \in [Rate!Times -> Nat] /\ g[x] = f[x] + 1 /\ \A k \in Rate!Times : k # x => g[k] = f[k]
    OBVIOUS
  <1>2. e[x] = 1
    OBVIOUS
  <1> HIDE DEF g, e
  <1>3. Summable(g, S) /\ Summable(f, S) /\ Summable(e, {x}) /\ Summable(e, {})
    BY <1>1, <1>2 DEF Summable
  <1>4. Rate!Total(e, {x}) = 1 /\ Rate!Total(e, {}) = 0
    BY <1>2, TotalOfOne, TotalOfNone DEF Scale
  <1>5. Rate!Total(f, S) \in Nat
    BY CountTotals
  <1>6. CASE x \in S
    <2> DEFINE one == {x}
    <2>1. \A k \in Rate!Times : Term(g, S, k) = Term(f, S, k) + Term(e, one, k)
      BY <1>1, <1>2, <1>6 DEF Term
    <2>2. Summable(e, one) /\ Rate!Total(e, one) = 1
      BY <1>3, <1>4
    <2> HIDE DEF one
    <2>3. Rate!Total(g, S) = Rate!Total(f, S) + Rate!Total(e, one)
      BY <1>3, <2>1, <2>2, TotalAdds DEF Scale
    <2> QED
      BY <1>6, <2>2, <2>3 DEF g
  <1>7. CASE x \notin S
    <2>1. \A k \in Rate!Times : Term(g, S, k) = Term(f, S, k) + Term(e, {}, k)
      BY <1>1, <1>7 DEF Term
    <2>2. Rate!Total(g, S) = Rate!Total(f, S) + Rate!Total(e, {})
      BY <1>3, <2>1, TotalAdds DEF Scale
    <2> QED
      BY <1>4, <1>7, <2>2 DEF g
  <1> QED
    BY <1>6, <1>7

\* Sets of processes that differ at most by n.
Beside(n, A, B) == A \subseteq Nodes /\ B \subseteq Nodes /\ A \ {n} = B \ {n}

\* How such sets are counted.
LEMMA CountMoves ==
  ASSUME IsFiniteSet(Nodes), NEW n \in Nodes, NEW A, NEW B, Beside(n, A, B)
  PROVE  /\ Cardinality(A) \in Nat /\ Cardinality(B) \in Nat
         /\ Cardinality(B) + (IF n \in A THEN 1 ELSE 0) = Cardinality(A) + (IF n \in B THEN 1 ELSE 0)
  <1> USE DEF Beside
  <1>1. IsFiniteSet(A) /\ IsFiniteSet(B)
    BY FS_Subset
  <1>2. Cardinality(A) \in Nat /\ Cardinality(B) \in Nat
    BY <1>1, FS_CardinalityType
  <1>3. \A S : IsFiniteSet(S) /\ n \in S => Cardinality(S \ {n}) = Cardinality(S) - 1
    BY FS_RemoveElement
  <1>4. CASE n \in A /\ n \in B
    <2>1. A = B
      BY <1>4
    <2> QED
      BY <1>2, <2>1
  <1>5. CASE n \notin A /\ n \notin B
    <2>1. A = B
      BY <1>5
    <2> QED
      BY <1>2, <2>1
  <1>6. CASE n \in A /\ n \notin B
    <2>1. B = A \ {n}
      BY <1>6
    <2> QED
      BY <1>1, <1>2, <1>3, <1>6, <2>1
  <1>7. CASE n \notin A /\ n \in B
    <2>1. A = B \ {n}
      BY <1>7
    <2> QED
      BY <1>1, <1>2, <1>3, <1>7, <2>1
  <1> QED
    BY <1>4, <1>5, <1>6, <1>7

\* Only process n goes from one step of its check to another.
OneMoves(n, ch, ch2) == \A m \in Nodes \ {n} : ch2[m] = ch[m]

\* Whether a process counts as about to count in bucket c, or as having counted.
Asks(x, c) == IF x.at = "incr" /\ x.bucket = c THEN 1 ELSE 0
Counts(x, c) == IF x.at \in {"expire", "count"} /\ x.bucket = c THEN 1 ELSE 0

\* The same of a step of the limiter in which n moves.
LEMMA ChecksMove ==
  ASSUME IsFiniteSet(Nodes), NEW n \in Nodes, OneMoves(n, check, check')
  PROVE  \A c \in Rate!Buckets :
           /\ Cardinality(Asking(check, c)) \in Nat /\ Cardinality(Asking(check', c)) \in Nat
           /\ Cardinality(Counting(check, c)) \in Nat /\ Cardinality(Counting(check', c)) \in Nat
           /\ Cardinality(Asking(check', c)) + Asks(check[n], c) = Cardinality(Asking(check, c)) + Asks(check'[n], c)
           /\ Cardinality(Counting(check', c)) + Counts(check[n], c) = Cardinality(Counting(check, c)) + Counts(check'[n], c)
  <1> SUFFICES ASSUME NEW c \in Rate!Buckets
               PROVE  /\ Cardinality(Asking(check, c)) \in Nat /\ Cardinality(Asking(check', c)) \in Nat
                      /\ Cardinality(Counting(check, c)) \in Nat /\ Cardinality(Counting(check', c)) \in Nat
                      /\ Cardinality(Asking(check', c)) + Asks(check[n], c) = Cardinality(Asking(check, c)) + Asks(check'[n], c)
                      /\ Cardinality(Counting(check', c)) + Counts(check[n], c) = Cardinality(Counting(check, c)) + Counts(check'[n], c)
    OBVIOUS
  <1>1. /\ Beside(n, Asking(check, c), Asking(check', c))
        /\ Asks(check[n], c) = (IF n \in Asking(check, c) THEN 1 ELSE 0)
        /\ Asks(check'[n], c) = (IF n \in Asking(check', c) THEN 1 ELSE 0)
    BY DEF Asking, Beside, OneMoves, Asks
  <1>2. /\ Beside(n, Counting(check, c), Counting(check', c))
        /\ Counts(check[n], c) = (IF n \in Counting(check, c) THEN 1 ELSE 0)
        /\ Counts(check'[n], c) = (IF n \in Counting(check', c) THEN 1 ELSE 0)
    BY DEF Counting, Beside, OneMoves, Counts
  <1> QED
    BY <1>1, <1>2, CountMoves

-----------------------------------------------------------------------------
\* A request arrives.
LEMMA AskKeeps ==
  ASSUME Rate!RateAssumption, RateInv, NEW n \in Nodes, Rate!Ask(n)
  PROVE  RateInv'
  <1> DEFINE b == now \div BucketSize
             r == [at |-> "incr", bucket |-> b, came |-> now]
             more == [asked EXCEPT ![now] = @ + 1]
  <1>1. Scale /\ IsFiniteSet(Nodes)
    BY RateFacts
  <1>2. /\ check[n].at = "idle" /\ check' = [check EXCEPT ![n] = r] /\ asked' = more
        /\ UNCHANGED <<now, redis, dies, memory, faults, let, refused>>
    BY DEF Rate!Ask, Rate!CurrentBucket
  <1>3. RateTypes
    BY DEF RateInv
  <1>4. b \in Rate!Buckets /\ now \in Rate!Times
    BY <1>1, <1>3, BucketFacts DEF RateTypes
  <1>5. r.at = "incr" /\ r.bucket = b /\ r.came = now
    OBVIOUS
  <1>6. \A c : now \in InBucket(c) <=> b = c
    BY <1>4 DEF InBucket
  <1>7. \A T \in SUBSET Rate!Times : /\ Rate!Total(more, T) = Rate!Total(asked, T) + (IF now \in T THEN 1 ELSE 0)
                                    /\ Rate!Total(asked, T) \in Nat
    BY <1>1, <1>3, <1>4, BumpTotal, CountTotals DEF RateTypes
  <1>8. RateTypes'
    BY <1>2, <1>3, <1>4 DEF RateTypes
  <1>9. check'[n] = r /\ OneMoves(n, check, check')
    BY <1>2, <1>3 DEF RateTypes, OneMoves
  <1>10. Present'
    <2>1. \A u \in Rate!Times : u > now => asked'[u] = 0 /\ let'[u] = 0
      BY <1>2, <1>3, <1>4 DEF RateInv, Present, RateTypes, Rate!Times
    <2>2. \A m \in Nodes : check'[m].at # "idle" => check'[m].came = now /\ check'[m].bucket = now \div BucketSize
      BY <1>5, <1>9 DEF RateInv, Present, OneMoves
    <2> QED
      BY <1>2, <2>1, <2>2 DEF Present
  <1> HIDE DEF r, more, b
  <1>11. Lives'
    BY <1>2 DEF RateInv, Lives
  <1>12. \A c \in Rate!Buckets : /\ InBucket(c) \in SUBSET Rate!Times
                                /\ Rate!Total(asked', InBucket(c)) = Rate!Total(asked, InBucket(c)) + (IF b = c THEN 1 ELSE 0)
                                /\ Rate!Total(asked, InBucket(c)) \in Nat
    <2>1. \A c \in Rate!Buckets : InBucket(c) \in SUBSET Rate!Times
      BY DEF InBucket
    <2> QED
      BY <1>2, <1>6, <1>7, <2>1
  <1>13. CountsAsked'
    <2>1. ASSUME NEW c \in Rate!Buckets
          PROVE  redis'[c] + Cardinality(Asking(check', c)) <= Rate!Total(asked', InBucket(c))
      <3>1. /\ Cardinality(Asking(check, c)) \in Nat /\ Cardinality(Asking(check', c)) \in Nat
            /\ Cardinality(Asking(check', c)) = Cardinality(Asking(check, c)) + (IF b = c THEN 1 ELSE 0)
        <4>1. Asks(check[n], c) = 0 /\ Asks(check'[n], c) = (IF b = c THEN 1 ELSE 0)
          BY <1>2, <1>5, <1>9 DEF Asks
        <4> QED
          BY <1>1, <1>9, <4>1, ChecksMove
      <3>2. redis[c] + Cardinality(Asking(check, c)) <= Rate!Total(asked, InBucket(c)) /\ redis[c] \in Nat
        BY <1>3 DEF RateInv, CountsAsked, RateTypes
      <3> QED
        BY <1>2, <1>12, <3>1, <3>2
    <2>2. ASSUME NEW m \in Nodes, NEW c \in Rate!Buckets
          PROVE  memory'[m][c] + (IF check'[m].at # "idle" /\ check'[m].bucket = c THEN 1 ELSE 0) <= Rate!Total(asked', InBucket(c))
      <3>1. /\ memory[m][c] + (IF check[m].at # "idle" /\ check[m].bucket = c THEN 1 ELSE 0) <= Rate!Total(asked, InBucket(c))
            /\ memory[m][c] \in Nat
        BY <1>3 DEF RateInv, CountsAsked, RateTypes
      <3>2. CASE m = n
        BY <1>2, <1>5, <1>9, <1>12, <3>1, <3>2
      <3>3. CASE m # n
        BY <1>2, <1>9, <1>12, <3>1, <3>3 DEF OneMoves
      <3> QED
        BY <3>2, <3>3
    <2> QED
      BY <2>1, <2>2 DEF CountsAsked, InBucket, Rate!Total
  <1>14. CountsLet'
    <2>1. ASSUME NEW c \in Rate!Buckets
          PROVE  Cardinality(Counting(check', c)) = Cardinality(Counting(check, c))
      <3>1. Counts(check[n], c) = 0 /\ Counts(check'[n], c) = 0
        BY <1>2, <1>5, <1>9 DEF Counts
      <3> QED
        BY <1>1, <1>9, <3>1, ChecksMove
    <2> QED
      BY <1>2, <1>5, <1>9, <2>1 DEF RateInv, CountsLet, OneMoves, InBucket, Rate!Total
  <1>15. LimitIsKept'
    <2>1. ASSUME NEW t \in refused PROVE Rate!Total(asked', Rate!Span(t, Window + BucketSize)) > Limit
      <3>1. Rate!Span(t, Window + BucketSize) \in SUBSET Rate!Times
        BY DEF Rate!Span
      <3>2. Rate!Total(asked, Rate!Span(t, Window + BucketSize)) > Limit
        BY DEF RateInv, LimitIsKept, Rate!LimitIsKept
      <3>3. Limit \in Nat
        BY RateFacts
      <3> HIDE DEF Rate!Span
      <3> QED
        BY <1>2, <1>7, <3>1, <3>2, <3>3
    <2> QED
      BY <1>2, <2>1 DEF RateInv, LimitIsKept, Rate!LimitIsKept, Rate!Span, Rate!Total
  <1> QED
    BY <1>8, <1>10, <1>11, <1>13, <1>14, <1>15 DEF RateInv
-----------------------------------------------------------------------------
\* Buckets compare as the seconds they begin with.
LEMMA Scaled ==
  ASSUME Scale, NEW c \in Int, NEW d \in Int
  PROVE  /\ c <= d => c * BucketSize <= d * BucketSize
         /\ c * BucketSize < d * BucketSize => c < d
         /\ (c + 1) * BucketSize = c * BucketSize + BucketSize
         /\ c * BucketSize \in Int
  <1>1. ASSUME NEW x \in Int, NEW y \in Int, x <= y PROVE x * BucketSize <= y * BucketSize
    BY <1>1 DEF Scale
  <1>2. c * BucketSize \in Int /\ d * BucketSize \in Int /\ (c + 1) * BucketSize = c * BucketSize + BucketSize
    BY DEF Scale
  <1>3. ASSUME c * BucketSize < d * BucketSize PROVE c < d
    BY <1>1, <1>2, <1>3
  <1> QED
    BY <1>1, <1>2, <1>3

\* Whatever lies in the window that ends at t and not after x, a second of it, lies
\* in the buckets a check in x adds up; what lies in these buckets and not after
\* x lies in the window and bucket that end at x.
LEMMA WindowOfBuckets ==
  ASSUME Rate!RateAssumption, NEW x \in Rate!Times, NEW u \in Rate!Times, u <= x
  PROVE  /\ u \div BucketSize <= x \div BucketSize
         /\ x - Window < u => x \div BucketSize - Rate!NumBuckets <= u \div BucketSize
         /\ x \div BucketSize - Rate!NumBuckets <= u \div BucketSize => x - (Window + BucketSize) < u
  <1> DEFINE b == x \div BucketSize
             d == u \div BucketSize
             q == Rate!NumBuckets
  <1>1. Scale /\ Window \in Nat /\ q \in Nat /\ q * BucketSize = Window /\ BucketSize \in Nat
    BY RateFacts DEF Scale
  <1>2. /\ b \in Nat /\ b * BucketSize <= x /\ x < b * BucketSize + BucketSize
        /\ d \in Nat /\ d * BucketSize <= u /\ u < d * BucketSize + BucketSize
        /\ x \in Nat /\ u \in Nat
    BY <1>1, BucketFacts DEF Rate!Buckets, Rate!Times
  <1> HIDE DEF b, d, q
  <1>3. (b - q) * BucketSize = b * BucketSize - Window
    <2>1. \A i, j, k \in Int : (i - j) * k = i * k - j * k
      OBVIOUS
    <2> QED
      BY <1>1, <1>2, <2>1
  <1>4. /\ b - q \in Int /\ d \in Int /\ d + 1 \in Int /\ b \in Int
        /\ (d + 1) * BucketSize = d * BucketSize + BucketSize
        /\ b * BucketSize \in Int /\ d * BucketSize \in Int
    BY <1>1, <1>2, Scaled
  <1>5. d <= b
    <2>1. b * BucketSize < (d + 1) * BucketSize \/ d * BucketSize < (b + 1) * BucketSize
      BY <1>1, <1>2, <1>4
    <2>2. d * BucketSize < (b + 1) * BucketSize
      <3>1. (b + 1) * BucketSize = b * BucketSize + BucketSize
        BY <1>1, <1>4, Scaled
      <3> QED
        BY <1>1, <1>2, <1>4, <3>1
    <2>3. d < b + 1
      BY <1>1, <1>4, <2>2, Scaled
    <2> QED
      BY <1>2, <2>3
  <1>6. ASSUME x - Window < u PROVE b - q <= d
    <2>1. (b - q) * BucketSize < (d + 1) * BucketSize
      BY <1>1, <1>2, <1>3, <1>4, <1>6
    <2>2. b - q < d + 1
      BY <1>1, <1>4, <2>1, Scaled
    <2> QED
      BY <1>1, <1>2, <2>2
  <1>7. ASSUME b - q <= d PROVE x - (Window + BucketSize) < u
    <2>1. (b - q) * BucketSize <= d * BucketSize
      BY <1>1, <1>4, <1>7, Scaled
    <2> QED
      BY <1>1, <1>2, <1>3, <1>4, <2>1
  <1> QED
    BY <1>5, <1>6, <1>7 DEF b, d, q

\* When the buckets of the window have counted all of f, no window that second x
\* is in holds more of f than they.
LEMMA LetUnderCount ==
  ASSUME Rate!RateAssumption, NEW f \in [Rate!Times -> Nat], NEW g \in [Rate!Buckets -> Nat], NEW x \in Rate!Times,
         \A u \in Rate!Times : u > x => f[u] = 0,
         \A c \in Rate!Buckets : x \div BucketSize - Rate!NumBuckets <= c => Rate!Total(f, InBucket(c)) <= g[c],
         NEW t \in Rate!Times, x \in Rate!Span(t, Window)
  PROVE  Rate!Total(f, Rate!Span(t, Window)) <= Rate!Total(g, Rate!Counted(x \div BucketSize))
  <1> DEFINE b == x \div BucketSize
             lo == b - Rate!NumBuckets
             S == Rate!Span(t, Window)
             U == InBuckets(lo, b + 1)
             C == From(lo, b + 1)
  <1>1. Scale /\ Window \in Nat /\ Rate!NumBuckets \in Nat
    BY RateFacts
  <1>2. b \in Rate!Buckets /\ b \in Nat /\ lo \in Int /\ Rate!Times \subseteq Nat /\ Rate!Buckets \subseteq Nat
    <2>1. b \in Rate!Buckets /\ Rate!Buckets \subseteq Rate!Times
      BY <1>1, BucketFacts
    <2>2. Rate!Times \subseteq Nat
      BY DEF Rate!Times
    <2> HIDE DEF b
    <2> QED
      BY <1>1, <2>1, <2>2
  <1>3. S \in SUBSET Rate!Times /\ U \in SUBSET Rate!Times /\ C \in SUBSET Rate!Buckets
    BY DEF Rate!Span, InBuckets, From
  <1>4. ASSUME NEW u \in S, f[u] # 0 PROVE u \in U
    <2>1. u \in Rate!Times /\ u <= x /\ x - Window < u
      BY <1>1, <1>2, <1>4 DEF Rate!Span
    <2>2. u \div BucketSize <= b /\ lo <= u \div BucketSize
      BY <2>1, WindowOfBuckets
    <2>3. u \div BucketSize \in Nat
      BY <1>1, <1>2, <2>1, BucketFacts
    <2> QED
      BY <1>2, <2>1, <2>2, <2>3 DEF InBuckets
  <1>5. C = Rate!Counted(b)
    <2> HIDE DEF b
    <2>1. \A c \in Rate!Buckets : c < b + 1 <=> c <= b
      BY <1>2
    <2> QED
      BY <2>1 DEF From, Rate!Counted
  <1>6. \A c \in C : Rate!Total(f, InBucket(c)) <= g[c] /\ g[c] \in Nat /\ Rate!Total(f, InBucket(c)) \in Nat
    <2>1. \A c \in Rate!Buckets : InBucket(c) \in SUBSET Rate!Times
      BY DEF InBucket
    <2>2. \A c \in C : c \in Rate!Buckets /\ lo <= c
      BY DEF From
    <2> QED
      BY <1>1, <2>1, <2>2, CountTotals
  <1>7. Rate!Total(f, U) = Rate!Total(Grouped(f), C)
    <2>1. b + 1 \in Nat
      BY <1>2
    <2> QED
      BY <1>1, <1>2, <2>1, SumByBucket
  <1> HIDE DEF S, U, C, lo, b
  <1>8. Rate!Total(f, S) <= Rate!Total(f, U) /\ Rate!Total(f, S) \in Nat /\ Rate!Total(f, U) \in Nat
    BY <1>1, <1>3, <1>4, CountTotals
  <1>9. Rate!Total(Grouped(f), C) <= Rate!Total(g, C) /\ Rate!Total(Grouped(f), C) \in Int
    <2>1. \A c \in C : Grouped(f)[c] = Rate!Total(f, InBucket(c))
      BY <1>3 DEF Grouped
    <2>2. Summable(Grouped(f), C) /\ Summable(g, C)
      BY <1>3, <1>6, <2>1 DEF Summable
    <2>3. \A k \in Rate!Times : Term(Grouped(f), C, k) <= Term(g, C, k)
      BY <1>6, <2>1 DEF Term
    <2> QED
      BY <1>1, <2>2, <2>3, TotalGrows DEF Scale
  <1>10. Rate!Total(g, C) \in Int
    <2>1. Summable(g, C) /\ \A k \in Rate!Times : Term(g, C, k) <= Term(g, C, k)
      BY <1>6 DEF Summable, Term
    <2> QED
      BY <1>1, <2>1, TotalGrows DEF Scale
  <1>11. Rate!Total(f, S) <= Rate!Total(g, C)
    BY <1>7, <1>8, <1>9, <1>10
  <1> QED
    BY <1>5, <1>11 DEF S, b

\* When no bucket has counted more than there is of f, the buckets from the
\* window's first on count no more than lies in the window and the bucket that
\* end at x.
LEMMA CountUnderAsked ==
  ASSUME Rate!RateAssumption, NEW f \in [Rate!Times -> Nat], NEW g \in [Rate!Buckets -> Nat], NEW x \in Rate!Times,
         \A u \in Rate!Times : u > x => f[u] = 0,
         \A c \in Rate!Buckets : g[c] <= Rate!Total(f, InBucket(c)),
         NEW D \in SUBSET Rate!Buckets,
         \A c \in D : g[c] # 0 => x \div BucketSize - Rate!NumBuckets <= c
  PROVE  Rate!Total(g, D) <= Rate!Total(f, Rate!Span(x, Window + BucketSize))
  <1> DEFINE b == x \div BucketSize
             lo == b - Rate!NumBuckets
             top == MaxTime + 1
             S == Rate!Span(x, Window + BucketSize)
             U == InBuckets(lo, top)
             C == From(lo, top)
  <1>1. Scale /\ Window \in Nat /\ Rate!NumBuckets \in Nat /\ top \in Nat
    BY RateFacts DEF Scale
  <1>2. b \in Rate!Buckets /\ b \in Nat /\ lo \in Int /\ Rate!Times \subseteq Nat /\ Rate!Buckets \subseteq Nat
    <2>1. b \in Rate!Buckets /\ Rate!Buckets \subseteq Rate!Times
      BY <1>1, BucketFacts
    <2>2. Rate!Times \subseteq Nat
      BY DEF Rate!Times
    <2> HIDE DEF b
    <2> QED
      BY <1>1, <2>1, <2>2
  <1>3. S \in SUBSET Rate!Times /\ U \in SUBSET Rate!Times /\ C \in SUBSET Rate!Buckets
    BY DEF Rate!Span, InBuckets, From
  <1>4. ASSUME NEW u \in U, f[u] # 0 PROVE u \in S
    <2>1. u \in Rate!Times /\ u <= x /\ lo <= u \div BucketSize
      BY <1>2, <1>4 DEF InBuckets
    <2>2. x - (Window + BucketSize) < u
      BY <2>1, WindowOfBuckets
    <2> QED
      BY <2>1, <2>2 DEF Rate!Span
  <1>5. \A c \in D : g[c] # 0 => c \in C
    <2>1. \A c \in Rate!Buckets : c < top
      <3>1. Rate!Buckets \subseteq Rate!Times
        BY <1>1, BucketFacts
      <3> QED
        BY <1>1, <3>1 DEF Rate!Times, Scale
    <2> QED
      BY <2>1 DEF From
  <1>6. \A c \in Rate!Buckets : Rate!Total(f, InBucket(c)) \in Nat
    <2>1. \A c \in Rate!Buckets : InBucket(c) \in SUBSET Rate!Times
      BY DEF InBucket
    <2> QED
      BY <1>1, <2>1, CountTotals
  <1>7. Rate!Total(f, U) = Rate!Total(Grouped(f), C)
    BY <1>1, <1>2, SumByBucket
  <1> HIDE DEF S, U, C, lo, b
  <1>8. Rate!Total(f, U) <= Rate!Total(f, S) /\ Rate!Total(f, S) \in Nat /\ Rate!Total(f, U) \in Nat
    BY <1>1, <1>3, <1>4, CountTotals
  <1>9. Rate!Total(g, D) <= Rate!Total(Grouped(f), C) /\ Rate!Total(g, D) \in Int
    <2>1. \A c \in Rate!Buckets : Grouped(f)[c] = Rate!Total(f, InBucket(c))
      BY DEF Grouped
    <2>2. Summable(Grouped(f), C) /\ Summable(g, D)
      BY <1>3, <1>6, <2>1 DEF Summable
    <2>3. \A k \in Rate!Times : Term(g, D, k) <= Term(Grouped(f), C, k)
      BY <1>3, <1>5, <1>6, <2>1 DEF Term
    <2> QED
      BY <1>1, <2>2, <2>3, TotalGrows DEF Scale
  <1> QED
    BY <1>7, <1>8, <1>9 DEF S
-----------------------------------------------------------------------------
\* A check that goes on to its next command stays in its second and its bucket.
LEMMA CheckGoesOn ==
  ASSUME Rate!RateAssumption, RateInv, NEW n \in Nodes, check[n].at # "idle",
         NEW s \in {"expire", "count", "memory"}, check' = [check EXCEPT ![n].at = s],
         UNCHANGED <<now, memory, asked, let, refused>>
  PROVE  /\ check' \in [Nodes -> [at : {"idle", "incr", "expire", "count", "memory"},
                                  bucket : Rate!Buckets, came : Rate!Times]]
         /\ OneMoves(n, check, check') /\ check'[n].at = s /\ check'[n].bucket = check[n].bucket
         /\ check[n].bucket \in Rate!Buckets /\ check[n].bucket = now \div BucketSize
         /\ Present'
         /\ \A m \in Nodes, c \in Rate!Buckets :
              memory'[m][c] + (IF check'[m].at # "idle" /\ check'[m].bucket = c THEN 1 ELSE 0) <= Rate!Total(asked', InBucket(c))
  <1>1. RateTypes /\ Present /\ CountsAsked
    BY DEF RateInv
  <1>2. check[n] \in [at : {"idle", "incr", "expire", "count", "memory"}, bucket : Rate!Buckets, came : Rate!Times]
    BY <1>1 DEF RateTypes
  <1>3. /\ check'[n] = [check[n] EXCEPT !.at = s]
        /\ OneMoves(n, check, check')
        /\ check' \in [Nodes -> [at : {"idle", "incr", "expire", "count", "memory"},
                                 bucket : Rate!Buckets, came : Rate!Times]]
    BY <1>1, <1>2 DEF RateTypes, OneMoves
  <1>4. check'[n].at = s /\ check'[n].bucket = check[n].bucket /\ check'[n].came = check[n].came
    BY <1>2, <1>3
  <1>5. check[n].bucket = now \div BucketSize /\ check[n].came = now /\ check[n].bucket \in Rate!Buckets
    BY <1>1, <1>2 DEF Present
  <1>6. \A m \in Nodes : /\ check'[m].at # "idle" <=> check[m].at # "idle"
                         /\ check'[m].bucket = check[m].bucket /\ check'[m].came = check[m].came
    BY <1>3, <1>4 DEF OneMoves
  <1>7. Present'
    BY <1>1, <1>6 DEF Present
  <1>8. \A m \in Nodes, c \in Rate!Buckets :
          memory'[m][c] + (IF check'[m].at # "idle" /\ check'[m].bucket = c THEN 1 ELSE 0) <= Rate!Total(asked', InBucket(c))
    <2> SUFFICES ASSUME NEW m \in Nodes, NEW c \in Rate!Buckets
                 PROVE  memory'[m][c] + (IF check'[m].at # "idle" /\ check'[m].bucket = c THEN 1 ELSE 0)
                          <= Rate!Total(asked', InBucket(c))
      OBVIOUS
    <2>1. memory[m][c] + (IF check[m].at # "idle" /\ check[m].bucket = c THEN 1 ELSE 0) <= Rate!Total(asked, InBucket(c))
      BY <1>1 DEF CountsAsked
    <2> QED
      BY <1>6, <2>1
  <1> QED
    BY <1>3, <1>4, <1>5, <1>7, <1>8

\* A process counts in its bucket.
LEMMA IncrKeeps ==
  ASSUME Rate!RateAssumption, RateInv, NEW n \in Nodes, Rate!Incr(n)
  PROVE  RateInv'
  <1> DEFINE b == check[n].bucket
             s == IF redis[b] = 0 THEN "expire" ELSE "count"
  <1>1. Scale /\ IsFiniteSet(Nodes)
    BY RateFacts
  <1>2. /\ check[n].at = "incr" /\ check' = [check EXCEPT ![n].at = s] /\ redis' = [redis EXCEPT ![b] = @ + 1]
        /\ UNCHANGED <<now, dies, memory, faults, asked, let, refused>>
    BY DEF Rate!Incr
  <1>3. RateTypes /\ Lives /\ CountsAsked /\ CountsLet /\ LimitIsKept
    BY DEF RateInv
  <1>4. s \in {"expire", "count"}
    OBVIOUS
  <1> HIDE DEF s
  <1>5. /\ check' \in [Nodes -> [at : {"idle", "incr", "expire", "count", "memory"},
                                 bucket : Rate!Buckets, came : Rate!Times]]
        /\ OneMoves(n, check, check') /\ check'[n].at = s /\ check'[n].bucket = b
        /\ b \in Rate!Buckets /\ Present'
        /\ \A m \in Nodes, c \in Rate!Buckets :
             memory'[m][c] + (IF check'[m].at # "idle" /\ check'[m].bucket = c THEN 1 ELSE 0) <= Rate!Total(asked', InBucket(c))
    BY <1>2, <1>4, CheckGoesOn
  <1> HIDE DEF b
  <1>6. \A c \in Rate!Buckets : redis'[c] = redis[c] + (IF b = c THEN 1 ELSE 0) /\ redis[c] \in Nat
    BY <1>2, <1>3, <1>5 DEF RateTypes
  <1>7. RateTypes'
    BY <1>2, <1>3, <1>5, <1>6 DEF RateTypes
  <1>8. \A c \in Rate!Buckets :
          /\ Cardinality(Asking(check, c)) \in Nat /\ Cardinality(Asking(check', c)) \in Nat
          /\ Cardinality(Counting(check, c)) \in Nat /\ Cardinality(Counting(check', c)) \in Nat
          /\ Cardinality(Asking(check', c)) + (IF b = c THEN 1 ELSE 0) = Cardinality(Asking(check, c))
          /\ Cardinality(Counting(check', c)) = Cardinality(Counting(check, c)) + (IF b = c THEN 1 ELSE 0)
    <2>1. \A c \in Rate!Buckets : /\ Asks(check[n], c) = (IF b = c THEN 1 ELSE 0) /\ Asks(check'[n], c) = 0
                                  /\ Counts(check[n], c) = 0 /\ Counts(check'[n], c) = (IF b = c THEN 1 ELSE 0)
      BY <1>2, <1>4, <1>5 DEF Asks, Counts, b
    <2> QED
      BY <1>1, <1>5, <2>1, ChecksMove
  <1>9. CountsAsked'
    <2>1. ASSUME NEW c \in Rate!Buckets
          PROVE  redis'[c] + Cardinality(Asking(check', c)) <= Rate!Total(asked', InBucket(c))
      <3>1. redis[c] + Cardinality(Asking(check, c)) <= Rate!Total(asked, InBucket(c)) /\ asked' = asked
        BY <1>2, <1>3 DEF CountsAsked
      <3>2. redis'[c] + Cardinality(Asking(check', c)) = redis[c] + Cardinality(Asking(check, c))
        BY <1>6, <1>8
      <3> QED
        BY <3>1, <3>2
    <2> QED
      BY <1>5, <2>1 DEF CountsAsked, InBucket, Rate!Total
  <1>10. CountsLet'
    <2> SUFFICES ASSUME faults = 0
                 PROVE  /\ \A m \in Nodes : check'[m].at # "memory"
                        /\ \A c \in Rate!Buckets : now \div BucketSize - Rate!NumBuckets <= c =>
                             Rate!Total(let, InBucket(c)) + Cardinality(Counting(check', c)) <= redis'[c]
      BY <1>2 DEF CountsLet
    <2>1. \A m \in Nodes : check'[m].at # "memory"
      BY <1>3, <1>4, <1>5 DEF CountsLet, OneMoves
    <2>2. ASSUME NEW c \in Rate!Buckets, now \div BucketSize - Rate!NumBuckets <= c
          PROVE  Rate!Total(let, InBucket(c)) + Cardinality(Counting(check', c)) <= redis'[c]
      <3>1. Rate!Total(let, InBucket(c)) + Cardinality(Counting(check, c)) <= redis[c]
        BY <1>3, <2>2 DEF CountsLet
      <3>2. Rate!Total(let, InBucket(c)) \in Nat
        <4>1. InBucket(c) \in SUBSET Rate!Times
          BY DEF InBucket
        <4> QED
          BY <1>1, <1>3, <4>1, CountTotals DEF RateTypes
      <3> QED
        BY <1>6, <1>8, <3>1, <3>2
    <2> QED
      BY <2>1, <2>2
  <1>11. Lives' /\ LimitIsKept'
    BY <1>2, <1>3 DEF Lives, LimitIsKept, Rate!LimitIsKept, Rate!Total, Rate!Span
  <1> QED
    BY <1>5, <1>7, <1>9, <1>10, <1>11 DEF RateInv

\* A process gives its bucket its life.
LEMMA ExpireKeeps ==
  ASSUME Rate!RateAssumption, RateInv, NEW n \in Nodes, Rate!Expire(n)
  PROVE  RateInv'
  <1> DEFINE b == check[n].bucket
             later == now + Window + BucketSize
  <1>1. /\ Scale /\ IsFiniteSet(Nodes) /\ Window \in Nat /\ BucketSize \in Nat
        /\ Rate!NumBuckets \in Nat /\ Rate!NumBuckets * BucketSize = Window
    BY RateFacts DEF Scale
  <1>2. /\ check[n].at = "expire" /\ check' = [check EXCEPT ![n].at = "count"]
        /\ dies' = [dies EXCEPT ![b] = IF redis[b] > 0 THEN later ELSE @]
        /\ UNCHANGED <<now, redis, memory, faults, asked, let, refused>>
    BY DEF Rate!Expire
  <1>3. RateTypes /\ Lives /\ CountsAsked /\ CountsLet /\ LimitIsKept
    BY DEF RateInv
  <1>4. /\ check' \in [Nodes -> [at : {"idle", "incr", "expire", "count", "memory"},
                                 bucket : Rate!Buckets, came : Rate!Times]]
        /\ OneMoves(n, check, check') /\ check'[n].at = "count" /\ check'[n].bucket = b
        /\ b \in Rate!Buckets /\ b = now \div BucketSize /\ Present'
        /\ \A m \in Nodes, c \in Rate!Buckets :
             memory'[m][c] + (IF check'[m].at # "idle" /\ check'[m].bucket = c THEN 1 ELSE 0) <= Rate!Total(asked', InBucket(c))
    BY <1>2, CheckGoesOn
  <1>5. now \in Rate!Times /\ b * BucketSize <= now /\ now \in Nat /\ b \in Nat /\ later \in Nat
    <2>1. now \in Rate!Times /\ Rate!Times \subseteq Nat
      BY <1>3 DEF RateTypes, Rate!Times
    <2>2. b * BucketSize <= now /\ b \in Rate!Times
      BY <1>1, <1>4, <2>1, BucketFacts
    <2> HIDE DEF b
    <2> QED
      BY <1>1, <2>1, <2>2
  <1> HIDE DEF b, later
  <1>6. Lives'
    <2>1. (b + Rate!NumBuckets + 1) * BucketSize <= later
      <3>1. \A i, j, k \in Nat : (i + j + 1) * k = i * k + j * k + k
        OBVIOUS
      <3>2. (b + Rate!NumBuckets + 1) * BucketSize = b * BucketSize + Window + BucketSize /\ b * BucketSize \in Nat
        BY <1>1, <1>5, <3>1
      <3> QED
        BY <1>1, <1>5, <3>2 DEF later
    <2>2. ASSUME NEW c \in Rate!Buckets PROVE (c + Rate!NumBuckets + 1) * BucketSize <= dies'[c]
      <3>1. (c + Rate!NumBuckets + 1) * BucketSize <= dies[c]
        BY <1>3 DEF Lives
      <3>2. dies'[c] = dies[c] \/ (c = b /\ dies'[c] = later)
        BY <1>2, <1>3 DEF RateTypes
      <3> QED
        BY <2>1, <3>1, <3>2
    <2> QED
      BY <2>2 DEF Lives, Rate!NumBuckets, Rate!Buckets
  <1>7. RateTypes'
    BY <1>2, <1>3, <1>4, <1>5 DEF RateTypes
  <1>8. \A c \in Rate!Buckets :
          /\ Cardinality(Asking(check', c)) = Cardinality(Asking(check, c))
          /\ Cardinality(Counting(check', c)) = Cardinality(Counting(check, c))
    <2>1. \A c \in Rate!Buckets : /\ Asks(check[n], c) = 0 /\ Asks(check'[n], c) = 0
                                  /\ Counts(check[n], c) = Counts(check'[n], c) /\ Counts(check[n], c) \in Nat
      BY <1>2, <1>4 DEF Asks, Counts, b
    <2> QED
      BY <1>1, <1>4, <2>1, ChecksMove
  <1>9. CountsAsked'
    <2>1. ASSUME NEW c \in Rate!Buckets
          PROVE  redis'[c] + Cardinality(Asking(check', c)) <= Rate!Total(asked', InBucket(c))
      BY <1>2, <1>3, <1>8 DEF CountsAsked
    <2> QED
      BY <1>4, <2>1 DEF CountsAsked, InBucket, Rate!Total
  <1>10. CountsLet'
    <2> SUFFICES ASSUME faults = 0
                 PROVE  /\ \A m \in Nodes : check'[m].at # "memory"
                        /\ \A c \in Rate!Buckets : now \div BucketSize - Rate!NumBuckets <= c =>
                             Rate!Total(let, InBucket(c)) + Cardinality(Counting(check', c)) <= redis'[c]
      BY <1>2 DEF CountsLet
    <2>1. \A m \in Nodes : check'[m].at # "memory"
      BY <1>3, <1>4 DEF CountsLet, OneMoves
    <2> QED
      BY <1>2, <1>3, <1>8, <2>1 DEF CountsLet
  <1>11. LimitIsKept'
    BY <1>2, <1>3 DEF LimitIsKept, Rate!LimitIsKept, Rate!Total, Rate!Span
  <1> QED
    BY <1>4, <1>6, <1>7, <1>9, <1>10, <1>11 DEF RateInv

\* A command fails, and the check starts again in memory.
LEMMA FailureKeeps ==
  ASSUME Rate!RateAssumption, RateInv, NEW n \in Nodes, Rate!RedisFails(n)
  PROVE  RateInv'
  <1>1. IsFiniteSet(Nodes)
    BY RateFacts
  <1>2. /\ check[n].at \in {"incr", "expire", "count"} /\ check' = [check EXCEPT ![n].at = "memory"]
        /\ faults' = faults + 1
        /\ UNCHANGED <<now, redis, dies, memory, asked, let, refused>>
    BY DEF Rate!RedisFails
  <1>3. RateTypes /\ Lives /\ CountsAsked /\ CountsLet /\ LimitIsKept
    BY DEF RateInv
  <1>4. /\ check' \in [Nodes -> [at : {"idle", "incr", "expire", "count", "memory"},
                                 bucket : Rate!Buckets, came : Rate!Times]]
        /\ OneMoves(n, check, check') /\ check'[n].at = "memory" /\ Present'
        /\ \A m \in Nodes, c \in Rate!Buckets :
             memory'[m][c] + (IF check'[m].at # "idle" /\ check'[m].bucket = c THEN 1 ELSE 0) <= Rate!Total(asked', InBucket(c))
    BY <1>2, CheckGoesOn
  <1>5. faults' \in Nat /\ faults' # 0
    BY <1>2, <1>3 DEF RateTypes
  <1>6. RateTypes'
    BY <1>2, <1>3, <1>4, <1>5 DEF RateTypes
  <1>7. CountsAsked'
    <2>1. ASSUME NEW c \in Rate!Buckets
          PROVE  redis'[c] + Cardinality(Asking(check', c)) <= Rate!Total(asked', InBucket(c))
      <3>1. /\ Cardinality(Asking(check', c)) \in Nat /\ Cardinality(Asking(check, c)) \in Nat
            /\ Cardinality(Asking(check', c)) <= Cardinality(Asking(check, c))
        <4>1. Asks(check'[n], c) = 0 /\ Asks(check[n], c) \in Nat
          BY <1>4 DEF Asks
        <4>2. /\ Cardinality(Asking(check', c)) \in Nat /\ Cardinality(Asking(check, c)) \in Nat
              /\ Cardinality(Asking(check', c)) + Asks(check[n], c) = Cardinality(Asking(check, c)) + Asks(check'[n], c)
          BY <1>1, <1>4, ChecksMove
        <4> QED
          BY <4>1, <4>2
      <3>2. redis[c] + Cardinality(Asking(check, c)) <= Rate!Total(asked, InBucket(c)) /\ redis[c] \in Nat
        BY <1>3 DEF CountsAsked, RateTypes
      <3>3. Rate!Total(asked, InBucket(c)) \in Nat
        <4>1. InBucket(c) \in SUBSET Rate!Times
          BY DEF InBucket
        <4> QED
          BY <1>3, <4>1, RateFacts, CountTotals DEF RateTypes
      <3> QED
        BY <1>2, <3>1, <3>2, <3>3
    <2> QED
      BY <1>4, <2>1 DEF CountsAsked, InBucket, Rate!Total
  <1>8. Lives' /\ CountsLet' /\ LimitIsKept'
    BY <1>2, <1>3, <1>5 DEF Lives, CountsLet, LimitIsKept, Rate!LimitIsKept, Rate!Total, Rate!Span
  <1> QED
    BY <1>4, <1>6, <1>7, <1>8 DEF RateInv

\* A check answers from a total that is more than the limit only after more than
\* the limit were asked, and that Redis gave when it has not failed.
LEMMA AnswerKeeps ==
  ASSUME Rate!RateAssumption, RateInv, NEW n \in Nodes, NEW total \in Int, check[n].at \in {"count", "memory"},
         Rate!Answer(n, total), UNCHANGED <<now, redis, dies, faults, asked>>,
         memory' \in [Nodes -> [Rate!Buckets -> Nat]],
         \A m \in Nodes, c \in Rate!Buckets :
           memory'[m][c] + (IF m # n /\ check[m].at # "idle" /\ check[m].bucket = c THEN 1 ELSE 0)
             <= Rate!Total(asked, InBucket(c)),
         total > Limit => Rate!Total(asked, Rate!Span(now, Window + BucketSize)) > Limit,
         faults = 0 => check[n].at = "count" /\ total = Rate!Total(redis, Rate!Counted(now \div BucketSize))
  PROVE  RateInv'
  <1> DEFINE b == now \div BucketSize
             more == [let EXCEPT ![now] = @ + 1]
             idle == Rate!Idle
  <1>1. Scale /\ IsFiniteSet(Nodes) /\ Limit \in Nat
    BY RateFacts
  <1>2. RateTypes /\ Present /\ Lives /\ CountsAsked /\ CountsLet /\ LimitIsKept
    BY DEF RateInv
  <1>3. /\ check[n].came = now /\ check[n].bucket = b /\ check[n].at # "incr" /\ check' = [check EXCEPT ![n] = idle]
        /\ now \in Rate!Times /\ b \in Rate!Buckets
    BY <1>1, <1>2, BucketFacts DEF Present, Rate!Answer, RateTypes
  <1>4. \/ total > Limit /\ refused' = refused \cup {now} /\ let' = let
        \/ total <= Limit /\ refused' = refused /\ let' = more
    BY <1>1, <1>3 DEF Rate!Answer
  <1>5. idle \in [at : {"idle", "incr", "expire", "count", "memory"}, bucket : Rate!Buckets, came : Rate!Times] /\ idle.at = "idle"
    <2>1. 0 \in Rate!Times /\ 0 \in Rate!Buckets
      <3>1. 0 \in Rate!Times
        BY <1>1 DEF Scale, Rate!Times
      <3>2. 0 \div BucketSize \in Rate!Buckets
        BY <1>1, <3>1, BucketFacts
      <3>3. 0 \div BucketSize = 0
        BY <1>1 DEF Scale
      <3> QED
        BY <3>1, <3>2, <3>3
    <2> QED
      BY <2>1 DEF Rate!Idle
  <1> HIDE DEF idle
  <1>6. check'[n].at = "idle" /\ OneMoves(n, check, check')
        /\ check' \in [Nodes -> [at : {"idle", "incr", "expire", "count", "memory"},
                                 bucket : Rate!Buckets, came : Rate!Times]]
    BY <1>2, <1>3, <1>5 DEF RateTypes, OneMoves
  <1>7. more \in [Rate!Times -> Nat] /\ \A u \in Rate!Times : u # now => more[u] = let[u]
    BY <1>2, <1>3 DEF RateTypes
  <1>8. \A T \in SUBSET Rate!Times : /\ Rate!Total(more, T) = Rate!Total(let, T) + (IF now \in T THEN 1 ELSE 0)
                                    /\ Rate!Total(let, T) \in Nat
    <2>1. let \in [Rate!Times -> Nat] /\ now \in Rate!Times
      BY <1>2, <1>3 DEF RateTypes
    <2>2. \A T \in SUBSET Rate!Times : Rate!Total(let, T) \in Nat
      BY <1>1, <2>1, CountTotals
    <2> QED
      BY <1>1, <2>1, <2>2, BumpTotal
  <1>9. \A c : now \in InBucket(c) <=> b = c
    BY <1>3 DEF InBucket
  <1> HIDE DEF more, b
  <1>10. RateTypes'
    BY <1>2, <1>3, <1>4, <1>6, <1>7 DEF RateTypes
  <1>11. Present'
    <2>1. \A u \in Rate!Times : u > now => asked'[u] = 0 /\ let'[u] = 0
      <3>1. \A u \in Rate!Times : u > now => u # now
        BY <1>3 DEF Rate!Times
      <3> QED
        BY <1>2, <1>4, <1>7, <3>1 DEF Present
    <2>2. \A m \in Nodes : check'[m].at # "idle" => check'[m].came = now /\ check'[m].bucket = now \div BucketSize
      BY <1>2, <1>6 DEF Present, OneMoves
    <2> QED
      BY <2>1, <2>2 DEF Present
  <1>12. Lives'
    BY <1>2 DEF Lives
  <1>13. \A c \in Rate!Buckets :
          /\ Cardinality(Asking(check', c)) = Cardinality(Asking(check, c))
          /\ Cardinality(Counting(check', c)) \in Nat /\ Cardinality(Counting(check, c)) \in Nat
          /\ Cardinality(Counting(check', c)) + (IF check[n].at = "count" /\ b = c THEN 1 ELSE 0)
               = Cardinality(Counting(check, c))
    <2>1. \A c \in Rate!Buckets : /\ Asks(check[n], c) = 0 /\ Asks(check'[n], c) = 0
                                  /\ Counts(check[n], c) = (IF check[n].at = "count" /\ b = c THEN 1 ELSE 0)
                                  /\ Counts(check'[n], c) = 0
      BY <1>3, <1>6 DEF Asks, Counts
    <2> QED
      BY <1>1, <1>6, <2>1, ChecksMove
  <1>14. CountsAsked'
    <2>1. \A c \in Rate!Buckets : redis'[c] + Cardinality(Asking(check', c)) <= Rate!Total(asked', InBucket(c))
      BY <1>2, <1>13 DEF CountsAsked
    <2>2. ASSUME NEW m \in Nodes, NEW c \in Rate!Buckets
          PROVE  memory'[m][c] + (IF check'[m].at # "idle" /\ check'[m].bucket = c THEN 1 ELSE 0) <= Rate!Total(asked', InBucket(c))
      <3>1. memory'[m][c] + (IF m # n /\ check[m].at # "idle" /\ check[m].bucket = c THEN 1 ELSE 0)
              <= Rate!Total(asked, InBucket(c))
        OBVIOUS
      <3>2. CASE m = n
        BY <1>6, <3>1, <3>2
      <3>3. CASE m # n
        BY <1>6, <3>1, <3>3 DEF OneMoves
      <3> QED
        BY <3>2, <3>3
    <2> QED
      BY <2>1, <2>2 DEF CountsAsked
  <1>15. ASSUME faults = 0, NEW c \in Rate!Buckets, b - Rate!NumBuckets <= c
         PROVE  Rate!Total(let', InBucket(c)) + Cardinality(Counting(check', c)) <= redis[c]
    <2>1. Rate!Total(let, InBucket(c)) + Cardinality(Counting(check, c)) <= redis[c] /\ redis[c] \in Nat
      BY <1>2, <1>15 DEF CountsLet, RateTypes, b
    <2>2. InBucket(c) \in SUBSET Rate!Times
      BY DEF InBucket
    <2>3. /\ Rate!Total(let, InBucket(c)) \in Nat
          /\ \/ Rate!Total(let', InBucket(c)) = Rate!Total(let, InBucket(c))
             \/ Rate!Total(let', InBucket(c)) = Rate!Total(let, InBucket(c)) + (IF b = c THEN 1 ELSE 0)
      BY <1>4, <1>8, <1>9, <2>2
    <2> QED
      BY <1>13, <1>15, <2>1, <2>3
  <1>16. CountsLet'
    <2>1. ASSUME faults = 0 PROVE \A m \in Nodes : check'[m].at # "memory"
      BY <1>2, <1>6, <2>1 DEF CountsLet, OneMoves
    <2> QED
      BY <1>15, <2>1 DEF CountsLet, b
  <1>17. ASSUME faults = 0, NEW t \in Rate!Times PROVE Rate!Total(let', Rate!Span(t, Window)) <= Limit
    <2>1. Rate!Span(t, Window) \in SUBSET Rate!Times
      BY DEF Rate!Span
    <2>2. Rate!Total(let, Rate!Span(t, Window)) <= Limit
      BY <1>2, <1>17 DEF LimitIsKept, Rate!LimitIsKept
    <2>3. CASE let' = let \/ now \notin Rate!Span(t, Window)
      <3> DEFINE S == Rate!Span(t, Window)
      <3>1. S \in SUBSET Rate!Times /\ Rate!Total(let, S) <= Limit /\ (let' = let \/ now \notin S)
        BY <2>1, <2>2, <2>3
      <3> HIDE DEF S
      <3>2. Rate!Total(let', S) = Rate!Total(let, S)
        BY <1>4, <1>8, <3>1
      <3>3. Rate!Total(let', S) <= Limit
        BY <3>1, <3>2
      <3> QED
        BY <3>3 DEF S
    <2>4. CASE total <= Limit /\ let' = more /\ now \in Rate!Span(t, Window)
      <3>1. \A u \in Rate!Times : u > now => more[u] = 0
        BY <1>11, <2>4 DEF Present
      <3>2. \A c \in Rate!Buckets : now \div BucketSize - Rate!NumBuckets <= c => Rate!Total(more, InBucket(c)) <= redis[c]
        <4> SUFFICES ASSUME NEW c \in Rate!Buckets, b - Rate!NumBuckets <= c
                     PROVE  Rate!Total(more, InBucket(c)) <= redis[c]
          BY DEF b
        <4>1. Rate!Total(more, InBucket(c)) + Cardinality(Counting(check', c)) <= redis[c]
          BY <1>15, <1>17, <2>4
        <4>2. InBucket(c) \in SUBSET Rate!Times
          BY DEF InBucket
        <4>3. Rate!Total(more, InBucket(c)) \in Nat /\ Cardinality(Counting(check', c)) \in Nat /\ redis[c] \in Nat
          BY <1>1, <1>2, <1>7, <1>13, <4>2, CountTotals DEF RateTypes
        <4> QED
          BY <4>1, <4>3
      <3>3. Rate!Total(more, Rate!Span(t, Window)) <= Rate!Total(redis, Rate!Counted(now \div BucketSize))
        BY <1>2, <1>3, <1>7, <2>4, <3>1, <3>2, LetUnderCount DEF RateTypes
      <3>4. total = Rate!Total(redis, Rate!Counted(now \div BucketSize))
        BY <1>17
      <3>5. Rate!Total(more, Rate!Span(t, Window)) \in Nat
        BY <1>1, <1>7, <2>1, CountTotals
      <3> QED
        BY <1>1, <2>4, <3>3, <3>4, <3>5
    <2> QED
      BY <1>4, <2>3, <2>4
  <1>18. ASSUME NEW t \in refused' PROVE Rate!Total(asked, Rate!Span(t, Window + BucketSize)) > Limit
    <2>1. CASE t \in refused
      BY <1>2, <2>1 DEF LimitIsKept, Rate!LimitIsKept
    <2>2. CASE t \notin refused
      BY <1>4, <1>18, <2>2
    <2> QED
      BY <2>1, <2>2
  <1>19. LimitIsKept'
    BY <1>17, <1>18 DEF LimitIsKept, Rate!LimitIsKept
  <1> QED
    BY <1>10, <1>11, <1>12, <1>14, <1>16, <1>19 DEF RateInv

\* Redis adds up the buckets of the window, and the check answers.
LEMMA CountKeeps ==
  ASSUME Rate!RateAssumption, RateInv, NEW n \in Nodes, Rate!Count(n)
  PROVE  RateInv'
  <1> DEFINE b == check[n].bucket
             D == Rate!Counted(b)
             total == Rate!Total(redis, D)
  <1>1. Scale /\ IsFiniteSet(Nodes)
    BY RateFacts
  <1>2. /\ check[n].at = "count" /\ Rate!Answer(n, total)
        /\ UNCHANGED <<now, redis, dies, memory, faults, asked>>
    BY DEF Rate!Count
  <1>3. RateTypes /\ Present /\ CountsAsked
    BY DEF RateInv
  <1>4. b = now \div BucketSize /\ now \in Rate!Times
    BY <1>2, <1>3 DEF Present, RateTypes
  <1>5. D \in SUBSET Rate!Buckets /\ \A c \in D : now \div BucketSize - Rate!NumBuckets <= c
    BY <1>4 DEF Rate!Counted
  <1>6. \A c \in Rate!Buckets : redis[c] <= Rate!Total(asked, InBucket(c))
    <2> SUFFICES ASSUME NEW c \in Rate!Buckets PROVE redis[c] <= Rate!Total(asked, InBucket(c))
      OBVIOUS
    <2>1. redis[c] + Cardinality(Asking(check, c)) <= Rate!Total(asked, InBucket(c)) /\ redis[c] \in Nat
      BY <1>3 DEF CountsAsked, RateTypes
    <2>2. InBucket(c) \in SUBSET Rate!Times /\ Beside(n, Asking(check, c), Asking(check, c))
      BY DEF InBucket, Asking, Beside
    <2>3. Rate!Total(asked, InBucket(c)) \in Nat /\ Cardinality(Asking(check, c)) \in Nat
      BY <1>1, <1>3, <2>2, CountTotals, CountMoves DEF RateTypes
    <2> QED
      BY <2>1, <2>3
  <1> HIDE DEF D
  <1>7. total \in Int
    <2>1. Summable(redis, D) /\ \A k \in Rate!Times : Term(redis, D, k) <= Term(redis, D, k)
      BY <1>3, <1>5 DEF Summable, Term, RateTypes
    <2> QED
      BY <1>1, <2>1, TotalGrows DEF Scale
  <1>8. total <= Rate!Total(asked, Rate!Span(now, Window + BucketSize))
    BY <1>3, <1>4, <1>5, <1>6, CountUnderAsked DEF RateTypes, Present
  <1>9. Limit \in Nat /\ Rate!Total(asked, Rate!Span(now, Window + BucketSize)) \in Nat
    <2>1. Rate!Span(now, Window + BucketSize) \in SUBSET Rate!Times
      BY DEF Rate!Span
    <2> QED
      BY <1>1, <1>3, <2>1, RateFacts, CountTotals DEF RateTypes
  <1>10. total > Limit => Rate!Total(asked, Rate!Span(now, Window + BucketSize)) > Limit
    BY <1>7, <1>8, <1>9
  <1>11. \A m \in Nodes, c \in Rate!Buckets :
           memory'[m][c] + (IF m # n /\ check[m].at # "idle" /\ check[m].bucket = c THEN 1 ELSE 0)
             <= Rate!Total(asked, InBucket(c))
    <2> SUFFICES ASSUME NEW m \in Nodes, NEW c \in Rate!Buckets
                 PROVE  memory[m][c] + (IF m # n /\ check[m].at # "idle" /\ check[m].bucket = c THEN 1 ELSE 0)
                          <= Rate!Total(asked, InBucket(c))
      BY <1>2
    <2>1. /\ memory[m][c] + (IF check[m].at # "idle" /\ check[m].bucket = c THEN 1 ELSE 0) <= Rate!Total(asked, InBucket(c))
          /\ memory[m][c] \in Nat
      BY <1>3 DEF CountsAsked, RateTypes
    <2>2. Rate!Total(asked, InBucket(c)) \in Nat
      <3>1. InBucket(c) \in SUBSET Rate!Times
        BY DEF InBucket
      <3> QED
        BY <1>1, <1>3, <3>1, CountTotals DEF RateTypes
    <2> QED
      BY <2>1, <2>2
  <1>12. total = Rate!Total(redis, Rate!Counted(now \div BucketSize))
    BY <1>4 DEF D
  <1>13. memory' \in [Nodes -> [Rate!Buckets -> Nat]]
    BY <1>2, <1>3 DEF RateTypes
  <1> HIDE DEF total
  <1> QED
    BY <1>2, <1>7, <1>10, <1>11, <1>12, <1>13, AnswerKeeps

\* A process adds up what it counted itself.
LEMMA MemoryKeeps ==
  ASSUME Rate!RateAssumption, RateInv, NEW n \in Nodes, Rate!MemoryCheck(n)
  PROVE  RateInv'
  <1> DEFINE b == now \div BucketSize
             store == [c \in Rate!Buckets |-> IF c < b - Rate!NumBuckets THEN 0
                                              ELSE memory[n][c] + (IF c = b THEN 1 ELSE 0)]
             D == Rate!Buckets
             total == Rate!Total(store, D)
  <1>1. Scale /\ IsFiniteSet(Nodes) /\ Rate!NumBuckets \in Nat
    BY RateFacts
  <1>2. /\ check[n].at = "memory" /\ Rate!Answer(n, total) /\ memory' = [memory EXCEPT ![n] = store]
        /\ UNCHANGED <<now, redis, dies, faults, asked>>
    BY DEF Rate!MemoryCheck, Rate!CurrentBucket
  <1>3. RateTypes /\ Present /\ CountsAsked /\ CountsLet
    BY DEF RateInv
  <1>4. check[n].bucket = b /\ now \in Rate!Times /\ b \in Rate!Buckets
    BY <1>1, <1>2, <1>3, BucketFacts DEF Present, RateTypes
  <1>5. \A c \in Rate!Buckets : c \in Nat
    <2>1. Rate!Times \subseteq Nat
      BY DEF Rate!Times
    <2> QED
      BY <1>1, <2>1, BucketFacts
  <1>6. \A c \in Rate!Buckets : Rate!Total(asked, InBucket(c)) \in Nat
    <2>1. \A c \in Rate!Buckets : InBucket(c) \in SUBSET Rate!Times
      BY DEF InBucket
    <2> QED
      BY <1>1, <1>3, <2>1, CountTotals DEF RateTypes
  <1> HIDE DEF b
  <1>7. store \in [Rate!Buckets -> Nat] /\ \A c \in Rate!Buckets : store[c] <= Rate!Total(asked, InBucket(c))
    <2> SUFFICES ASSUME NEW c \in Rate!Buckets PROVE store[c] \in Nat /\ store[c] <= Rate!Total(asked, InBucket(c))
      OBVIOUS
    <2>1. /\ memory[n][c] + (IF b = c THEN 1 ELSE 0) <= Rate!Total(asked, InBucket(c))
          /\ memory[n][c] \in Nat
      BY <1>2, <1>3, <1>4 DEF CountsAsked, RateTypes
    <2>2. store[c] = 0 \/ store[c] = memory[n][c] + (IF b = c THEN 1 ELSE 0)
      OBVIOUS
    <2> HIDE DEF store
    <2> QED
      BY <1>6, <2>1, <2>2
  <1>8. \A c \in D : store[c] # 0 => b - Rate!NumBuckets <= c
    BY <1>1, <1>4, <1>5
  <1>9. D \in SUBSET Rate!Buckets
    OBVIOUS
  <1> HIDE DEF store, D
  <1>10. total \in Int
    <2>1. Summable(store, D) /\ \A k \in Rate!Times : Term(store, D, k) <= Term(store, D, k)
      BY <1>7, <1>9 DEF Summable, Term
    <2> QED
      BY <1>1, <2>1, TotalGrows DEF Scale
  <1>11. total <= Rate!Total(asked, Rate!Span(now, Window + BucketSize))
    BY <1>3, <1>4, <1>7, <1>8, <1>9, CountUnderAsked DEF RateTypes, Present, b
  <1>12. Limit \in Nat /\ Rate!Total(asked, Rate!Span(now, Window + BucketSize)) \in Nat
    <2>1. Rate!Span(now, Window + BucketSize) \in SUBSET Rate!Times
      BY DEF Rate!Span
    <2> QED
      BY <1>1, <1>3, <2>1, RateFacts, CountTotals DEF RateTypes
  <1>13. total > Limit => Rate!Total(asked, Rate!Span(now, Window + BucketSize)) > Limit
    BY <1>10, <1>11, <1>12
  <1>14. \A m \in Nodes, c \in Rate!Buckets :
           memory'[m][c] + (IF m # n /\ check[m].at # "idle" /\ check[m].bucket = c THEN 1 ELSE 0)
             <= Rate!Total(asked, InBucket(c))
    <2> SUFFICES ASSUME NEW m \in Nodes, NEW c \in Rate!Buckets
                 PROVE  memory'[m][c] + (IF m # n /\ check[m].at # "idle" /\ check[m].bucket = c THEN 1 ELSE 0)
                          <= Rate!Total(asked, InBucket(c))
      OBVIOUS
    <2>1. CASE m = n
      <3>1. memory'[m][c] = store[c]
        BY <1>2, <1>3, <2>1 DEF RateTypes
      <3> QED
        BY <1>7, <2>1, <3>1
    <2>2. CASE m # n
      <3>1. memory'[m][c] = memory[m][c]
        BY <1>2, <1>3, <2>2 DEF RateTypes
      <3>2. memory[m][c] + (IF check[m].at # "idle" /\ check[m].bucket = c THEN 1 ELSE 0) <= Rate!Total(asked, InBucket(c))
        BY <1>3 DEF CountsAsked
      <3> QED
        BY <2>2, <3>1, <3>2
    <2> QED
      BY <2>1, <2>2
  <1>15. memory' \in [Nodes -> [Rate!Buckets -> Nat]]
    BY <1>2, <1>3, <1>7 DEF RateTypes
  <1>16. faults # 0
    BY <1>2, <1>3 DEF CountsLet
  <1> HIDE DEF total
  <1> QED
    BY <1>2, <1>10, <1>13, <1>14, <1>15, <1>16, AnswerKeeps

\* A second passes: Redis drops only buckets that no later check adds up.
LEMMA TickKeeps ==
  ASSUME Rate!RateAssumption, RateInv, Rate!Tick
  PROVE  RateInv'
  <1> DEFINE dead == {c \in Rate!Buckets : dies[c] <= now + 1}
             b == now \div BucketSize
             d == (now + 1) \div BucketSize
             q == Rate!NumBuckets
  <1>1. /\ Scale /\ IsFiniteSet(Nodes) /\ Window \in Nat /\ BucketSize \in Nat /\ MaxTime \in Nat
        /\ q \in Nat /\ q * BucketSize = Window
    BY RateFacts DEF Scale
  <1>2. /\ now < MaxTime /\ \A n \in Nodes : check[n].at = "idle"
        /\ now' = now + 1
        /\ redis' = [c \in Rate!Buckets |-> IF c \in dead THEN 0 ELSE redis[c]]
        /\ dies' = [c \in Rate!Buckets |-> IF c \in dead THEN Rate!Forever ELSE dies[c]]
        /\ UNCHANGED <<memory, check, faults, asked, let, refused>>
    BY DEF Rate!Tick
  <1>3. RateTypes /\ Present /\ Lives /\ CountsAsked /\ CountsLet /\ LimitIsKept
    BY DEF RateInv
  <1>4. now \in Rate!Times /\ now + 1 \in Rate!Times /\ now \in Nat
    BY <1>1, <1>2, <1>3 DEF RateTypes, Rate!Times
  <1>5. \A c \in Rate!Buckets : c \in Nat /\ c * BucketSize <= MaxTime
    <2>1. Rate!Times \subseteq Nat
      BY DEF Rate!Times
    <2> QED
      BY <1>1, <2>1, BucketFacts
  <1>6. b \in Nat /\ d \in Nat /\ b <= d /\ now + 1 < (d + 1) * BucketSize
    <2>1. /\ b \in Rate!Buckets /\ d \in Rate!Buckets /\ b * BucketSize <= now
          /\ now + 1 < d * BucketSize + BucketSize
      BY <1>1, <1>4, BucketFacts
    <2>2. b \in Nat /\ d \in Nat
      BY <1>5, <2>1
    <2> HIDE DEF b, d
    <2>3. (d + 1) * BucketSize = d * BucketSize + BucketSize /\ b * BucketSize \in Int /\ (d + 1) * BucketSize \in Int
      BY <1>1, <2>2, Scaled
    <2>4. b * BucketSize < (d + 1) * BucketSize
      BY <1>4, <2>1, <2>3
    <2>5. b < d + 1
      <3>1. b \in Int /\ d + 1 \in Int
        BY <2>2
      <3> QED
        BY <1>1, <2>4, <3>1, Scaled
    <2> QED
      BY <2>1, <2>2, <2>3, <2>5
  <1> HIDE DEF b, d, q
  <1>7. \A c \in dead : ~ (d - q <= c)
    <2> SUFFICES ASSUME NEW c \in dead, d - q <= c PROVE FALSE
      OBVIOUS
    <2>1. c \in Rate!Buckets /\ c \in Nat /\ (c + q + 1) * BucketSize <= now + 1
      <3>1. c \in Rate!Buckets /\ dies[c] <= now + 1 /\ dies[c] \in Nat
        BY <1>3 DEF RateTypes
      <3>2. (c + q + 1) * BucketSize <= dies[c]
        BY <1>3, <3>1 DEF Lives, q
      <3>3. c \in Nat
        BY <1>5, <3>1
      <3>4. (c + q + 1) * BucketSize \in Int
        BY <1>1, <3>3, Scaled
      <3> QED
        BY <1>4, <3>1, <3>2, <3>3, <3>4
    <2>2. c + q + 1 \in Int /\ d + 1 \in Int
      BY <1>1, <1>6, <2>1
    <2>3. (c + q + 1) * BucketSize < (d + 1) * BucketSize
      <3>1. (c + q + 1) * BucketSize \in Int /\ (d + 1) * BucketSize \in Int
        BY <1>1, <2>2, Scaled
      <3> QED
        BY <1>4, <1>6, <2>1, <3>1
    <2>4. c + q + 1 < d + 1
      BY <1>1, <2>2, <2>3, Scaled
    <2> QED
      BY <1>1, <1>6, <2>1, <2>4
  <1>8. Rate!Forever \in Nat /\ \A c \in Rate!Buckets : (c + q + 1) * BucketSize <= Rate!Forever
    <2>1. Rate!Forever = MaxTime + Window + BucketSize + 1
      BY DEF Rate!Forever
    <2>2. \A i, j, k \in Nat : (i + j + 1) * k = i * k + j * k + k /\ i * k \in Nat
      OBVIOUS
    <2>3. \A c \in Rate!Buckets : (c + q + 1) * BucketSize = c * BucketSize + Window + BucketSize /\ c * BucketSize \in Nat
      BY <1>1, <1>5, <2>2
    <2> QED
      BY <1>1, <1>5, <2>1, <2>3
  <1> HIDE DEF dead
  <1>9. /\ redis' \in [Rate!Buckets -> Nat]
        /\ \A c \in Rate!Buckets : redis'[c] <= redis[c] /\ (d - q <= c => redis'[c] = redis[c])
    BY <1>2, <1>3, <1>7 DEF RateTypes
  <1>10. RateTypes'
    BY <1>2, <1>3, <1>4, <1>8, <1>9 DEF RateTypes
  <1>11. Present'
    <2>1. \A u \in Rate!Times : u > now + 1 => u > now
      BY <1>4 DEF Rate!Times
    <2>2. \A u \in Rate!Times : u > now + 1 => asked[u] = 0 /\ let[u] = 0
      BY <1>3, <2>1 DEF Present
    <2> QED
      BY <1>2, <2>2 DEF Present
  <1>12. Lives'
    <2>1. \A c \in Rate!Buckets : (c + q + 1) * BucketSize <= dies'[c]
      BY <1>2, <1>3, <1>8 DEF Lives, q
    <2> QED
      BY <2>1 DEF Lives, q
  <1>13. CountsAsked'
    <2>1. ASSUME NEW c \in Rate!Buckets
          PROVE  redis'[c] + Cardinality(Asking(check, c)) <= Rate!Total(asked, InBucket(c))
      <3>1. redis[c] + Cardinality(Asking(check, c)) <= Rate!Total(asked, InBucket(c)) /\ redis[c] \in Nat
        BY <1>3 DEF CountsAsked, RateTypes
      <3>2. Cardinality(Asking(check, c)) = 0
        <4>1. Asking(check, c) = {}
          BY <1>2 DEF Asking
        <4> QED
          BY <4>1, FS_EmptySet
      <3>3. Rate!Total(asked, InBucket(c)) \in Nat
        <4>1. InBucket(c) \in SUBSET Rate!Times
          BY DEF InBucket
        <4> QED
          BY <1>1, <1>3, <4>1, CountTotals DEF RateTypes
      <3> QED
        BY <1>9, <3>1, <3>2, <3>3
    <2> QED
      BY <1>2, <1>3, <2>1 DEF CountsAsked
  <1>14. CountsLet'
    <2>1. ASSUME faults = 0, NEW c \in Rate!Buckets, d - q <= c
          PROVE  Rate!Total(let, InBucket(c)) + Cardinality(Counting(check, c)) <= redis'[c]
      <3>1. b - q <= c
        BY <1>1, <1>5, <1>6, <2>1
      <3>2. Rate!Total(let, InBucket(c)) + Cardinality(Counting(check, c)) <= redis[c]
        BY <1>3, <2>1, <3>1 DEF CountsLet, b, q
      <3> QED
        BY <1>9, <2>1, <3>2
    <2> QED
      BY <1>2, <1>3, <2>1 DEF CountsLet, d, q
  <1>15. LimitIsKept'
    BY <1>2, <1>3 DEF LimitIsKept, Rate!LimitIsKept
  <1> QED
    BY <1>10, <1>11, <1>12, <1>13, <1>14, <1>15 DEF RateInv

\* At first nothing has been counted.
LEMMA RateStarts ==
  ASSUME Rate!RateAssumption, Rate!Init
  PROVE  RateInv
  <1> DEFINE q == Rate!NumBuckets
  <1>1. /\ Scale /\ IsFiniteSet(Nodes) /\ Limit \in Nat /\ Window \in Nat /\ BucketSize \in Nat /\ MaxTime \in Nat
        /\ q \in Nat /\ q * BucketSize = Window
    BY RateFacts DEF Scale
  <1> HIDE DEF q
  <1>2. 0 \in Rate!Times /\ 0 \in Rate!Buckets
    <2>1. 0 \in Rate!Times
      BY <1>1 DEF Rate!Times
    <2>2. 0 \div BucketSize \in Rate!Buckets
      BY <1>1, <2>1, BucketFacts
    <2>3. 0 \div BucketSize = 0
      BY <1>1 DEF Scale
    <2> QED
      BY <2>1, <2>2, <2>3
  <1>3. \A c \in Rate!Buckets : c \in Nat /\ c * BucketSize <= MaxTime
    <2>1. Rate!Times \subseteq Nat
      BY DEF Rate!Times
    <2> QED
      BY <1>1, <2>1, BucketFacts
  <1>4. Rate!Forever \in Nat /\ \A c \in Rate!Buckets : (c + q + 1) * BucketSize <= Rate!Forever
    <2>1. Rate!Forever = MaxTime + Window + BucketSize + 1
      BY DEF Rate!Forever
    <2>2. \A i, j, k \in Nat : (i + j + 1) * k = i * k + j * k + k /\ i * k \in Nat
      OBVIOUS
    <2>3. \A c \in Rate!Buckets : (c + q + 1) * BucketSize = c * BucketSize + Window + BucketSize /\ c * BucketSize \in Nat
      BY <1>1, <1>3, <2>2
    <2> QED
      BY <1>1, <1>3, <2>1, <2>3
  <1>5. /\ RateTypes /\ faults = 0
        /\ \A n \in Nodes : check[n].at = "idle"
        /\ \A u \in Rate!Times : asked[u] = 0 /\ let[u] = 0
        /\ \A c \in Rate!Buckets : redis[c] = 0 /\ dies[c] = Rate!Forever
        /\ \A n \in Nodes, c \in Rate!Buckets : memory[n][c] = 0
        /\ refused = {}
    BY <1>2, <1>4 DEF Rate!Init, Rate!Idle, RateTypes
  <1>6. Present
    BY <1>5 DEF Present
  <1>7. Lives
    BY <1>4, <1>5 DEF Lives, q
  <1>8. \A T \in SUBSET Rate!Times : Rate!Total(asked, T) \in Nat /\ Rate!Total(let, T) \in Nat /\ Rate!Total(let, T) <= 0
    <2> DEFINE none == {}
    <2>1. none \in SUBSET Rate!Times /\ Rate!Total(let, none) = 0
      BY <1>1, TotalOfNone
    <2>2. \A T \in SUBSET Rate!Times : \A u \in T : let[u] # 0 => u \in none
      BY <1>5
    <2> HIDE DEF none
    <2>3. asked \in [Rate!Times -> Nat] /\ let \in [Rate!Times -> Nat]
      BY <1>5 DEF RateTypes
    <2> SUFFICES ASSUME NEW T \in SUBSET Rate!Times
                 PROVE  Rate!Total(asked, T) \in Nat /\ Rate!Total(let, T) \in Nat /\ Rate!Total(let, T) <= 0
      OBVIOUS
    <2>4. Rate!Total(asked, T) \in Nat /\ Rate!Total(let, T) \in Nat /\ Rate!Total(let, T) <= Rate!Total(let, none)
      BY <1>1, <2>1, <2>2, <2>3, CountTotals
    <2> QED
      BY <2>1, <2>4
  <1>9. \A c \in Rate!Buckets : /\ Cardinality(Asking(check, c)) = 0 /\ Cardinality(Counting(check, c)) = 0
                                /\ InBucket(c) \in SUBSET Rate!Times
    <2>1. \A c \in Rate!Buckets : Asking(check, c) = {} /\ Counting(check, c) = {} /\ InBucket(c) \in SUBSET Rate!Times
      BY <1>5 DEF Asking, Counting, InBucket
    <2> QED
      BY <2>1, FS_EmptySet
  <1>10. CountsAsked
    BY <1>5, <1>8, <1>9 DEF CountsAsked
  <1>11. CountsLet
    BY <1>5, <1>8, <1>9 DEF CountsLet
  <1>12. LimitIsKept
    <2>1. \A t \in Rate!Times : Rate!Span(t, Window) \in SUBSET Rate!Times
      BY DEF Rate!Span
    <2>2. \A t \in Rate!Times : Rate!Total(let, Rate!Span(t, Window)) <= Limit
      BY <1>1, <1>8, <2>1
    <2> QED
      BY <1>5, <2>2 DEF LimitIsKept, Rate!LimitIsKept
  <1> QED
    BY <1>5, <1>6, <1>7, <1>10, <1>11, <1>12 DEF RateInv

\* For any number of processes, limits, windows and buckets: no window lets more than
\* the limit through while Redis answers, and is_limited refuses only after more
\* than the limit have arrived in the window and one bucket, whatever fails.
THEOREM RateLimitIsKept == Rate!RateAssumption /\ Rate!Spec => []LimitIsKept
  <1> SUFFICES ASSUME Rate!RateAssumption PROVE Rate!Spec => []LimitIsKept
    OBVIOUS
  <1>1. Rate!Init => RateInv
    BY RateStarts
  <1>2. RateInv /\ [Rate!Next]_Rate!vars => RateInv'
    <2> SUFFICES ASSUME RateInv, [Rate!Next]_Rate!vars PROVE RateInv'
      OBVIOUS
    <2>1. ASSUME NEW n \in Nodes, Rate!Ask(n) PROVE RateInv'
      BY <2>1, AskKeeps
    <2>2. ASSUME NEW n \in Nodes, Rate!Incr(n) PROVE RateInv'
      BY <2>2, IncrKeeps
    <2>3. ASSUME NEW n \in Nodes, Rate!Expire(n) PROVE RateInv'
      BY <2>3, ExpireKeeps
    <2>4. ASSUME NEW n \in Nodes, Rate!Count(n) PROVE RateInv'
      BY <2>4, CountKeeps
    <2>5. ASSUME NEW n \in Nodes, Rate!RedisFails(n) PROVE RateInv'
      BY <2>5, FailureKeeps
    <2>6. ASSUME NEW n \in Nodes, Rate!MemoryCheck(n) PROVE RateInv'
      BY <2>6, MemoryKeeps
    <2>7. CASE Rate!Tick
      BY <2>7, TickKeeps
    <2>8. CASE UNCHANGED Rate!vars
      BY <2>8 DEF Rate!vars, RateInv, RateTypes, Present, Lives, CountsAsked, CountsLet, LimitIsKept, Rate!LimitIsKept
    <2> QED
      BY <2>1, <2>2, <2>3, <2>4, <2>5, <2>6, <2>7, <2>8 DEF Rate!Next
  <1>3. RateInv => LimitIsKept
    BY DEF RateInv
  <1> QED
    BY <1>1, <1>2, <1>3, PTL DEF Rate!Spec
=============================================================================
