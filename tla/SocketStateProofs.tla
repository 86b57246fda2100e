-------------------------- MODULE SocketStateProofs --------------------------
(***************************************************************************)
(* Proofs about the state the socket server keeps for its sessions: a      *)
(* shared document (SharedDocument) and the usage of a model (UsagePool),  *)
(* for any number of sessions, updates and exits, and any thresholds.      *)
(***************************************************************************)
EXTENDS SocketState, SequenceTheorems, FiniteSetTheorems, TLAPS

-----------------------------------------------------------------------------
(* A shared document *)

Work == [pc : Steps, update : SUBSET Updates, copy : Seq(SUBSET Updates)]

DocTypes ==
  /\ list \in Seq(SUBSET Updates) /\ accepted \subseteq Updates /\ exits \in Nat
  /\ users \subseteq Sessions /\ room \subseteq Sessions
  /\ have \in [Sessions -> SUBSET Updates] /\ owed \in [Sessions -> SUBSET Updates]
  /\ work \in [Sessions -> Work]

\* What a list of updates holds.
Holds(l) == UNION {l[k] : k \in 1..Len(l)}

\* A stored update is on its way to the room.
Sending(s) == work[s].pc \in {"pushed", "compact", "copied", "stored"}

\* The sessions in the room have what is owed to them or it is on its way; nothing is
\* owed to the others.
OwedIsSent ==
  \A s \in Sessions :
    /\ s \notin room => owed[s] = {}
    /\ \A u \in owed[s] : u \in have[s] \/ \E t \in Sessions : Sending(t) /\ u \in work[t].update

\* Until the first exit, no handler of an exit is at work.
NobodyLeft ==
  exits = 0 => /\ online = Sessions
               /\ \A s \in Sessions : /\ bye[s] = "no"
                                      /\ work[s].pc \notin {"removed", "empty", "cleared"}

\* Before compactions, every entry of the list is one update, pushed once.
Entries(l) ==
  /\ \A k \in 1..Len(l) : \E u \in Made : l[k] = {u}
  /\ \A j, k \in 1..Len(l) : l[j] = l[k] => j = k
FreshUpdates ==
  /\ \A s \in Sessions : At(s, "allowed") => /\ \E u \in Made : work[s].update = {u}
                                             /\ \A k \in 1..Len(list) : list[k] # work[s].update
  /\ \A s, t \in Sessions : At(s, "allowed") /\ At(t, "allowed") /\ work[s].update = work[t].update => s = t
  /\ \A s \in Sessions : work[s].pc \notin {"compact", "copied"}

\* The list holds what was accepted, and whoever has read it has that or is being sent it.
ListIsComplete ==
  /\ accepted \subseteq Holds(list)
  /\ \A s \in room : work[s].pc # "entered" =>
       \A u \in accepted : u \in have[s] \/ \E t \in Sessions : Sending(t) /\ u \in work[t].update

Undisturbed == Entries(list) /\ FreshUpdates /\ ListIsComplete

DocInv ==
  /\ DocTypes /\ OwedIsSent /\ NobodyLeft
  /\ ~Disturbed => Undisturbed
  /\ ~redis => accepted \subseteq Holds(list)

-----------------------------------------------------------------------------
\* The updates made are finitely many.
LEMMA MadeIsFinite ==
  ASSUME NEW f \in [Sessions -> SUBSET Updates], NEW M, M = UNION {f[s] : s \in Sessions}
  PROVE  M \subseteq Updates /\ IsFiniteSet(M) /\ Cardinality(M) \in Nat
  <1>1. M \subseteq Updates
    OBVIOUS
  <1>2. IsFiniteSet(Updates)
    BY DocumentAssumption, FS_Interval DEF Updates
  <1> QED
    BY <1>1, <1>2, FS_Subset, FS_CardinalityType

\* The updates made so far are finitely many, and the copies are among them.
LEMMA MadeFacts ==
  ASSUME DocTypes
  PROVE  /\ Made \subseteq Updates /\ IsFiniteSet(Made) /\ Cardinality(Made) \in Nat
         /\ \A s \in Sessions : have[s] \subseteq Made
  <1>1. \A s \in Sessions : have[s] \subseteq Made
    BY DEF Made
  <1>2. have \in [Sessions -> SUBSET Updates] /\ Made = UNION {have[s] : s \in Sessions}
    BY DEF DocTypes, Made
  <1> QED
    BY <1>1, <1>2, MadeIsFinite

\* A set of numbers that is not empty has a least one.
LEMMA LeastIn ==
  ASSUME NEW S \in SUBSET Nat, S # {}
  PROVE  Min(S) \in S
  <1>1. PICK x \in S : \A y \in S : <<y, x>> \notin OpToRel(<, Nat)
    BY NatLessThanWellFounded, WFMin
  <1>2. \A y \in S : ~ (y < x)
    BY <1>1 DEF OpToRel
  <1>3. \A y \in S : x <= y
    BY <1>2
  <1> QED
    BY <1>3 DEF Min

\* The number of a new update is not taken.
LEMMA NewUpdate ==
  ASSUME DocTypes, Updates # Made
  PROVE  Min(Updates \ Made) \in Updates \ Made
  <1>1. Updates \in SUBSET Nat
    BY DEF Updates
  <1>2. Updates \ Made \in SUBSET Nat /\ Updates \ Made # {}
    BY <1>1, MadeFacts
  <1> QED
    BY <1>2, LeastIn

\* A list of different updates is no longer than the updates are many.
LEMMA ListIsShort ==
  ASSUME DocTypes, NEW l \in Seq(SUBSET Updates), Entries(l)
  PROVE  Len(l) <= Cardinality(Made)
  <1> DEFINE f == [k \in 1..Len(l) |-> CHOOSE u \in Made : l[k] = {u}]
  <1>1. \A k \in 1..Len(l) : f[k] \in Made /\ l[k] = {f[k]}
    BY DEF Entries
  <1>2. f \in [1..Len(l) -> Made]
    BY <1>1
  <1>3. \A j, k \in 1..Len(l) : f[j] = f[k] => j = k
    BY <1>1 DEF Entries
  <1>4. f \in Injection(1..Len(l), Made)
    BY <1>2, <1>3 DEF Injection, IsInjective
  <1>5. Len(l) \in Nat /\ Cardinality(1..Len(l)) = Len(l)
    BY FS_Interval, LenProperties
  <1> QED
    BY <1>4, <1>5, MadeFacts, FS_Injection

\* What an append and a compaction hold.
LEMMA AppendHolds ==
  ASSUME NEW l \in Seq(SUBSET Updates), NEW u \in SUBSET Updates
  PROVE  /\ Append(l, u) \in Seq(SUBSET Updates) /\ Len(l) \in Nat /\ Len(Append(l, u)) = Len(l) + 1
         /\ \A k \in 1..Len(l) : Append(l, u)[k] = l[k]
         /\ Append(l, u)[Len(l) + 1] = u
         /\ Holds(Append(l, u)) = Holds(l) \cup u
  <1>1. /\ Append(l, u) \in Seq(SUBSET Updates) /\ Len(l) \in Nat /\ Len(Append(l, u)) = Len(l) + 1
        /\ \A k \in 1..Len(l) : Append(l, u)[k] = l[k]
        /\ Append(l, u)[Len(l) + 1] = u
    BY AppendProperties, LenProperties
  <1>2. 1..(Len(l) + 1) = 1..Len(l) \cup {Len(l) + 1}
    BY <1>1
  <1>3. Holds(Append(l, u)) = Holds(l) \cup u
    BY <1>1, <1>2 DEF Holds
  <1> QED
    BY <1>1, <1>3

\* A compacted list holds what the list held.
LEMMA CompactedHolds ==
  ASSUME NEW l \in Seq(SUBSET Updates)
  PROVE  Compacted(l) \in Seq(SUBSET Updates) /\ Holds(Compacted(l)) = Holds(l)
  <1>1. CASE Len(l) <= 1
    BY <1>1 DEF Compacted
  <1>2. CASE ~(Len(l) <= 1)
    <2> DEFINE mid == Len(l) \div 2
               old == UNION {l[k] : k \in 1..mid}
               new == SubSeq(l, mid + 1, Len(l))
    <2>1. Len(l) \in Nat /\ mid \in Nat /\ mid >= 1 /\ mid < Len(l)
      BY <1>2, LenProperties
    <2>2. old \in SUBSET Updates
      BY <2>1, ElementOfSeq
    <2> HIDE DEF mid
    <2>3. /\ new \in Seq(SUBSET Updates) /\ Len(new) = Len(l) - mid
          /\ \A i \in 1..Len(new) : new[i] = l[mid + i]
      BY <2>1, SubSeqProperties
    <2> HIDE DEF old, new
    <2>4. Compacted(l) = <<old>> \o new
      BY <1>2 DEF Compacted, mid, old, new
    <2>5. <<old>> \in Seq(SUBSET Updates) /\ Len(<<old>>) = 1 /\ <<old>>[1] = old
      BY <2>2
    <2>6. /\ Compacted(l) \in Seq(SUBSET Updates) /\ Len(Compacted(l)) = Len(l) - mid + 1
          /\ Compacted(l)[1] = old
          /\ \A i \in 1..Len(new) : Compacted(l)[i + 1] = l[mid + i]
      <3>1. /\ <<old>> \o new \in Seq(SUBSET Updates) /\ Len(<<old>> \o new) = 1 + Len(new)
            /\ \A i \in 1..(1 + Len(new)) :
                 (<<old>> \o new)[i] = IF i <= 1 THEN <<old>>[i] ELSE new[i - 1]
        BY <2>3, <2>5, ConcatProperties
      <3>2. Len(new) \in Nat /\ 1 \in 1..(1 + Len(new))
        BY <2>1, <2>3
      <3>3. \A i \in 1..Len(new) : i + 1 \in 1..(1 + Len(new)) /\ ~(i + 1 <= 1) /\ (i + 1) - 1 = i
        BY <3>2
      <3>4. \A i \in 1..Len(new) : (<<old>> \o new)[i + 1] = new[i]
        BY <3>1, <3>3
      <3>5. (<<old>> \o new)[1] = old
        BY <2>5, <3>1, <3>2
      <3> QED
        BY <2>1, <2>3, <2>4, <3>1, <3>4, <3>5
    <2>7. Holds(Compacted(l)) \subseteq Holds(l)
      <3> SUFFICES ASSUME NEW k \in 1..Len(Compacted(l)), NEW u \in Compacted(l)[k] PROVE u \in Holds(l)
        BY DEF Holds
      <3>1. CASE k = 1
        BY <2>1, <2>6, <3>1 DEF Holds, old
      <3>2. CASE k # 1
        <4>1. k - 1 \in 1..Len(new) /\ (k - 1) + 1 = k /\ mid + (k - 1) \in 1..Len(l)
          BY <2>1, <2>3, <2>6, <3>2
        <4>2. Compacted(l)[k] = l[mid + (k - 1)]
          BY <2>6, <4>1
        <4> QED
          BY <4>1, <4>2 DEF Holds
      <3> QED
        BY <3>1, <3>2
    <2>8. Holds(l) \subseteq Holds(Compacted(l))
      <3> SUFFICES ASSUME NEW k \in 1..Len(l), NEW u \in l[k] PROVE u \in Holds(Compacted(l))
        BY DEF Holds
      <3>1. CASE k \in 1..mid
        <4>1. u \in Compacted(l)[1] /\ 1 \in 1..Len(Compacted(l))
          BY <2>1, <2>6, <3>1 DEF old
        <4> QED
          BY <4>1 DEF Holds
      <3>2. CASE k \notin 1..mid
        <4>1. k - mid \in 1..Len(new) /\ mid + (k - mid) = k /\ (k - mid) + 1 \in 1..Len(Compacted(l))
          BY <2>1, <2>3, <2>6, <3>2
        <4>2. Compacted(l)[(k - mid) + 1] = l[k]
          BY <2>6, <4>1
        <4> QED
          BY <4>1, <4>2 DEF Holds
      <3> QED
        BY <3>1, <3>2
    <2> QED
      BY <2>6, <2>7, <2>8
  <1> QED
    BY <1>1, <1>2

-----------------------------------------------------------------------------
\* What Go does to a handler.
LEMMA GoFacts ==
  ASSUME work \in [Sessions -> Work], NEW s \in Sessions, NEW pc \in Steps, Go(s, pc)
  PROVE  /\ work' \in [Sessions -> Work]
         /\ \A t \in Sessions \ {s} : work'[t] = work[t]
         /\ work'[s].pc = pc /\ work'[s].update = work[s].update
  BY DEF Go, Work

\* What Finish does to a handler.
LEMMA FinishFacts ==
  ASSUME work \in [Sessions -> Work], NEW s \in Sessions, Finish(s)
  PROVE  /\ work' \in [Sessions -> Work]
         /\ \A t \in Sessions \ {s} : work'[t] = work[t]
         /\ work'[s].pc = "idle"
  <1>1. IdleWork \in Work /\ IdleWork.pc = "idle"
    BY EmptySeq DEF IdleWork, Work, Steps
  <1> QED
    BY <1>1 DEF Finish

\* A client that receives what the list holds.
LEMMA ReceiveFacts ==
  ASSUME DocTypes, NEW s \in Sessions, have' = [have EXCEPT ![s] = have[s] \cup Content]
  PROVE  /\ have' \in [Sessions -> SUBSET Updates]
         /\ \A t \in Sessions : have[t] \subseteq have'[t]
         /\ Holds(list) \subseteq have'[s]
  <1>1. Content \subseteq Updates /\ Content = Holds(list)
    BY ElementOfSeq DEF Content, Holds, DocTypes
  <1> QED
    BY <1>1 DEF DocTypes

\* An accepted update is owed to everyone in the room.
LEMMA OweFacts ==
  ASSUME DocTypes, NEW s \in Sessions, Owe(s)
  PROVE  /\ accepted' \subseteq Updates /\ accepted' \subseteq accepted \cup work[s].update
         /\ owed' \in [Sessions -> SUBSET Updates]
         /\ \A t \in Sessions : /\ t \in room => owed'[t] = owed[t] \cup work[s].update
                                /\ t \notin room => owed'[t] = owed[t]
  <1>1. work[s].update \subseteq Updates
    BY DEF DocTypes, Work
  <1> QED
    BY <1>1 DEF Owe, DocTypes

\* A push in memory adds its update, compacted or not.
LEMMA PushMemoryFacts ==
  ASSUME DocTypes, NEW s \in Sessions, PushMemory(s)
  PROVE  /\ list' \in Seq(SUBSET Updates)
         /\ Holds(list') = Holds(list) \cup work[s].update
         /\ Len(list) + 1 < Threshold => list' = Append(list, work[s].update)
  <1> DEFINE pushed == Append(list, work[s].update)
  <1>1. list \in Seq(SUBSET Updates) /\ work[s].update \in SUBSET Updates
    BY DEF DocTypes, Work
  <1>2. /\ pushed \in Seq(SUBSET Updates) /\ Len(pushed) = Len(list) + 1 /\ Len(list) \in Nat
        /\ Holds(pushed) = Holds(list) \cup work[s].update
    BY <1>1, AppendHolds
  <1> HIDE DEF pushed
  <1>3. Compacted(pushed) \in Seq(SUBSET Updates) /\ Holds(Compacted(pushed)) = Holds(pushed)
    BY <1>2, CompactedHolds
  <1>4. list' = IF Len(pushed) >= Threshold THEN Compacted(pushed) ELSE pushed
    BY DEF PushMemory, pushed
  <1>5. list' = pushed \/ list' = Compacted(pushed)
    BY <1>4
  <1>6. Len(list) + 1 < Threshold => list' = pushed
    BY <1>2, <1>4, DocumentAssumption
  <1> QED
    BY <1>2, <1>3, <1>5, <1>6 DEF pushed

\* Types hold throughout.
LEMMA TypesKept ==
  ASSUME DocTypes, [Next]_vars
  PROVE  DocTypes'
  <1>1. /\ list \in Seq(SUBSET Updates) /\ accepted \subseteq Updates /\ exits \in Nat
        /\ users \subseteq Sessions /\ room \subseteq Sessions
        /\ have \in [Sessions -> SUBSET Updates] /\ owed \in [Sessions -> SUBSET Updates]
        /\ work \in [Sessions -> Work]
    BY DEF DocTypes
  <1>2. CASE UNCHANGED vars
    BY <1>2 DEF DocTypes, vars
  <1>3. ASSUME NEW s \in Sessions,
               JoinCheck(s) \/ JoinAdd(s) \/ LeaveRemove(s) \/ LeaveCount(s) \/ LeaveCleared(s)
        PROVE DocTypes'
    <2>1. work' \in [Sessions -> Work]
      BY <1>1, <1>3, GoFacts, FinishFacts
        DEF JoinCheck, JoinAdd, LeaveRemove, LeaveCount, LeaveCleared, Steps
    <2> QED
      BY <1>1, <1>3, <2>1 DEF JoinCheck, JoinAdd, LeaveRemove, LeaveCount, LeaveCleared, DocTypes
  <1>4. ASSUME NEW s \in Sessions, EnterAndRead(s) PROVE DocTypes'
    <2>1. work' \in [Sessions -> Work]
      BY <1>1, <1>4, GoFacts, FinishFacts DEF EnterAndRead, JoinEnter, JoinState, Steps
    <2>2. have' \in [Sessions -> SUBSET Updates]
      BY <1>1, <1>4, ReceiveFacts DEF EnterAndRead, JoinEnter, JoinState
    <2> QED
      BY <1>1, <1>4, <2>1, <2>2 DEF EnterAndRead, JoinEnter, JoinState, DocTypes
  <1>5. ASSUME NEW s \in Sessions, SendState(s) \/ JoinMemory(s) PROVE DocTypes'
    <2>1. work' \in [Sessions -> Work]
      BY <1>1, <1>5, FinishFacts DEF SendState, JoinMemory
    <2>2. have' \in [Sessions -> SUBSET Updates]
      BY <1>1, <1>5, ReceiveFacts DEF SendState, JoinMemory
    <2> QED
      BY <1>1, <1>5, <2>1, <2>2 DEF SendState, JoinMemory, DocTypes
  <1>6. ASSUME NEW s \in Sessions, UpdateCheck(s) PROVE DocTypes'
    <2> DEFINE u == Min(Updates \ Made)
    <2>1. u \in Updates
      BY <1>6, NewUpdate DEF UpdateCheck
    <2>2. /\ have' = [have EXCEPT ![s] = have[s] \cup {u}]
          /\ work' = [work EXCEPT ![s] = [pc |-> "allowed", update |-> {u}, copy |-> <<>>]]
          /\ UNCHANGED <<list, users, index, room, online, bye, accepted, owed, exits>>
      BY <1>6 DEF UpdateCheck
    <2> HIDE DEF u
    <2>3. [pc |-> "allowed", update |-> {u}, copy |-> <<>>] \in Work
      BY <2>1, EmptySeq DEF Work, Steps
    <2>4. work' \in [Sessions -> Work] /\ have' \in [Sessions -> SUBSET Updates]
      BY <1>1, <2>1, <2>2, <2>3
    <2> QED
      BY <1>1, <2>2, <2>4 DEF DocTypes
  <1>7. ASSUME NEW s \in Sessions, Push(s) PROVE DocTypes'
    <2>1. work' \in [Sessions -> Work] /\ work[s].update \in SUBSET Updates
      BY <1>1, <1>7, GoFacts DEF Push, Steps, Work
    <2>2. list' \in Seq(SUBSET Updates)
      BY <1>1, <1>7, <2>1, AppendHolds DEF Push
    <2> QED
      BY <1>1, <1>7, <2>1, <2>2, OweFacts DEF Push, DocTypes
  <1>8. ASSUME NEW s \in Sessions, PushMemory(s) PROVE DocTypes'
    <2>1. work' \in [Sessions -> Work]
      BY <1>1, <1>8, GoFacts DEF PushMemory, Steps
    <2> QED
      BY <1>1, <1>8, <2>1, PushMemoryFacts, OweFacts DEF PushMemory, DocTypes
  <1>9. ASSUME NEW s \in Sessions, Length(s) PROVE DocTypes'
    <2>1. (IF Len(list) >= Threshold THEN "compact" ELSE "stored") \in Steps
      BY DEF Steps
    <2>2. work' \in [Sessions -> Work]
      BY <1>1, <1>9, <2>1, GoFacts DEF Length
    <2> QED
      BY <1>1, <1>9, <2>2 DEF Length, DocTypes
  <1>10. ASSUME NEW s \in Sessions, CompactRead(s) PROVE DocTypes'
    <2>1. work' \in [Sessions -> Work]
      BY <1>1, <1>10 DEF CompactRead, Work, Steps
    <2> QED
      BY <1>1, <1>10, <2>1 DEF CompactRead, DocTypes
  <1>11. ASSUME NEW s \in Sessions, CompactWrite(s) PROVE DocTypes'
    <2>1. work[s].copy \in Seq(SUBSET Updates)
      BY <1>1 DEF Work
    <2>2. work' \in [Sessions -> Work]
      BY <1>1, <1>11, EmptySeq DEF CompactWrite, Work, Steps
    <2> QED
      BY <1>1, <1>11, <2>1, <2>2, CompactedHolds DEF CompactWrite, DocTypes
  <1>12. ASSUME NEW s \in Sessions, Broadcast(s) PROVE DocTypes'
    <2>1. work' \in [Sessions -> Work] /\ work[s].update \subseteq Updates
      BY <1>1, <1>12, FinishFacts DEF Broadcast, Work
    <2>2. have' \in [Sessions -> SUBSET Updates]
      BY <1>1, <1>12, <2>1 DEF Broadcast
    <2> QED
      BY <1>1, <1>12, <2>1, <2>2 DEF Broadcast, DocTypes
  <1>13. ASSUME NEW s \in Sessions, LeaveClear(s) \/ LeaveMemory(s) \/ ByeClear(s) \/ ByeMemory(s) PROVE DocTypes'
    <2>1. work' \in [Sessions -> Work]
      BY <1>1, <1>13, GoFacts, FinishFacts DEF LeaveClear, LeaveMemory, ByeClear, ByeMemory, Steps
    <2>2. list' \in Seq(SUBSET Updates) /\ accepted' \subseteq Updates
      BY <1>1, <1>13, EmptySeq DEF LeaveClear, LeaveMemory, ByeClear, ByeMemory, ClearUpdates
    <2> QED
      BY <1>1, <1>13, <2>1, <2>2 DEF LeaveClear, LeaveMemory, ByeClear, ByeMemory, DocTypes
  <1>14. ASSUME NEW s \in Sessions, Disconnect(s) \/ ByeRemove(s) \/ ByeCount(s) \/ ByeCleared(s) PROVE DocTypes'
    BY <1>1, <1>14 DEF Disconnect, ByeRemove, ByeCount, ByeCleared, DocTypes
  <1> QED
    BY <1>2, <1>3, <1>4, <1>5, <1>6, <1>7, <1>8, <1>9, <1>10, <1>11, <1>12, <1>13, <1>14 DEF Next

\* In memory every change of the list keeps what was accepted.
LEMMA MemoryKept ==
  ASSUME DocTypes, ~redis => accepted \subseteq Holds(list), [Next]_vars
  PROVE  ~redis' => accepted' \subseteq Holds(list')
  <1> SUFFICES ASSUME ~redis' PROVE accepted' \subseteq Holds(list')
    OBVIOUS
  <1>1. ~redis /\ accepted \subseteq Holds(list)
    BY DEF Next, vars
  <1>2. CASE UNCHANGED <<list, accepted>>
    BY <1>1, <1>2
  <1>3. ASSUME NEW s \in Sessions, PushMemory(s) PROVE accepted' \subseteq Holds(list')
    BY <1>1, <1>3, PushMemoryFacts, OweFacts DEF PushMemory
  <1>4. ASSUME NEW s \in Sessions, LeaveMemory(s) PROVE accepted' \subseteq Holds(list')
    BY <1>1, <1>4 DEF LeaveMemory, ClearUpdates
  <1>5. ASSUME NEW s \in Sessions, ByeMemory(s) PROVE accepted' \subseteq Holds(list')
    BY <1>1, <1>5 DEF ByeMemory
  <1>6. ASSUME NEW s \in Sessions,
               \/ JoinCheck(s) \/ SendState(s) \/ UpdateCheck(s) \/ Broadcast(s) \/ LeaveRemove(s)
               \/ Disconnect(s) \/ JoinMemory(s)
        PROVE accepted' \subseteq Holds(list')
    BY <1>2, <1>6 DEF JoinCheck, SendState, UpdateCheck, Broadcast, LeaveRemove, Disconnect, JoinMemory
  <1> QED
    BY <1>1, <1>2, <1>3, <1>4, <1>5, <1>6 DEF Next, vars

\* Exits are only counted up.
LEMMA ExitsGrow ==
  ASSUME [Next]_vars
  PROVE  exits' = exits \/ exits' = exits + 1
  <1>1. CASE UNCHANGED vars
    BY <1>1 DEF vars
  <1>2. ASSUME NEW s \in Sessions,
               JoinCheck(s) \/ SendState(s) \/ UpdateCheck(s) \/ Broadcast(s) \/ LeaveRemove(s) \/ Disconnect(s)
        PROVE exits' = exits \/ exits' = exits + 1
    BY <1>2 DEF JoinCheck, SendState, UpdateCheck, Broadcast, LeaveRemove, Disconnect
  <1>3. ASSUME NEW s \in Sessions,
               \/ JoinAdd(s) \/ EnterAndRead(s) \/ Push(s) \/ Length(s) \/ CompactRead(s) \/ CompactWrite(s)
               \/ LeaveCount(s) \/ LeaveClear(s) \/ LeaveCleared(s)
        PROVE exits' = exits
    BY <1>3, Zenon DEF JoinAdd, EnterAndRead, JoinEnter, JoinState, Push, Length, CompactRead, CompactWrite,
         LeaveCount, LeaveClear, LeaveCleared
  <1>4. ASSUME NEW s \in Sessions,
               \/ ByeRemove(s) \/ ByeCount(s) \/ ByeClear(s) \/ ByeCleared(s)
               \/ JoinMemory(s) \/ PushMemory(s) \/ LeaveMemory(s) \/ ByeMemory(s)
        PROVE exits' = exits
    BY <1>4, Zenon DEF ByeRemove, ByeCount, ByeClear, ByeCleared, JoinMemory, PushMemory, LeaveMemory, ByeMemory
  <1> QED
    BY <1>1, <1>2, <1>3, <1>4 DEF Next

\* The first exit is the first step that touches what an exit touches.
LEMMA LeftKept ==
  ASSUME DocTypes, NobodyLeft, [Next]_vars
  PROVE  NobodyLeft'
  <1> SUFFICES ASSUME exits' = 0
               PROVE  /\ online' = Sessions
                      /\ \A s \in Sessions : /\ bye'[s] = "no"
                                             /\ work'[s].pc \notin {"removed", "empty", "cleared"}
    BY DEF NobodyLeft
  <1>1. /\ exits \in Nat /\ work \in [Sessions -> Work]
    BY DEF DocTypes
  <1>2. exits = 0
    BY <1>1, ExitsGrow
  <1>3. /\ online = Sessions
        /\ \A s \in Sessions : /\ bye[s] = "no"
                               /\ work[s].pc \notin {"removed", "empty", "cleared"}
    BY <1>2 DEF NobodyLeft
  <1>4. CASE UNCHANGED vars
    BY <1>3, <1>4 DEF vars
  <1>5. ASSUME NEW s \in Sessions, \A t \in Sessions \ {s} : work'[t] = work[t],
               work'[s].pc \notin {"removed", "empty", "cleared"}, UNCHANGED <<online, bye>>
        PROVE  /\ online' = Sessions
               /\ \A t \in Sessions : bye'[t] = "no" /\ work'[t].pc \notin {"removed", "empty", "cleared"}
    BY <1>3, <1>5
  <1> DEFINE Goal == /\ online' = Sessions
                     /\ \A t \in Sessions : bye'[t] = "no" /\ work'[t].pc \notin {"removed", "empty", "cleared"}
  <1> HIDE DEF Goal
  <1>6. ASSUME NEW s \in Sessions, JoinCheck(s) \/ JoinAdd(s) \/ EnterAndRead(s) PROVE Goal
    BY <1>1, <1>5, <1>6, GoFacts, FinishFacts
      DEF JoinCheck, JoinAdd, EnterAndRead, JoinEnter, JoinState, Steps, Goal
  <1>7. ASSUME NEW s \in Sessions, Push(s) \/ PushMemory(s) \/ JoinMemory(s) \/ Broadcast(s) PROVE Goal
    BY <1>1, <1>5, <1>7, GoFacts, FinishFacts DEF Push, PushMemory, JoinMemory, Broadcast, Steps, Goal
  <1>8. ASSUME NEW s \in Sessions, UpdateCheck(s) PROVE Goal
    BY <1>1, <1>5, <1>8 DEF UpdateCheck, Goal
  <1>9. ASSUME NEW s \in Sessions, Length(s) PROVE Goal
    <2>1. (IF Len(list) >= Threshold THEN "compact" ELSE "stored") \in Steps \ {"removed", "empty", "cleared"}
      BY DEF Steps
    <2> QED
      BY <1>1, <1>5, <1>9, <2>1, GoFacts DEF Length, Goal
  <1>10. ASSUME NEW s \in Sessions, CompactRead(s) \/ CompactWrite(s) PROVE Goal
    BY <1>1, <1>5, <1>10 DEF CompactRead, CompactWrite, Work, Goal
  <1>11. ASSUME NEW s \in Sessions, SendState(s) PROVE Goal
    BY <1>3, <1>11 DEF SendState, Goal
  <1>12. ASSUME NEW s \in Sessions,
                \/ LeaveRemove(s) \/ Disconnect(s) \/ LeaveCount(s) \/ LeaveClear(s) \/ LeaveCleared(s)
                \/ LeaveMemory(s) \/ ByeRemove(s) \/ ByeCount(s) \/ ByeClear(s) \/ ByeCleared(s) \/ ByeMemory(s)
         PROVE FALSE
    BY <1>1, <1>2, <1>3, <1>12 DEF LeaveRemove, Disconnect, LeaveCount, LeaveClear, LeaveCleared, LeaveMemory,
         ByeRemove, ByeCount, ByeClear, ByeCleared, ByeMemory, At
  <1>13. Goal
    BY <1>4, <1>3, <1>6, <1>7, <1>8, <1>9, <1>10, <1>11, <1>12 DEF Next, Goal
  <1> QED
    BY <1>13 DEF Goal

-----------------------------------------------------------------------------
\* A handler goes on: nothing is taken from the clients, and what is on its way stays so.
LEMMA OwedGoesOn ==
  ASSUME DocTypes, OwedIsSent, NEW s \in Sessions, owed' = owed, room \subseteq room',
         \A t \in Sessions : have[t] \subseteq have'[t],
         \A t \in Sessions \ {s} : work'[t] = work[t],
         Sending(s) => Sending(s)' /\ work'[s].update = work[s].update
  PROVE  OwedIsSent'
  <1>1. \A t \in Sessions : Sending(t) => Sending(t)' /\ work'[t].update = work[t].update
    BY DEF Sending
  <1> SUFFICES ASSUME NEW t \in Sessions
               PROVE  /\ t \notin room' => owed'[t] = {}
                      /\ \A u \in owed'[t] : u \in have'[t] \/ \E v \in Sessions : Sending(v)' /\ u \in work'[v].update
    BY DEF OwedIsSent, Sending
  <1> QED
    BY <1>1 DEF OwedIsSent

\* A pushed update is owed to the room and on its way.
LEMMA OwedPush ==
  ASSUME DocTypes, OwedIsSent, NEW s \in Sessions, At(s, "allowed"), Owe(s), UNCHANGED <<room, have>>,
         \A t \in Sessions \ {s} : work'[t] = work[t],
         work'[s].pc \in {"pushed", "stored"}, work'[s].update = work[s].update
  PROVE  OwedIsSent'
  <1>1. \A t \in Sessions : Sending(t) => Sending(t)' /\ work'[t].update = work[t].update
    BY DEF Sending, At
  <1>2. Sending(s)'
    BY DEF Sending
  <1> SUFFICES ASSUME NEW t \in Sessions
               PROVE  /\ t \notin room' => owed'[t] = {}
                      /\ \A u \in owed'[t] : u \in have'[t] \/ \E v \in Sessions : Sending(v)' /\ u \in work'[v].update
    BY DEF OwedIsSent, Sending
  <1> QED
    BY <1>1, <1>2, OweFacts DEF OwedIsSent

\* What is owed is there or on its way, after every step.
LEMMA OwedKept ==
  ASSUME DocTypes, OwedIsSent, [Next]_vars
  PROVE  OwedIsSent'
  <1>1. work \in [Sessions -> Work] /\ have \in [Sessions -> SUBSET Updates]
        /\ owed \in [Sessions -> SUBSET Updates] /\ room \subseteq Sessions
    BY DEF DocTypes
  <1>2. CASE UNCHANGED vars
    BY <1>2, Zenon DEF vars, OwedIsSent, Sending
  <1>3. ASSUME NEW s \in Sessions,
               \/ JoinCheck(s) \/ JoinAdd(s) \/ LeaveCount(s) \/ LeaveClear(s) \/ LeaveCleared(s) \/ LeaveMemory(s)
        PROVE OwedIsSent'
    <2>1. \A t \in Sessions \ {s} : work'[t] = work[t]
      BY <1>1, <1>3, GoFacts, FinishFacts
        DEF JoinCheck, JoinAdd, LeaveCount, LeaveClear, LeaveCleared, LeaveMemory, Steps
    <2>2. ~Sending(s) /\ UNCHANGED <<owed, room, have>>
      BY <1>3 DEF JoinCheck, JoinAdd, LeaveCount, LeaveClear, LeaveCleared, LeaveMemory, At, Sending
    <2> QED
      BY <2>1, <2>2, OwedGoesOn
  <1>4. ASSUME NEW s \in Sessions, JoinEnter(s) PROVE OwedIsSent'
    <2>1. \A t \in Sessions \ {s} : work'[t] = work[t]
      BY <1>1, <1>4, GoFacts, FinishFacts DEF JoinEnter, Steps
    <2>2. ~Sending(s) /\ UNCHANGED <<owed, have>> /\ room \subseteq room'
      BY <1>4 DEF JoinEnter, At, Sending
    <2> QED
      BY <2>1, <2>2, OwedGoesOn
  <1>5. ASSUME NEW s \in Sessions, JoinState(s) \/ JoinMemory(s) \/ SendState(s) PROVE OwedIsSent'
    <2>1. \A t \in Sessions \ {s} : work'[t] = work[t]
      BY <1>1, <1>5, FinishFacts DEF JoinState, JoinMemory, SendState
    <2>2. ~Sending(s) /\ owed' = owed /\ room \subseteq room'
      BY <1>5 DEF JoinState, JoinMemory, SendState, At, Sending
    <2>3. \A t \in Sessions : have[t] \subseteq have'[t]
      BY <1>1, <1>5, ReceiveFacts DEF JoinState, JoinMemory, SendState
    <2> QED
      BY <2>1, <2>2, <2>3, OwedGoesOn
  <1>6. ASSUME NEW s \in Sessions, UpdateCheck(s) PROVE OwedIsSent'
    <2>1. \A t \in Sessions \ {s} : work'[t] = work[t]
      BY <1>1, <1>6 DEF UpdateCheck
    <2>2. ~Sending(s) /\ UNCHANGED <<owed, room>>
      BY <1>6 DEF UpdateCheck, At, Sending
    <2>3. \A t \in Sessions : have[t] \subseteq have'[t]
      BY <1>1, <1>6 DEF UpdateCheck
    <2> QED
      BY <2>1, <2>2, <2>3, OwedGoesOn
  <1>7. ASSUME NEW s \in Sessions, Push(s) \/ PushMemory(s) PROVE OwedIsSent'
    BY <1>1, <1>7, GoFacts, OwedPush DEF Push, PushMemory, Steps
  <1>8. ASSUME NEW s \in Sessions, Length(s) PROVE OwedIsSent'
    <2>1. (IF Len(list) >= Threshold THEN "compact" ELSE "stored") \in Steps \cap {"compact", "stored"}
      BY DEF Steps
    <2>2. /\ \A t \in Sessions \ {s} : work'[t] = work[t]
          /\ work'[s].update = work[s].update /\ work'[s].pc \in {"compact", "stored"}
      BY <1>1, <1>8, <2>1, GoFacts DEF Length
    <2> QED
      BY <1>8, <2>2, OwedGoesOn DEF Length, Sending
  <1>9. ASSUME NEW s \in Sessions, CompactRead(s) \/ CompactWrite(s) PROVE OwedIsSent'
    <2>1. /\ \A t \in Sessions \ {s} : work'[t] = work[t]
          /\ work'[s].update = work[s].update /\ work'[s].pc \in {"copied", "stored"}
      BY <1>1, <1>9 DEF CompactRead, CompactWrite, Work
    <2> QED
      BY <1>9, <2>1, OwedGoesOn DEF CompactRead, CompactWrite, Sending
  <1>10. ASSUME NEW s \in Sessions, Broadcast(s) PROVE OwedIsSent'
    <2>1. \A t \in Sessions \ {s} : work'[t] = work[t]
      BY <1>1, <1>10, FinishFacts DEF Broadcast
    <2>2. /\ \A t \in Sessions : have[t] \subseteq have'[t]
          /\ \A t \in room : work[s].update \subseteq have'[t]
          /\ owed' = owed /\ room' = room
      BY <1>1, <1>10 DEF Broadcast
    <2> SUFFICES ASSUME NEW t \in Sessions
                 PROVE  /\ t \notin room => owed[t] = {}
                        /\ \A u \in owed[t] : u \in have'[t] \/ \E v \in Sessions : Sending(v)' /\ u \in work'[v].update
      BY <2>2 DEF OwedIsSent, Sending
    <2>3. \A v \in Sessions \ {s} : Sending(v) => Sending(v)' /\ work'[v].update = work[v].update
      BY <2>1 DEF Sending
    <2> QED
      BY <2>2, <2>3 DEF OwedIsSent
  <1>11. ASSUME NEW s \in Sessions, LeaveRemove(s) \/ Disconnect(s) PROVE OwedIsSent'
    <2>1. /\ owed'[s] = {} /\ \A t \in Sessions \ {s} : owed'[t] = owed[t]
          /\ room' = room \ {s} /\ have' = have
      BY <1>1, <1>11 DEF LeaveRemove, Disconnect
    <2>2. \A v \in Sessions : Sending(v) => Sending(v)' /\ work'[v].update = work[v].update
      BY <1>1, <1>11, GoFacts DEF LeaveRemove, Disconnect, Sending, At, Steps
    <2> SUFFICES ASSUME NEW t \in Sessions
                 PROVE  /\ t \notin room' => owed'[t] = {}
                        /\ \A u \in owed'[t] : u \in have'[t] \/ \E v \in Sessions : Sending(v)' /\ u \in work'[v].update
      BY DEF OwedIsSent, Sending
    <2> QED
      BY <2>1, <2>2 DEF OwedIsSent
  <1>12. ASSUME NEW s \in Sessions,
                ByeRemove(s) \/ ByeCount(s) \/ ByeClear(s) \/ ByeCleared(s) \/ ByeMemory(s)
         PROVE OwedIsSent'
    <2>1. UNCHANGED <<owed, room, have, work>>
      BY <1>12 DEF ByeRemove, ByeCount, ByeClear, ByeCleared, ByeMemory
    <2> QED
      BY <2>1, Zenon DEF OwedIsSent, Sending
  <1> QED
    BY <1>2, <1>3, <1>4, <1>5, <1>6, <1>7, <1>8, <1>9, <1>10, <1>11, <1>12 DEF Next, EnterAndRead

-----------------------------------------------------------------------------
\* No step takes an update from a client, so what disturbed the document stays.
LEMMA StaysDisturbed ==
  ASSUME DocTypes, DocTypes', [Next]_vars, \A t \in Sessions : have[t] \subseteq have'[t], ~Disturbed'
  PROVE  ~Disturbed /\ Made \subseteq Made' /\ exits = 0 /\ Cardinality(Made') < Threshold
  <1>1. Made \subseteq Made'
    BY DEF Made
  <1>2. /\ IsFiniteSet(Made') /\ Cardinality(Made) \in Nat /\ Cardinality(Made') \in Nat
        /\ exits \in Nat /\ exits' \in Nat /\ Threshold \in Nat
    <2>1. have' \in [Sessions -> SUBSET Updates] /\ Made' = UNION {have'[s] : s \in Sessions}
      BY DEF DocTypes, Made
    <2>2. IsFiniteSet(Made') /\ Cardinality(Made') \in Nat
      BY <2>1, MadeIsFinite
    <2> QED
      BY <2>2, MadeFacts, DocumentAssumption DEF DocTypes
  <1>3. Cardinality(Made) <= Cardinality(Made')
    BY <1>1, <1>2, FS_Subset
  <1>4. exits' = 0 /\ Cardinality(Made') < Threshold
    BY <1>2 DEF Disturbed
  <1> QED
    BY <1>1, <1>2, <1>3, <1>4, ExitsGrow DEF Disturbed

\* A handler goes on without changing the list: who has now read it has what it holds.
LEMMA CompleteGoesOn ==
  ASSUME DocTypes, Undisturbed, NEW s \in Sessions, UNCHANGED <<list, accepted>>, Made \subseteq Made',
         \A t \in Sessions : have[t] \subseteq have'[t],
         \A t \in Sessions \ {s} : work'[t] = work[t],
         Sending(s) => Sending(s)' /\ work'[s].update = work[s].update,
         work'[s].pc \notin {"compact", "copied", "allowed"},
         room' \subseteq room \cup {s},
         s \in room' /\ work'[s].pc # "entered" =>
           (s \in room /\ work[s].pc # "entered") \/ Holds(list) \subseteq have'[s]
  PROVE  Undisturbed'
  <1>1. Entries(list)'
    BY DEF Undisturbed, Entries
  <1>2. FreshUpdates'
    BY DEF Undisturbed, FreshUpdates, At
  <1>3. \A t \in Sessions : Sending(t) => Sending(t)' /\ work'[t].update = work[t].update
    BY DEF Sending
  <1>4. accepted' \subseteq Holds(list')
    BY DEF Undisturbed, ListIsComplete
  <1>5. ASSUME NEW t \in room', work'[t].pc # "entered", NEW u \in accepted'
        PROVE  u \in have'[t] \/ \E v \in Sessions : Sending(v)' /\ u \in work'[v].update
    <2>1. CASE t \in room /\ work[t].pc # "entered"
      <3>1. t \in Sessions /\ (u \in have[t] \/ \E v \in Sessions : Sending(v) /\ u \in work[v].update)
        BY <1>5, <2>1 DEF Undisturbed, ListIsComplete, DocTypes
      <3> QED
        BY <1>3, <3>1
    <2>2. CASE t = s /\ Holds(list) \subseteq have'[s]
      BY <1>4, <1>5, <2>2
    <2>3. room \subseteq Sessions
      BY DEF DocTypes
    <2> QED
      BY <1>5, <2>1, <2>2, <2>3
  <1>6. ListIsComplete'
    BY <1>4, <1>5 DEF ListIsComplete, Holds, Sending
  <1> QED
    BY <1>1, <1>2, <1>6 DEF Undisturbed

\* A new update is not in the list and nobody else's.
LEMMA CompleteUpdate ==
  ASSUME DocTypes, Undisturbed, NEW s \in Sessions, UpdateCheck(s)
  PROVE  Undisturbed' /\ \A t \in Sessions : have[t] \subseteq have'[t]
  <1> DEFINE n == Min(Updates \ Made)
  <1>1. n \in Updates \ Made
    BY NewUpdate DEF UpdateCheck
  <1>2. /\ have' = [have EXCEPT ![s] = have[s] \cup {n}]
        /\ work' = [work EXCEPT ![s] = [pc |-> "allowed", update |-> {n}, copy |-> <<>>]]
        /\ UNCHANGED <<list, room, accepted>> /\ work[s].pc = "idle" /\ s \in room
    BY DEF UpdateCheck, At
  <1> HIDE DEF n
  <1>3. /\ work'[s].pc = "allowed" /\ work'[s].update = {n}
        /\ \A t \in Sessions \ {s} : work'[t] = work[t]
        /\ \A t \in Sessions : have[t] \subseteq have'[t]
        /\ n \in have'[s]
    BY <1>2 DEF DocTypes
  <1>4. Made \subseteq Made' /\ n \in Made'
    BY <1>3 DEF Made
  <1>5. Entries(list)'
    BY <1>2, <1>4 DEF Undisturbed, Entries
  <1>6. \A k \in 1..Len(list) : list[k] # {n}
    BY <1>1 DEF Undisturbed, Entries
  <1>7. \A t \in Sessions : At(t, "allowed") => work[t].update # {n}
    BY <1>1 DEF Undisturbed, FreshUpdates
  <1>8. FreshUpdates'
    BY <1>2, <1>3, <1>4, <1>6, <1>7 DEF Undisturbed, FreshUpdates, At
  <1>9. \A t \in Sessions : Sending(t) => Sending(t)' /\ work'[t].update = work[t].update
    BY <1>2, <1>3 DEF Sending
  <1>10. ASSUME NEW t \in room, work'[t].pc # "entered", NEW u \in accepted
         PROVE  u \in have'[t] \/ \E v \in Sessions : Sending(v)' /\ u \in work'[v].update
    <2>1. t \in Sessions /\ work[t].pc # "entered"
      BY <1>2, <1>3, <1>10 DEF DocTypes
    <2> QED
      BY <1>3, <1>9, <1>10, <2>1 DEF Undisturbed, ListIsComplete
  <1>11. ListIsComplete'
    BY <1>2, <1>10 DEF Undisturbed, ListIsComplete, Holds, Sending
  <1> QED
    BY <1>3, <1>5, <1>8, <1>11 DEF Undisturbed

\* An update is appended to the list.
LEMMA CompletePush ==
  ASSUME DocTypes, Undisturbed, NEW s \in Sessions, At(s, "allowed"), Owe(s), UNCHANGED <<room, have>>,
         \A t \in Sessions \ {s} : work'[t] = work[t],
         work'[s].pc \in {"pushed", "stored"}, work'[s].update = work[s].update,
         list' = Append(list, work[s].update)
  PROVE  Undisturbed'
  <1>1. list \in Seq(SUBSET Updates) /\ work[s].update \in SUBSET Updates
    BY DEF DocTypes, Work
  <1>2. /\ Len(list) \in Nat /\ Len(list') = Len(list) + 1
        /\ \A k \in 1..Len(list) : list'[k] = list[k]
        /\ list'[Len(list) + 1] = work[s].update
        /\ Holds(list') = Holds(list) \cup work[s].update
    BY <1>1, AppendHolds
  <1>3. Made' = Made
    BY DEF Made
  <1>4. /\ \E u \in Made : work[s].update = {u}
        /\ \A k \in 1..Len(list) : list[k] # work[s].update
    BY DEF Undisturbed, FreshUpdates
  <1>5. \A k \in 1..Len(list') : k \in 1..Len(list) \/ k = Len(list) + 1
    BY <1>2
  <1>6. Entries(list)'
    <2>1. ASSUME NEW k \in 1..Len(list') PROVE \E u \in Made' : list'[k] = {u}
      BY <1>2, <1>3, <1>4, <1>5 DEF Undisturbed, Entries
    <2>2. ASSUME NEW j \in 1..Len(list'), NEW k \in 1..Len(list'), list'[j] = list'[k] PROVE j = k
      BY <1>2, <1>4, <1>5, <2>2 DEF Undisturbed, Entries
    <2> QED
      BY <2>1, <2>2 DEF Entries
  <1>7. FreshUpdates'
    <2>1. ASSUME NEW t \in Sessions, work'[t].pc = "allowed"
          PROVE  /\ t # s /\ work'[t] = work[t] /\ At(t, "allowed")
                 /\ work[t].update # work[s].update
      BY <2>1 DEF Undisturbed, FreshUpdates, At
    <2>2. ASSUME NEW t \in Sessions, work'[t].pc = "allowed"
          PROVE  /\ \E u \in Made' : work'[t].update = {u}
                 /\ \A k \in 1..Len(list') : list'[k] # work'[t].update
      BY <1>2, <1>3, <1>5, <2>1, <2>2 DEF Undisturbed, FreshUpdates
    <2>3. ASSUME NEW t \in Sessions, NEW v \in Sessions, work'[t].pc = "allowed", work'[v].pc = "allowed",
                 work'[t].update = work'[v].update PROVE t = v
      BY <2>1, <2>3 DEF Undisturbed, FreshUpdates
    <2>4. \A t \in Sessions : work'[t].pc \notin {"compact", "copied"}
      BY DEF Undisturbed, FreshUpdates
    <2> QED
      BY <2>2, <2>3, <2>4 DEF FreshUpdates, At
  <1>8. \A t \in Sessions : Sending(t) => Sending(t)' /\ work'[t].update = work[t].update
    BY DEF Sending, At
  <1>9. accepted' \subseteq Holds(list')
    BY <1>2, OweFacts DEF Undisturbed, ListIsComplete
  <1>10. ASSUME NEW t \in room, work'[t].pc # "entered", NEW u \in accepted'
         PROVE  u \in have[t] \/ \E v \in Sessions : Sending(v)' /\ u \in work'[v].update
    <2>1. t \in Sessions /\ work[t].pc # "entered"
      BY <1>10 DEF DocTypes, At
    <2>2. CASE u \in accepted
      BY <1>8, <1>10, <2>1, <2>2 DEF Undisturbed, ListIsComplete
    <2>3. CASE u \in work[s].update
      <3>1. Sending(s)'
        BY DEF Sending
      <3> QED
        BY <2>3, <3>1
    <2> QED
      BY <1>10, <2>2, <2>3, OweFacts
  <1>11. ListIsComplete'
    BY <1>9, <1>10 DEF ListIsComplete, Holds, Sending
  <1> QED
    BY <1>6, <1>7, <1>11 DEF Undisturbed

\* An update reaches the clients in the room.
LEMMA CompleteBroadcast ==
  ASSUME DocTypes, Undisturbed, NEW s \in Sessions, Broadcast(s)
  PROVE  Undisturbed'
  <1>1. /\ \A t \in Sessions \ {s} : work'[t] = work[t]
        /\ work'[s].pc = "idle" /\ work[s].pc = "stored"
    BY FinishFacts DEF Broadcast, DocTypes, At
  <1>2. /\ \A t \in Sessions : have[t] \subseteq have'[t]
        /\ \A t \in room : work[s].update \subseteq have'[t]
        /\ UNCHANGED <<list, accepted, room>> /\ room \subseteq Sessions
    BY DEF Broadcast, DocTypes
  <1>3. Made \subseteq Made'
    BY <1>2 DEF Made
  <1>4. Entries(list)'
    BY <1>2, <1>3 DEF Undisturbed, Entries
  <1>5. FreshUpdates'
    BY <1>1, <1>2, <1>3 DEF Undisturbed, FreshUpdates, At
  <1>6. \A t \in Sessions \ {s} : Sending(t) => Sending(t)' /\ work'[t].update = work[t].update
    BY <1>1 DEF Sending
  <1>7. ASSUME NEW t \in room, work'[t].pc # "entered", NEW u \in accepted
        PROVE  u \in have'[t] \/ \E v \in Sessions : Sending(v)' /\ u \in work'[v].update
    <2>1. t \in Sessions /\ work[t].pc # "entered"
      BY <1>1, <1>2, <1>7
    <2>2. u \in have[t] \/ \E v \in Sessions : Sending(v) /\ u \in work[v].update
      BY <1>7, <2>1 DEF Undisturbed, ListIsComplete
    <2> QED
      BY <1>2, <1>6, <2>1, <2>2
  <1>8. ListIsComplete'
    BY <1>2, <1>7 DEF Undisturbed, ListIsComplete, Holds, Sending
  <1> QED
    BY <1>4, <1>5, <1>8 DEF Undisturbed

\* Until it is disturbed the list stays complete.
LEMMA CompleteKept ==
  ASSUME DocInv, DocTypes', [Next]_vars, ~Disturbed'
  PROVE  Undisturbed'
  <1>1. DocTypes /\ NobodyLeft
    BY DEF DocInv
  <1>2. /\ work \in [Sessions -> Work] /\ have \in [Sessions -> SUBSET Updates] /\ room \subseteq Sessions
        /\ list \in Seq(SUBSET Updates)
    BY <1>1 DEF DocTypes
  <1>3. \A t \in Sessions : have[t] \subseteq have'[t]
    <2>1. CASE UNCHANGED have
      BY <2>1
    <2>2. ASSUME NEW s \in Sessions, JoinState(s) \/ JoinMemory(s) \/ SendState(s)
          PROVE  \A t \in Sessions : have[t] \subseteq have'[t]
      BY <1>1, <2>1, <2>2, ReceiveFacts DEF JoinState, JoinMemory, SendState
    <2>3. ASSUME NEW s \in Sessions, UpdateCheck(s) \/ Broadcast(s)
          PROVE  \A t \in Sessions : have[t] \subseteq have'[t]
      BY <1>2, <2>3 DEF UpdateCheck, Broadcast
    <2>4. ASSUME NEW s \in Sessions,
                 \/ JoinCheck(s) \/ JoinAdd(s) \/ JoinEnter(s) \/ Push(s) \/ Length(s) \/ CompactRead(s)
                 \/ CompactWrite(s) \/ PushMemory(s)
          PROVE  UNCHANGED have
      BY <2>4, Zenon DEF JoinCheck, JoinAdd, JoinEnter, Push, Length, CompactRead, CompactWrite, PushMemory
    <2>5. ASSUME NEW s \in Sessions,
                 \/ LeaveRemove(s) \/ Disconnect(s) \/ LeaveCount(s) \/ LeaveClear(s) \/ LeaveCleared(s)
                 \/ LeaveMemory(s) \/ ByeRemove(s) \/ ByeCount(s) \/ ByeClear(s) \/ ByeCleared(s) \/ ByeMemory(s)
          PROVE  UNCHANGED have
      BY <2>5, Zenon DEF LeaveRemove, Disconnect, LeaveCount, LeaveClear, LeaveCleared, LeaveMemory,
           ByeRemove, ByeCount, ByeClear, ByeCleared, ByeMemory
    <2>6. CASE UNCHANGED vars
      BY <2>1, <2>6 DEF vars
    <2> QED
      BY <2>1, <2>2, <2>3, <2>4, <2>5, <2>6 DEF Next, EnterAndRead
  <1>4. ~Disturbed /\ Made \subseteq Made' /\ exits = 0 /\ exits' = 0 /\ Cardinality(Made') < Threshold
    BY <1>1, <1>3, StaysDisturbed DEF Disturbed, DocTypes
  <1>5. Undisturbed /\ online = Sessions /\ \A s \in Sessions : bye[s] = "no" /\ work[s].pc \notin {"removed", "empty", "cleared"}
    BY <1>1, <1>4 DEF DocInv, NobodyLeft
  <1>6. CASE UNCHANGED vars
    <2>1. list' = list /\ have' = have /\ work' = work /\ room' = room /\ accepted' = accepted
      BY <1>6 DEF vars
    <2>2. Made' = Made
      BY <2>1 DEF Made
    <2>3. Entries(list)'
      BY <1>5, <2>1, <2>2 DEF Undisturbed, Entries
    <2>4. FreshUpdates'
      BY <1>5, <2>1, <2>2 DEF Undisturbed, FreshUpdates, At
    <2>5. ListIsComplete'
      BY <1>5, <2>1 DEF Undisturbed, ListIsComplete, Holds, Sending
    <2> QED
      BY <2>3, <2>4, <2>5 DEF Undisturbed
  <1>7. ASSUME NEW s \in Sessions,
               \/ LeaveRemove(s) \/ Disconnect(s) \/ LeaveCount(s) \/ LeaveClear(s) \/ LeaveCleared(s)
               \/ LeaveMemory(s) \/ ByeRemove(s) \/ ByeCount(s) \/ ByeClear(s) \/ ByeCleared(s) \/ ByeMemory(s)
        PROVE FALSE
    BY <1>4, <1>5, <1>7 DEF LeaveRemove, Disconnect, LeaveCount, LeaveClear, LeaveCleared, LeaveMemory,
         ByeRemove, ByeCount, ByeClear, ByeCleared, ByeMemory, At
  <1>8. ASSUME NEW s \in Sessions, CompactRead(s) \/ CompactWrite(s) PROVE FALSE
    BY <1>5, <1>8 DEF CompactRead, CompactWrite, At, Undisturbed, FreshUpdates
  <1>9. Len(list) <= Cardinality(Made) /\ Len(list) < Threshold
    <2>1. Len(list) <= Cardinality(Made) /\ Cardinality(Made) < Threshold
      BY <1>1, <1>2, <1>4, <1>5, ListIsShort, MadeFacts, DocumentAssumption DEF Undisturbed, Disturbed
    <2> QED
      BY <1>1, <1>2, <2>1, MadeFacts, LenProperties, DocumentAssumption
  <1>10. ASSUME NEW s \in Sessions, JoinCheck(s) \/ JoinAdd(s) PROVE Undisturbed'
    <2>1. /\ \A t \in Sessions \ {s} : work'[t] = work[t]
          /\ work'[s].pc \in {"checked", "added"} /\ work[s].pc \in {"idle", "checked"}
      BY <1>2, <1>10, GoFacts DEF JoinCheck, JoinAdd, Steps, At
    <2>2. UNCHANGED <<list, accepted, room>> /\ ~Sending(s)
      BY <1>10, <2>1 DEF JoinCheck, JoinAdd, Sending
    <2> QED
      BY <1>1, <1>3, <1>4, <1>5, <2>1, <2>2, CompleteGoesOn
  <1>11. ASSUME NEW s \in Sessions, JoinEnter(s) PROVE Undisturbed'
    <2>1. /\ \A t \in Sessions \ {s} : work'[t] = work[t]
          /\ work'[s].pc = "entered" /\ work[s].pc = "added" /\ room' = room \cup {s}
      BY <1>2, <1>5, <1>11, GoFacts DEF JoinEnter, Steps, At
    <2>2. UNCHANGED <<list, accepted>> /\ ~Sending(s)
      BY <1>11, <2>1 DEF JoinEnter, Sending
    <2> QED
      BY <1>1, <1>3, <1>4, <1>5, <2>1, <2>2, CompleteGoesOn
  <1>12. ASSUME NEW s \in Sessions, JoinState(s) \/ JoinMemory(s) PROVE Undisturbed'
    <2>1. /\ \A t \in Sessions \ {s} : work'[t] = work[t]
          /\ work'[s].pc = "idle" /\ work[s].pc \in {"entered", "checked"} /\ room' \subseteq room \cup {s}
      BY <1>2, <1>5, <1>12, FinishFacts DEF JoinState, JoinMemory, At
    <2>2. UNCHANGED <<list, accepted>> /\ ~Sending(s)
      BY <1>12, <2>1 DEF JoinState, JoinMemory, Sending
    <2>3. Holds(list) \subseteq have'[s]
      BY <1>1, <1>5, <1>12, ReceiveFacts DEF JoinState, JoinMemory
    <2> QED
      BY <1>1, <1>3, <1>4, <1>5, <2>1, <2>2, <2>3, CompleteGoesOn
  <1>13. ASSUME NEW s \in Sessions, SendState(s) PROVE Undisturbed'
    <2>1. work' = work /\ work[s].pc = "idle" /\ UNCHANGED <<list, accepted, room>>
      BY <1>13 DEF SendState, At
    <2>2. Holds(list) \subseteq have'[s] /\ ~Sending(s)
      BY <1>1, <1>13, <2>1, ReceiveFacts DEF SendState, Sending
    <2> QED
      BY <1>1, <1>3, <1>4, <1>5, <2>1, <2>2, CompleteGoesOn
  <1>14. ASSUME NEW s \in Sessions, Length(s) PROVE Undisturbed'
    <2>1. ~(Len(list) >= Threshold)
      BY <1>2, <1>9, LenProperties, DocumentAssumption
    <2>2. Go(s, "stored") /\ work[s].pc = "pushed" /\ UNCHANGED <<list, accepted, room>>
      BY <1>14, <2>1 DEF Length, At
    <2>3. /\ \A t \in Sessions \ {s} : work'[t] = work[t]
          /\ work'[s].pc = "stored" /\ work'[s].update = work[s].update
      BY <1>2, <2>2, GoFacts DEF Steps
    <2>4. Sending(s)'
      BY <2>3 DEF Sending
    <2> QED
      BY <1>1, <1>3, <1>4, <1>5, <2>2, <2>3, <2>4, CompleteGoesOn
  <1>15. ASSUME NEW s \in Sessions, Push(s) PROVE Undisturbed'
    BY <1>1, <1>2, <1>5, <1>15, GoFacts, CompletePush DEF Push, Steps
  <1>16. ASSUME NEW s \in Sessions, PushMemory(s) PROVE Undisturbed'
    <2>1. /\ \A t \in Sessions \ {s} : work'[t] = work[t]
          /\ work'[s].pc = "stored" /\ work'[s].update = work[s].update /\ At(s, "allowed")
      BY <1>2, <1>16, GoFacts DEF PushMemory, Steps
    <2>2. list' = Append(list, work[s].update)
      <3> DEFINE l == Append(list, work[s].update)
      <3>1. work[s].update \in SUBSET Updates
        BY <1>2 DEF Work
      <3>2. /\ l \in Seq(SUBSET Updates) /\ Len(list) \in Nat /\ Len(l) = Len(list) + 1
            /\ \A k \in 1..Len(list) : l[k] = list[k]
            /\ l[Len(list) + 1] = work[s].update
        BY <1>2, <3>1, AppendHolds
      <3> HIDE DEF l
      <3>3. /\ \E u \in Made : work[s].update = {u}
            /\ \A k \in 1..Len(list) : list[k] # work[s].update
        BY <1>5, <2>1 DEF Undisturbed, FreshUpdates
      <3>4. \A k \in 1..Len(l) : k \in 1..Len(list) \/ k = Len(list) + 1
        BY <3>2
      <3>5. \A k \in 1..Len(l) : \E u \in Made : l[k] = {u}
        BY <1>5, <3>2, <3>3, <3>4 DEF Undisturbed, Entries
      <3>6. \A j, k \in 1..Len(l) : l[j] = l[k] => j = k
        BY <1>5, <3>2, <3>3, <3>4 DEF Undisturbed, Entries
      <3>7. Len(l) <= Cardinality(Made) /\ Cardinality(Made) < Threshold /\ Cardinality(Made) \in Nat
        BY <1>1, <1>4, <3>2, <3>5, <3>6, ListIsShort, MadeFacts, DocumentAssumption DEF Entries, Disturbed
      <3>8. Len(list) + 1 < Threshold
        BY <3>2, <3>7, DocumentAssumption
      <3> QED
        BY <1>1, <1>16, <3>8, PushMemoryFacts
    <2> QED
      BY <1>1, <1>5, <1>16, <2>1, <2>2, CompletePush DEF PushMemory
  <1> QED
    BY <1>1, <1>5, <1>6, <1>7, <1>8, <1>10, <1>11, <1>12, <1>13, <1>14, <1>15, <1>16, CompleteUpdate, CompleteBroadcast
      DEF Next, EnterAndRead

-----------------------------------------------------------------------------
\* The invariant of the document holds at the start.
LEMMA DocInit == Init => DocInv
  <1> SUFFICES ASSUME Init PROVE DocInv
    OBVIOUS
  <1>1. IdleWork \in Work /\ IdleWork.pc = "idle"
    BY EmptySeq DEF IdleWork, Work, Steps
  <1>2. Len(list) = 0 /\ accepted = {}
    BY EmptySeq DEF Init
  <1>3. DocTypes
    BY <1>1, EmptySeq DEF Init, DocTypes
  <1>4. \A s \in Sessions : work[s].pc = "idle" /\ owed[s] = {} /\ bye[s] = "no"
    BY <1>1 DEF Init
  <1>5. OwedIsSent /\ NobodyLeft
    BY <1>4 DEF Init, OwedIsSent, NobodyLeft
  <1>6. Undisturbed
    BY <1>2, <1>4 DEF Init, Undisturbed, Entries, FreshUpdates, ListIsComplete, At
  <1> QED
    BY <1>2, <1>3, <1>5, <1>6 DEF DocInv

\* The invariant of the document is inductive.
LEMMA DocStep == DocInv /\ [Next]_vars => DocInv'
  <1> SUFFICES ASSUME DocInv, [Next]_vars PROVE DocInv'
    OBVIOUS
  <1>1. DocTypes'
    BY TypesKept DEF DocInv
  <1>2. OwedIsSent' /\ NobodyLeft'
    BY OwedKept, LeftKept DEF DocInv
  <1>3. ~Disturbed' => Undisturbed'
    BY <1>1, CompleteKept
  <1>4. ~redis' => accepted' \subseteq Holds(list')
    BY MemoryKept DEF DocInv
  <1> QED
    BY <1>1, <1>2, <1>3, <1>4 DEF DocInv, Holds

\* In a single process, every update stored since the document was last unused is in
\* its list while somebody uses it, for any number of sessions and updates and any
\* COMPACTION_THRESHOLD: neither a compaction nor a leave or disconnect beside a join
\* drops one.
THEOREM UpdatesAreNotLost == Spec => []NothingLost
  <1>1. DocInv => NothingLost
    BY DEF DocInv, NothingLost, Content, Holds
  <1> QED
    BY <1>1, DocInit, DocStep, PTL DEF Spec

\* When no handler is at work, every client in the room has every update stored since
\* it entered, with Redis or without, and until the first compaction or exit also
\* every earlier one: for any number of sessions and updates.
THEOREM ClientsConverge == Spec => []MembersConverge
  <1>1. DocInv => MembersConverge
    <2> SUFFICES ASSUME DocInv, \A s \in Sessions : At(s, "idle"), NEW s \in room
                 PROVE  /\ owed[s] \subseteq have[s]
                        /\ ~Disturbed => accepted \subseteq have[s]
      BY DEF MembersConverge
    <2>1. s \in Sessions /\ \A t \in Sessions : ~Sending(t) /\ work[t].pc # "entered"
      BY DEF DocInv, DocTypes, At, Sending
    <2>2. owed[s] \subseteq have[s]
      BY <2>1 DEF DocInv, OwedIsSent
    <2>3. ~Disturbed => accepted \subseteq have[s]
      BY <2>1 DEF DocInv, Undisturbed, ListIsComplete
    <2> QED
      BY <2>2, <2>3
  <1> QED
    BY <1>1, DocInit, DocStep, PTL DEF Spec

-----------------------------------------------------------------------------
(* The usage of a model *)

Copies == [Users -> Usage!Ages]

UsageTypes ==
  /\ entry \in [in : SUBSET Users, age : Copies] /\ report \in Copies /\ uOnline \subseteq Users
  /\ op \in [Nodes -> [kind : {"idle", "usage", "disconnect", "clean"}, who : SUBSET Users,
                       copy : Copies, in : SUBSET Users]]

\* A report of a session in the pool that is not too old is in the entry, with its age.
ReportsAreKept ==
  \A s \in uOnline : report[s] <= Timeout => s \in entry.in /\ entry.age[s] = report[s]

\* What the process is about to write back is what the entry still is, and a session
\* it is about to take out has left the pool.
CopyIsCurrent ==
  \A n \in Nodes : op[n].kind # "idle" =>
    /\ op[n].in = entry.in /\ op[n].copy = entry.age
    /\ op[n].kind = "disconnect" => op[n].who \cap uOnline = {}

UsageInv == UsageTypes /\ ReportsAreKept /\ CopyIsCurrent

\* The invariant of ModelInUseIsListed is inductive in one process.
LEMMA UsageStep ==
  ASSUME Usage!UsageAssumption, \A m, n \in Nodes : m = n, UsageInv, [Usage!Next]_Usage!vars
  PROVE  UsageInv'
  <1> USE DEF Usage!UsageAssumption
  <1>0. Timeout \in Nat /\ Usage!Never = Timeout + 1 /\ Usage!Ages = 0..(Timeout + 1)
    BY DEF Usage!Never, Usage!Ages
  <1>t. UsageTypes
    BY DEF UsageInv
  <1>1. CASE UNCHANGED Usage!vars
    BY <1>1 DEF Usage!vars, UsageInv, UsageTypes, ReportsAreKept, CopyIsCurrent
  <1>2. ASSUME NEW n \in Nodes, NEW kind \in {"usage", "disconnect", "clean"}, NEW who \in SUBSET Users,
               Usage!Read(n, kind, who), UNCHANGED <<entry, report>>, uOnline' \subseteq uOnline,
               kind = "disconnect" => who \cap uOnline' = {}
        PROVE UsageInv'
    <2>1. /\ op' \in [Nodes -> [kind : {"idle", "usage", "disconnect", "clean"}, who : SUBSET Users,
                                copy : Copies, in : SUBSET Users]]
          /\ op'[n].kind = kind /\ op'[n].who = who /\ op'[n].in = entry.in /\ op'[n].copy = entry.age
      BY <1>2, <1>t DEF Usage!Read, UsageTypes
    <2>2. UsageTypes' /\ ReportsAreKept'
      BY <1>2, <1>t, <2>1 DEF UsageTypes, UsageInv, ReportsAreKept
    <2>3. CopyIsCurrent'
      BY <1>2, <2>1 DEF CopyIsCurrent
    <2> QED
      BY <2>2, <2>3 DEF UsageInv
  <1>3. ASSUME NEW s \in Users, Usage!UsageRead(s) PROVE UsageInv'
    BY <1>2, <1>3 DEF Usage!UsageRead
  <1>4. ASSUME NEW s \in Users, Usage!DisconnectRead(s) PROVE UsageInv'
    BY <1>2, <1>4 DEF Usage!DisconnectRead
  <1>5. ASSUME NEW n \in Nodes, Usage!CleanRead(n) PROVE UsageInv'
    BY <1>2, <1>5 DEF Usage!CleanRead
  <1>6. ASSUME NEW n \in Nodes, op' = [op EXCEPT ![n] = Usage!Idle]
        PROVE  /\ op' \in [Nodes -> [kind : {"idle", "usage", "disconnect", "clean"}, who : SUBSET Users,
                                     copy : Copies, in : SUBSET Users]]
               /\ CopyIsCurrent'
    <2>1. Usage!Idle \in [kind : {"idle", "usage", "disconnect", "clean"}, who : SUBSET Users,
                          copy : Copies, in : SUBSET Users] /\ Usage!Idle.kind = "idle"
      BY <1>0 DEF Usage!Idle, Copies
    <2>2. op'[n] = Usage!Idle
      BY <1>6, <1>t DEF UsageTypes
    <2> QED
      BY <1>6, <1>t, <2>1, <2>2 DEF UsageTypes, CopyIsCurrent
  <1>7. ASSUME NEW n \in Nodes, NEW gone \in SUBSET Users
        PROVE  /\ Usage!Without(n, gone) \in [in : SUBSET Users, age : Copies]
               /\ Usage!Without(n, gone).in = op[n].in \ gone
               /\ \A s \in Users \ gone : Usage!Without(n, gone).age[s] = op[n].copy[s]
    <2>1. op[n].in \in SUBSET Users /\ op[n].copy \in Copies
      BY <1>t DEF UsageTypes
    <2> QED
      BY <1>0, <2>1 DEF Usage!Without, Copies
  <1>8. ASSUME NEW n \in Nodes, Usage!UsageWrite(n) PROVE UsageInv'
    <2>1. /\ op[n].kind = "usage" /\ op[n].in = entry.in /\ op[n].copy = entry.age
          /\ op[n].who \in SUBSET Users /\ op[n].in \in SUBSET Users /\ op[n].copy \in Copies
      BY <1>8, <1>t DEF Usage!UsageWrite, UsageInv, UsageTypes, CopyIsCurrent
    <2>2. /\ entry'.in = entry.in \cup op[n].who /\ uOnline' = uOnline
          /\ \A s \in Users : entry'.age[s] = IF s \in op[n].who THEN 0 ELSE entry.age[s]
          /\ \A s \in Users : report'[s] = IF s \in op[n].who THEN 0 ELSE report[s]
      BY <1>8, <2>1 DEF Usage!UsageWrite
    <2>3. entry' \in [in : SUBSET Users, age : Copies] /\ report' \in Copies
      BY <1>0, <1>8, <1>t, <2>1 DEF Usage!UsageWrite, Copies, UsageTypes
    <2>4. ReportsAreKept'
      BY <1>t, <2>2 DEF UsageInv, ReportsAreKept, UsageTypes
    <2> QED
      BY <1>6, <1>8, <1>t, <2>2, <2>3, <2>4 DEF UsageInv, UsageTypes, Usage!UsageWrite
  <1>9. ASSUME NEW n \in Nodes, NEW gone \in SUBSET Users, op[n].kind # "idle",
               entry' = entry \/ entry' = Usage!Without(n, gone),
               \A s \in gone : s \in uOnline => report[s] > Timeout,
               op' = [op EXCEPT ![n] = Usage!Idle], UNCHANGED <<uOnline, report>>
        PROVE UsageInv'
    <2>1. op[n].in = entry.in /\ op[n].copy = entry.age
      BY <1>9 DEF UsageInv, CopyIsCurrent
    <2>2. UsageTypes'
      <3>1. entry' \in [in : SUBSET Users, age : Copies]
        BY <1>7, <1>9, <1>t DEF UsageTypes
      <3>2. op' \in [Nodes -> [kind : {"idle", "usage", "disconnect", "clean"}, who : SUBSET Users,
                               copy : Copies, in : SUBSET Users]]
        BY <1>6, <1>9
      <3> QED
        BY <1>9, <1>t, <3>1, <3>2 DEF UsageTypes
    <2>3. ReportsAreKept'
      <3> SUFFICES ASSUME NEW s \in uOnline, report[s] <= Timeout
                   PROVE  s \in entry'.in /\ entry'.age[s] = report[s]
        BY <1>9 DEF ReportsAreKept
      <3>1. s \in Users /\ s \in entry.in /\ entry.age[s] = report[s] /\ report[s] \in Int
        BY <1>0, <1>t DEF UsageInv, ReportsAreKept, UsageTypes, Copies
      <3>2. s \notin gone
        BY <1>0, <1>9, <3>1
      <3> QED
        BY <1>7, <1>9, <2>1, <3>1, <3>2
    <2> QED
      BY <1>6, <1>9, <2>2, <2>3 DEF UsageInv
  <1>10. ASSUME NEW n \in Nodes, Usage!DisconnectWrite(n) PROVE UsageInv'
    <2>1. op[n].who \in SUBSET Users /\ op[n].who \cap uOnline = {}
      BY <1>10, <1>t DEF Usage!DisconnectWrite, UsageInv, CopyIsCurrent, UsageTypes
    <2> QED
      BY <1>9, <1>10, <2>1 DEF Usage!DisconnectWrite
  <1>11. ASSUME NEW n \in Nodes, Usage!CleanWrite(n) PROVE UsageInv'
    <2> DEFINE expired == {s \in op[n].in : op[n].copy[s] > Timeout}
    <2>1. op[n].in = entry.in /\ op[n].copy = entry.age
      BY <1>11 DEF Usage!CleanWrite, UsageInv, CopyIsCurrent
    <2>2. \A s \in expired : s \in uOnline => report[s] > Timeout
      <3> SUFFICES ASSUME NEW s \in expired, s \in uOnline PROVE report[s] > Timeout
        OBVIOUS
      <3>1. s \in Users /\ entry.age[s] > Timeout
        BY <1>t, <2>1 DEF UsageTypes
      <3>2. report[s] \in Int
        BY <1>0, <1>t, <3>1 DEF UsageTypes, Copies
      <3>3. ~(report[s] <= Timeout)
        BY <1>0, <3>1, <3>2 DEF UsageInv, ReportsAreKept
      <3> QED
        BY <1>0, <3>2, <3>3
    <2>3. expired \in SUBSET Users
      BY <1>t DEF UsageTypes
    <2>4. entry' = entry \/ entry' = Usage!Without(n, expired)
      BY <1>11 DEF Usage!CleanWrite
    <2> HIDE DEF expired
    <2> QED
      BY <1>9, <1>11, <2>2, <2>3, <2>4 DEF Usage!CleanWrite
  <1>12. ASSUME Usage!Tick PROVE UsageInv'
    <2>1. /\ entry'.in = entry.in /\ uOnline' = uOnline /\ op' = op
          /\ \A n \in Nodes : op[n].kind = "idle"
          /\ \A s \in entry.in : entry'.age[s] = Usage!Older(entry.age[s])
          /\ \A s \in Users : report'[s] = Usage!Older(report[s])
      BY <1>12, <1>t DEF Usage!Tick, UsageTypes
    <2>2. \A a \in Usage!Ages : Usage!Older(a) \in Usage!Ages /\ (Usage!Older(a) <= Timeout => a <= Timeout)
      BY <1>0 DEF Usage!Older
    <2>3. UsageTypes'
      <3>1. report' \in Copies
        BY <1>12, <1>t, <2>2 DEF Usage!Tick, UsageTypes, Copies
      <3>2. entry' = [in |-> entry.in, age |-> [s \in Users |->
                        IF s \in entry.in THEN Usage!Older(entry.age[s]) ELSE Usage!Never]]
        BY <1>12, <1>t DEF Usage!Tick, UsageTypes
      <3>3. [s \in Users |-> IF s \in entry.in THEN Usage!Older(entry.age[s]) ELSE Usage!Never] \in Copies
        BY <1>0, <1>t, <2>2 DEF UsageTypes, Copies
      <3> QED
        BY <1>t, <2>1, <3>1, <3>2, <3>3 DEF UsageTypes
    <2>4. ReportsAreKept'
      BY <1>t, <2>1, <2>2 DEF UsageInv, ReportsAreKept, UsageTypes, Copies
    <2> QED
      BY <2>1, <2>3, <2>4 DEF UsageInv, CopyIsCurrent
  <1> QED
    BY <1>1, <1>3, <1>4, <1>5, <1>8, <1>10, <1>11, <1>12 DEF Usage!Next

\* get_models_in_use lists a model as long as a connected session has reported it
\* within TIMEOUT_DURATION, for any number of sessions and any timeout, when one
\* process keeps USAGE_POOL: reports, disconnects and cleanups in any order.
THEOREM ModelInUseIsListed ==
  Usage!UsageAssumption /\ (\A m, n \in Nodes : m = n) /\ Usage!Spec => []UsageListed
  <1> SUFFICES ASSUME Usage!UsageAssumption, \A m, n \in Nodes : m = n
               PROVE  Usage!Spec => []UsageListed
    OBVIOUS
  <1>1. Usage!Init => UsageInv
    <2> SUFFICES ASSUME Usage!Init PROVE UsageInv
      OBVIOUS
    <2>1. Timeout \in Nat /\ Usage!Never = Timeout + 1 /\ Usage!Ages = 0..(Timeout + 1)
      BY DEF Usage!Never, Usage!Ages, Usage!UsageAssumption
    <2>2. Usage!Idle \in [kind : {"idle", "usage", "disconnect", "clean"}, who : SUBSET Users,
                          copy : Copies, in : SUBSET Users] /\ Usage!Idle.kind = "idle"
      BY <2>1 DEF Usage!Idle, Copies
    <2>3. UsageTypes
      BY <2>1, <2>2 DEF UsageTypes, Usage!Init, Copies
    <2>4. ReportsAreKept
      BY <2>1 DEF Usage!Init, ReportsAreKept
    <2> QED
      BY <2>2, <2>3, <2>4 DEF Usage!Init, UsageInv, CopyIsCurrent
  <1>2. UsageInv /\ [Usage!Next]_Usage!vars => UsageInv'
    BY UsageStep
  <1>3. UsageInv => UsageListed
    BY DEF UsageInv, ReportsAreKept, UsageListed, Usage!UsageListed
  <1> QED
    BY <1>1, <1>2, <1>3, PTL DEF Usage!Spec
=============================================================================
