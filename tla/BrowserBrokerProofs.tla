------------------------- MODULE BrowserBrokerProofs -------------------------
(***************************************************************************)
(* Proofs about BrowserBroker for any number of devices, sockets, sessions *)
(* and commands.                                                           *)
(***************************************************************************)
EXTENDS BrowserBroker, FiniteSetTheorems, TLAPS

\* Subsets of the commands are finite, and what Reads selects is one of them.
LEMMA FiniteReads ==
  ASSUME NEW C \in SUBSET Commands, NEW d
  PROVE  /\ IsFiniteSet(C) /\ Cardinality(C) \in Nat
         /\ Reads(C, d) \in SUBSET C
         /\ IsFiniteSet(Reads(C, d)) /\ Cardinality(Reads(C, d)) \in Nat
  <1>1. IsFiniteSet(C) /\ Cardinality(C) \in Nat
    BY FS_Subset, FS_CardinalityType, BrokerAssumption
  <1>2. Reads(C, d) \in SUBSET C
    BY DEF Reads
  <1> QED
    BY <1>1, <1>2, FS_Subset, FS_CardinalityType

\* Settling pending commands keeps the command variables in their types.
LEMMA SettleType ==
  ASSUME TypeOK, NEW C \in SUBSET pending, NEW o \in {"value", "failed"}, Settle(C, o)
  PROVE  /\ pending' \subseteq Commands
         /\ mutating' \subseteq Devices
         /\ reading' \in [Devices -> Nat]
         /\ future' \in [Commands -> {"unset", "value", "failed"}]
         /\ transport' \in [Commands -> {"none", "running", "done"}]
  <1>1. pending' \subseteq Commands /\ mutating' \subseteq Devices
    BY DEF TypeOK, Settle
  <1>2. reading' \in [Devices -> Nat]
    <2>1. \A d \in Devices : Cardinality(Reads(C, d)) \in Nat
      BY FiniteReads DEF TypeOK
    <2> QED
      BY <2>1 DEF TypeOK, Settle
  <1>3. /\ future' \in [Commands -> {"unset", "value", "failed"}]
        /\ transport' \in [Commands -> {"none", "running", "done"}]
    BY DEF TypeOK, Settle
  <1> QED
    BY <1>1, <1>2, <1>3

\* What a step can do to the commands: dispatch one, settle some of the pending
\* ones, end an empty transport task, let a caller return, or nothing.
LEMMA CommandShape ==
  ASSUME TypeOK, Next
  PROVE  \/ \E c \in Commands, s \in Sessions, m \in BOOLEAN : Dispatch(c, s, m)
         \/ /\ \E C \in SUBSET pending, o \in {"value", "failed"} : Settle(C, o)
            /\ UNCHANGED <<req, sequences>>
            /\ \/ UNCHANGED caller
               \/ \E c \in Commands : DispatchAbandon(c)
         \/ \E c \in Commands : TransportEmpty(c) \/ DispatchReturn(c)
         \/ UNCHANGED cmdVars
  <1>1. CASE SocketStep
    <2>1. CASE \E i \in Sids : JoinFinish(i)
      BY <2>1 DEF JoinFinish, LostWith
    <2>2. CASE \E i \in Sids : Disconnect(i)
      BY <2>2 DEF Disconnect, LostWith
    <2>3. CASE \/ \E i \in Sids : Connect(i)
               \/ \E i \in Sids, d \in Devices : JoinStart(i, d)
               \/ \E d \in Devices : Revoke(d)
      BY <2>3 DEF Connect, JoinStart, Revoke, cmdVars
    <2> QED
      BY <1>1, <2>1, <2>2, <2>3 DEF SocketStep
  <1>2. CASE SessionStep
    <2>1. CASE \E i \in Sids, s \in Sessions, t \in Tabs : OpenSession(i, s, t)
      BY <2>1 DEF OpenSession, cmdVars
    <2>2. CASE \E i \in Sids, s \in Sessions : CloseSession(i, s)
      BY <2>2 DEF CloseSession
    <2> QED
      BY <1>2, <2>1, <2>2 DEF SessionStep
  <1>3. CASE CommandStep
    <2>1. CASE \E c \in Commands : DispatchAbandon(c)
      <3>1. PICK c \in Commands : DispatchAbandon(c)
        BY <2>1
      <3>2. Settle(pending \cap {c}, "failed") /\ UNCHANGED <<req, sequences>>
        BY <3>1 DEF DispatchAbandon
      <3> QED
        BY <3>1, <3>2
    <2>2. CASE \E c \in Commands : Cancel(c)
      BY <2>2 DEF Cancel
    <2>3. CASE \E c \in Commands, o \in {"value", "failed"} : TransportAnswer(c, o)
      BY <2>3 DEF TransportAnswer
    <2>4. CASE \E i \in Sids, c \in Commands, o \in {"value", "failed"} : CommandResult(i, c, o)
      BY <2>4 DEF CommandResult, ResultAccepted
    <2> QED
      BY <1>3, <2>1, <2>2, <2>3, <2>4 DEF CommandStep
  <1> QED
    BY <1>1, <1>2, <1>3 DEF Next

-----------------------------------------------------------------------------
(* Types *)

\* Every step keeps the commands and the marks in their types.
LEMMA CommandTypes ==
  ASSUME TypeOK, [Next]_vars
  PROVE  /\ req' \in [Commands -> Request \cup {NoRequest}]
         /\ pending' \subseteq Commands
         /\ mutating' \subseteq Devices
         /\ reading' \in [Devices -> Nat]
         /\ sequences' \in [Devices -> Nat]
         /\ future' \in [Commands -> {"unset", "value", "failed"}]
         /\ transport' \in [Commands -> {"none", "running", "done"}]
         /\ caller' \in [Commands -> {"idle", "waiting", "value", "failed"}]
  <1>1. CASE \E c \in Commands, s \in Sessions, m \in BOOLEAN : Dispatch(c, s, m)
    <2>1. PICK c \in Commands, s \in Sessions, m \in BOOLEAN : Dispatch(c, s, m)
      BY <1>1
    <2>2. Home[s] \in Devices /\ sequences[Home[s]] + 1 \in Nat
      BY BrokerAssumption DEF TypeOK
    <2>3. [session |-> s, mutating |-> m, sequence |-> sequences[Home[s]] + 1] \in Request
      BY <2>2 DEF Request
    <2>4. req' \in [Commands -> Request \cup {NoRequest}]
      BY <2>1, <2>3 DEF Dispatch, TypeOK
    <2>5. /\ pending' \subseteq Commands /\ mutating' \subseteq Devices
          /\ future' \in [Commands -> {"unset", "value", "failed"}]
          /\ transport' \in [Commands -> {"none", "running", "done"}]
          /\ caller' \in [Commands -> {"idle", "waiting", "value", "failed"}]
      BY <2>1, <2>2 DEF Dispatch, TypeOK
    <2>6. reading' \in [Devices -> Nat] /\ sequences' \in [Devices -> Nat]
      BY <2>1, <2>2 DEF Dispatch, TypeOK
    <2> QED
      BY <2>4, <2>5, <2>6
  <1>2. CASE /\ \E C \in SUBSET pending, o \in {"value", "failed"} : Settle(C, o)
             /\ UNCHANGED <<req, sequences>>
             /\ \/ UNCHANGED caller
                \/ \E c \in Commands : DispatchAbandon(c)
    <2>1. PICK C \in SUBSET pending, o \in {"value", "failed"} : Settle(C, o)
      BY <1>2
    <2>2. caller' \in [Commands -> {"idle", "waiting", "value", "failed"}]
      BY <1>2 DEF DispatchAbandon, TypeOK
    <2> QED
      BY <1>2, <2>1, <2>2, SettleType DEF TypeOK
  <1>3. CASE \E c \in Commands : TransportEmpty(c) \/ DispatchReturn(c)
    <2>1. PICK c \in Commands : TransportEmpty(c) \/ DispatchReturn(c)
      BY <1>3
    <2>2. CASE TransportEmpty(c)
      BY <2>2 DEF TransportEmpty, TypeOK
    <2>3. CASE DispatchReturn(c)
      BY <2>3 DEF DispatchReturn, TypeOK
    <2> QED
      BY <2>1, <2>2, <2>3
  <1>4. CASE UNCHANGED cmdVars
    BY <1>4 DEF cmdVars, TypeOK
  <1>5. CASE UNCHANGED vars
    BY <1>5 DEF vars, TypeOK
  <1> QED
    BY <1>1, <1>2, <1>3, <1>4, <1>5, CommandShape

\* Every step keeps the sockets, devices and sessions in their types.
LEMMA PoolTypes ==
  ASSUME TypeOK, [Next]_vars
  PROVE  /\ socket' \in [Sids -> {"new", "open", "closed"}]
         /\ active' \subseteq Devices
         /\ joining' \in [Sids -> Devices \cup {None}]
         /\ devices' \in [Devices -> Sids \cup {None}]
         /\ sessions' \in [Sessions -> [sid : Sids \cup {None}, tab : Tabs \cup {None}]]
  <1> USE DEF TypeOK, sockVars, poolVars, NoSession, DevicesWithout, SessionsWithout
  <1>1. CASE \E i \in Sids : Connect(i)
    BY <1>1 DEF Connect
  <1>2. CASE \E i \in Sids : JoinFinish(i)
    BY <1>2 DEF JoinFinish
  <1>3. CASE \E i \in Sids : Disconnect(i)
    BY <1>3 DEF Disconnect
  <1>4. CASE \E i \in Sids, d \in Devices : JoinStart(i, d)
    BY <1>4 DEF JoinStart
  <1>5. CASE \E d \in Devices : Revoke(d)
    BY <1>5 DEF Revoke
  <1>6. CASE \E i \in Sids, s \in Sessions, t \in Tabs : OpenSession(i, s, t)
    BY <1>6 DEF OpenSession
  <1>7. CASE \E i \in Sids, s \in Sessions : CloseSession(i, s)
    BY <1>7 DEF CloseSession
  <1>8. CASE CommandStep
    BY <1>8 DEF CommandStep, Dispatch, DispatchReturn, DispatchAbandon, Cancel,
                TransportEmpty, TransportAnswer, CommandResult
  <1>9. CASE UNCHANGED vars
    BY <1>9 DEF vars
  <1> QED
    BY <1>1, <1>2, <1>3, <1>4, <1>5, <1>6, <1>7, <1>8, <1>9 DEF Next, SocketStep, SessionStep

\* The state of the broker keeps its types in every behaviour: in particular
\* the read counters never go below zero, whatever ends the commands.
THEOREM TypeCorrect == Spec => []TypeOK
  <1>1. Init => TypeOK
    BY DEF Init, TypeOK, NoSession
  <1>2. TypeOK /\ [Next]_vars => TypeOK'
    BY CommandTypes, PoolTypes DEF TypeOK
  <1> QED
    BY <1>1, <1>2, PTL DEF Spec

-----------------------------------------------------------------------------
(* Commands *)

\* Taking a part out of a finite set takes its size off.
LEMMA CardinalityWithout ==
  ASSUME NEW S, IsFiniteSet(S), NEW T \in SUBSET S
  PROVE  Cardinality(S \ T) = Cardinality(S) - Cardinality(T)
  <1>1. S \cap T = T
    OBVIOUS
  <1>2. Cardinality(S \ T) = Cardinality(S) - Cardinality(S \cap T)
    BY FS_Difference
  <1> QED
    BY <1>1, <1>2

\* Putting one new member into a finite set adds one to its size.
LEMMA CardinalityWith ==
  ASSUME NEW S, IsFiniteSet(S), NEW x, x \notin S
  PROVE  Cardinality(S \cup {x}) = Cardinality(S) + 1
  BY FS_AddElement

\* Settling a set of pending commands leaves the busy marks equal to what is
\* still pending.  A device loses its mutating mark only when its one pending
\* mutating command goes: that is where exclusion is needed.
LEMMA SettleMarks ==
  ASSUME CommandInv, NEW C \in SUBSET pending, NEW o \in {"value", "failed"},
         Settle(C, o), UNCHANGED req
  PROVE  BusyMarksMatchPending' /\ MutationIsExclusive'
  <1> USE DEF CommandInv
  <1>1. MutationIsExclusive'
    BY DEF MutationIsExclusive, Settle, DeviceOf
  <1>2. ASSUME NEW d \in Devices
        PROVE  d \in mutating' <=> Writes(pending \ C, d) # {}
    <2>1. d \in mutating <=> Writes(pending, d) # {}
      BY DEF BusyMarksMatchPending
    <2>2. CASE \E c \in C : req[c].mutating /\ DeviceOf(c) = d
      <3>1. PICK c \in C : req[c].mutating /\ DeviceOf(c) = d
        BY <2>2
      <3>2. d \notin mutating'
        BY <3>1 DEF Settle
      <3>3. \A e \in pending : e # c => DeviceOf(e) # d
        BY <3>1 DEF MutationIsExclusive
      <3> QED
        BY <3>1, <3>2, <3>3 DEF Writes
    <2>3. CASE ~ \E c \in C : req[c].mutating /\ DeviceOf(c) = d
      <3>1. d \in mutating' <=> d \in mutating
        BY <2>3 DEF Settle
      <3>2. Writes(pending \ C, d) = Writes(pending, d)
        BY <2>3 DEF Writes
      <3> QED
        BY <2>1, <3>1, <3>2
    <2> QED
      BY <2>2, <2>3
  <1>3. ASSUME NEW d \in Devices
        PROVE  reading'[d] = Cardinality(Reads(pending \ C, d))
    <2>1. pending \in SUBSET Commands /\ C \in SUBSET Commands
      BY DEF TypeOK
    <2>2. IsFiniteSet(Reads(pending, d)) /\ Cardinality(Reads(pending, d)) \in Nat
      BY <2>1, FiniteReads
    <2>3. Cardinality(Reads(C, d)) \in Nat
      BY <2>1, FiniteReads
    <2>4. Reads(pending \ C, d) = Reads(pending, d) \ Reads(C, d)
      BY DEF Reads
    <2>5. Reads(C, d) \in SUBSET Reads(pending, d)
      BY DEF Reads
    <2>6. Cardinality(Reads(pending \ C, d)) = Cardinality(Reads(pending, d)) - Cardinality(Reads(C, d))
      <3>1. Cardinality(Reads(pending, d) \ Reads(C, d)) = Cardinality(Reads(pending, d)) - Cardinality(Reads(C, d))
        BY <2>2, <2>5, CardinalityWithout, Zenon
      <3> QED
        BY <2>4, <3>1, Zenon
    <2>7. Cardinality(Reads(pending \ C, d)) \in Nat
      BY <2>1, FiniteReads
    <2>8. reading[d] = Cardinality(Reads(pending, d))
      BY DEF BusyMarksMatchPending
    <2>9. reading'[d] = IF reading[d] > Cardinality(Reads(C, d))
                          THEN reading[d] - Cardinality(Reads(C, d)) ELSE 0
      BY DEF Settle
    <2> QED
      BY <2>2, <2>3, <2>6, <2>7, <2>8, <2>9
  <1>4. \A d \in Devices : /\ Writes(pending \ C, d) = Writes(pending, d)'
                           /\ Reads(pending \ C, d) = Reads(pending, d)'
    BY DEF Settle, Writes, Reads, DeviceOf
  <1> QED
    BY <1>1, <1>2, <1>3, <1>4 DEF BusyMarksMatchPending

\* A dispatched command finds its device free: the marks say so, and they are
\* what is pending.
LEMMA DispatchMarks ==
  ASSUME CommandInv, NEW c \in Commands, NEW s \in Sessions, NEW m \in BOOLEAN,
         Dispatch(c, s, m)
  PROVE  BusyMarksMatchPending' /\ MutationIsExclusive'
  <1> DEFINE d == Home[s]
  <1> USE DEF CommandInv
  <1>1. c \notin pending /\ pending' = pending \cup {c} /\ pending \subseteq Commands
    BY DEF Dispatch, SettledOnce, TypeOK
  <1>2. /\ req'[c].mutating = m /\ DeviceOf(c)' = d /\ d \in Devices
        /\ \A e \in pending : req'[e] = req[e] /\ DeviceOf(e)' = DeviceOf(e)
    BY <1>1, BrokerAssumption DEF Dispatch, TypeOK, DeviceOf
  <1>3. d \notin mutating /\ (m => reading[d] = 0)
    BY DEF Dispatch, DeviceFree
  <1>4. \A e \in pending : DeviceOf(e) = d => ~req[e].mutating
    BY <1>2, <1>3 DEF BusyMarksMatchPending, Writes
  <1>5. m => \A e \in pending : DeviceOf(e) # d
    <2> SUFFICES ASSUME m PROVE \A e \in pending : DeviceOf(e) # d
      OBVIOUS
    <2>1. Cardinality(Reads(pending, d)) = 0
      BY <1>2, <1>3 DEF BusyMarksMatchPending
    <2>2. Reads(pending, d) = {}
      BY <1>1, <2>1, FiniteReads, FS_EmptySet
    <2> QED
      BY <1>4, <2>2 DEF Reads
  <1>6. MutationIsExclusive'
    BY <1>1, <1>2, <1>4, <1>5 DEF MutationIsExclusive
  <1>7. ASSUME NEW e \in Devices
        PROVE  e \in mutating' <=> Writes(pending, e)' # {}
    <2>1. Writes(pending, e)' = IF m /\ e = d THEN Writes(pending, e) \cup {c} ELSE Writes(pending, e)
      BY <1>1, <1>2 DEF Writes
    <2>2. mutating' = IF m THEN mutating \cup {d} ELSE mutating
      BY DEF Dispatch
    <2> QED
      BY <2>1, <2>2 DEF BusyMarksMatchPending
  <1>8. ASSUME NEW e \in Devices
        PROVE  reading'[e] = Cardinality(Reads(pending, e))'
    <2>1. Reads(pending, e)' = IF ~m /\ e = d THEN Reads(pending, e) \cup {c} ELSE Reads(pending, e)
      BY <1>1, <1>2 DEF Reads
    <2>2. IsFiniteSet(Reads(pending, e)) /\ c \notin Reads(pending, e)
      BY <1>1, FiniteReads DEF Reads
    <2>3. reading[e] = Cardinality(Reads(pending, e))
      BY DEF BusyMarksMatchPending
    <2>4. reading'[e] = IF ~m /\ e = d THEN reading[e] + 1 ELSE reading[e]
      BY DEF Dispatch, TypeOK
    <2>5. Cardinality(Reads(pending, e) \cup {c}) = Cardinality(Reads(pending, e)) + 1
      BY <2>2, CardinalityWith, Zenon
    <2> QED
      BY <2>1, <2>3, <2>4, <2>5
  <1> QED
    BY <1>6, <1>7, <1>8 DEF BusyMarksMatchPending

\* The three parts of the invariant that follow each command separately.
LEMMA SettleCommands ==
  ASSUME CommandInv, NEW C \in SUBSET pending, NEW o \in {"value", "failed"},
         Settle(C, o), UNCHANGED <<req, sequences>>,
         UNCHANGED caller \/ \E c \in Commands : DispatchAbandon(c)
  PROVE  CommandsWellFormed' /\ SettledOnce' /\ SequencesDistinct'
  <1> USE DEF CommandInv
  <1>1. CASE UNCHANGED caller
    <2>1. CommandsWellFormed' /\ SettledOnce'
      BY <1>1 DEF Settle, CommandsWellFormed, SettledOnce, TypeOK
    <2>2. SequencesDistinct'
      BY <1>1 DEF SequencesDistinct, Issued, DeviceOf
    <2> QED
      BY <2>1, <2>2
  <1>2. CASE \E c \in Commands : DispatchAbandon(c)
    <2>1. PICK c \in Commands : DispatchAbandon(c)
      BY <1>2
    <2>2. /\ caller[c] = "waiting" /\ caller' = [caller EXCEPT ![c] = "failed"]
          /\ Settle(pending \cap {c}, "failed")
      BY <2>1 DEF DispatchAbandon
    <2>3. CommandsWellFormed' /\ SettledOnce'
      BY <2>2 DEF Settle, CommandsWellFormed, SettledOnce, TypeOK
    <2>4. Issued' = Issued
      BY <2>2 DEF Issued, TypeOK
    <2>5. SequencesDistinct'
      BY <2>4 DEF SequencesDistinct, DeviceOf
    <2> QED
      BY <2>3, <2>5
  <1> QED
    BY <1>1, <1>2

\* A dispatch takes a fresh sequence number and a command nobody has settled.
LEMMA DispatchCommands ==
  ASSUME CommandInv, NEW c \in Commands, NEW s \in Sessions, NEW m \in BOOLEAN,
         Dispatch(c, s, m)
  PROVE  CommandsWellFormed' /\ SettledOnce' /\ SequencesDistinct'
  <1> DEFINE d == Home[s]
  <1> USE DEF CommandInv
  <1>1. d \in Devices /\ sequences[d] \in Nat
    BY BrokerAssumption DEF TypeOK
  <1>2. req'[c] = [session |-> s, mutating |-> m, sequence |-> sequences[d] + 1]
    BY DEF Dispatch, TypeOK
  <1>3. req'[c] \in Request
    BY <1>1, <1>2 DEF Request
  <1>4. CommandsWellFormed' /\ SettledOnce'
    BY <1>3 DEF Dispatch, CommandsWellFormed, SettledOnce, TypeOK
  <1>5. /\ caller[c] = "idle" /\ Issued' = Issued \cup {c}
        /\ sequences' = [sequences EXCEPT ![d] = sequences[d] + 1]
        /\ \A e \in Issued : req'[e] = req[e]
    BY DEF Dispatch, Issued, TypeOK
  <1>6. /\ DeviceOf(c)' = d /\ req'[c].sequence = sequences[d] + 1
        /\ \A e \in Issued : DeviceOf(e)' = DeviceOf(e) /\ DeviceOf(e) \in Devices
    BY <1>2, <1>5, BrokerAssumption DEF DeviceOf, CommandsWellFormed, Issued, Request
  <1>7. \A e \in Issued : /\ req[e].sequence \in 1..sequences[DeviceOf(e)]
                         /\ sequences[DeviceOf(e)] \in Nat
    BY <1>6 DEF SequencesDistinct, TypeOK
  <1>8. sequences'[d] = sequences[d] + 1
    BY <1>1, <1>5 DEF TypeOK
  <1>9. \A e \in Devices : sequences'[e] \in Nat /\ sequences[e] <= sequences'[e]
    BY <1>1, <1>5 DEF TypeOK
  <1>10. \A e \in Issued' : req'[e].sequence \in 1..(sequences'[DeviceOf(e)'])
    <2>1. \A e \in Issued : req'[e].sequence \in 1..(sequences'[DeviceOf(e)'])
      BY <1>5, <1>6, <1>7, <1>9
    <2>2. req'[c].sequence \in 1..(sequences'[DeviceOf(c)'])
      BY <1>1, <1>6, <1>8
    <2> QED
      BY <1>5, <2>1, <2>2
  <1>11. ASSUME NEW e \in Issued', NEW f \in Issued', e # f, DeviceOf(e)' = DeviceOf(f)'
         PROVE  req'[e].sequence # req'[f].sequence
    <2>1. CASE e \in Issued /\ f \in Issued
      BY <1>5, <1>6, <1>11, <2>1 DEF SequencesDistinct
    <2>2. CASE e = c /\ f \in Issued
      BY <1>1, <1>5, <1>6, <1>7, <1>11, <2>2
    <2>3. CASE f = c /\ e \in Issued
      BY <1>1, <1>5, <1>6, <1>7, <1>11, <2>3
    <2> QED
      BY <1>5, <1>11, <2>1, <2>2, <2>3
  <1>12. SequencesDistinct'
    BY <1>10, <1>11 DEF SequencesDistinct
  <1> QED
    BY <1>4, <1>12

\* The invariant of the commands is inductive: one case per shape of a step.
LEMMA CommandStepInv == CommandInv /\ [Next]_vars => CommandInv'
  <1> SUFFICES ASSUME CommandInv, [Next]_vars
               PROVE  CommandInv'
    OBVIOUS
  <1>1. TypeOK /\ TypeOK'
    BY CommandTypes, PoolTypes DEF CommandInv, TypeOK
  <1>2. CASE \E c \in Commands, s \in Sessions, m \in BOOLEAN : Dispatch(c, s, m)
    BY <1>1, <1>2, DispatchMarks, DispatchCommands DEF CommandInv
  <1>3. CASE /\ \E C \in SUBSET pending, o \in {"value", "failed"} : Settle(C, o)
             /\ UNCHANGED <<req, sequences>>
             /\ \/ UNCHANGED caller
                \/ \E c \in Commands : DispatchAbandon(c)
    <2>1. PICK C \in SUBSET pending, o \in {"value", "failed"} : Settle(C, o)
      BY <1>3
    <2>2. BusyMarksMatchPending' /\ MutationIsExclusive'
      BY <1>3, <2>1, SettleMarks
    <2>3. CommandsWellFormed' /\ SettledOnce' /\ SequencesDistinct'
      BY <1>3, <2>1, SettleCommands
    <2> QED
      BY <1>1, <2>2, <2>3 DEF CommandInv
  <1>4. CASE \E c \in Commands : TransportEmpty(c) \/ DispatchReturn(c)
    <2>1. PICK c \in Commands : TransportEmpty(c) \/ DispatchReturn(c)
      BY <1>4
    <2>2. UNCHANGED <<req, pending, mutating, reading, sequences, future>>
      BY <2>1 DEF TransportEmpty, DispatchReturn
    <2>3. BusyMarksMatchPending' /\ MutationIsExclusive'
      BY <2>2 DEF CommandInv, BusyMarksMatchPending, MutationIsExclusive, Writes, Reads, DeviceOf
    <2>4. CommandsWellFormed' /\ SettledOnce'
      BY <2>1 DEF CommandInv, TransportEmpty, DispatchReturn, CommandsWellFormed, SettledOnce, TypeOK
    <2>5. Issued' = Issued
      BY <2>1 DEF TransportEmpty, DispatchReturn, Issued, CommandInv, TypeOK
    <2>6. SequencesDistinct'
      BY <2>2, <2>5 DEF CommandInv, SequencesDistinct, DeviceOf
    <2> QED
      BY <1>1, <2>3, <2>4, <2>6 DEF CommandInv
  <1>5. CASE UNCHANGED cmdVars \/ UNCHANGED vars
    <2>1. UNCHANGED cmdVars
      BY <1>5 DEF vars, cmdVars
    <2>2. BusyMarksMatchPending' /\ MutationIsExclusive' /\ SequencesDistinct'
      BY <2>1 DEF cmdVars, CommandInv, BusyMarksMatchPending, MutationIsExclusive,
                  SequencesDistinct, Issued, Writes, Reads, DeviceOf
    <2>3. CommandsWellFormed' /\ SettledOnce'
      BY <2>1 DEF cmdVars, CommandInv, CommandsWellFormed, SettledOnce
    <2> QED
      BY <1>1, <2>2, <2>3 DEF CommandInv
  <1> QED
    BY <1>1, <1>2, <1>3, <1>4, <1>5, CommandShape

\* The invariant of the commands holds in every reachable state.
LEMMA CommandInvariant == Spec => []CommandInv
  <1>1. Init => CommandInv
    <2> SUFFICES ASSUME Init PROVE CommandInv
      OBVIOUS
    <2>1. TypeOK
      BY DEF Init, TypeOK, NoSession
    <2>2. CommandsWellFormed /\ SettledOnce
      BY DEF Init, CommandsWellFormed, SettledOnce
    <2>3. Issued = {} /\ \A d \in Devices : Writes(pending, d) = {} /\ Reads(pending, d) = {}
      BY DEF Init, Issued, Writes, Reads
    <2>4. BusyMarksMatchPending /\ MutationIsExclusive /\ SequencesDistinct
      BY <2>3, FS_EmptySet DEF Init, BusyMarksMatchPending, MutationIsExclusive, SequencesDistinct
    <2> QED
      BY <2>1, <2>2, <2>4 DEF CommandInv
  <1> QED
    BY <1>1, CommandStepInv, PTL DEF Spec

\* The device marks are exactly the pending commands, so device_busy refuses
\* precisely the commands that would run beside a mutating one.
THEOREM BusyMarksCorrect == Spec => []BusyMarksMatchPending
  BY CommandInvariant, PTL DEF CommandInv

\* No device ever has a mutating command pending beside any other command.
THEOREM MutationExclusive == Spec => []MutationIsExclusive
  BY CommandInvariant, PTL DEF CommandInv

\* No dispatched command is lost or settled twice.
THEOREM EveryCommandSettledOnce == Spec => []SettledOnce
  BY CommandInvariant, PTL DEF CommandInv

\* Sequence numbers on a device are distinct and bounded by its counter.
THEOREM SequencesCorrect == Spec => []SequencesDistinct
  BY CommandInvariant, PTL DEF CommandInv

\* A decided future and a returned caller never change, and a value reaches the
\* caller only from the future.
THEOREM OutcomesFinal == Spec => OutcomeIsFinal
  <1> DEFINE Final == \A c \in Commands :
                        /\ future[c] # "unset" => future'[c] = future[c]
                        /\ caller'[c] = "value" => future[c] = "value"
                        /\ caller[c] \notin {"idle", "waiting"} => caller'[c] = caller[c]
  <1>1. CommandInv /\ [Next]_vars => [Final]_vars
    <2> SUFFICES ASSUME CommandInv, Next PROVE Final
      OBVIOUS
    <2> USE DEF CommandInv
    <2>1. CASE \E c \in Commands, s \in Sessions, m \in BOOLEAN : Dispatch(c, s, m)
      BY <2>1 DEF Dispatch, CommandsWellFormed, TypeOK
    <2>2. CASE /\ \E C \in SUBSET pending, o \in {"value", "failed"} : Settle(C, o)
               /\ \/ UNCHANGED caller
                  \/ \E c \in Commands : DispatchAbandon(c)
      <3>1. \A c \in Commands : future[c] # "unset" => future'[c] = future[c]
        BY <2>2 DEF Settle
      <3>2. \A c \in Commands : /\ caller'[c] = "value" => caller[c] = "value"
                                /\ caller[c] \notin {"idle", "waiting"} => caller'[c] = caller[c]
        BY <2>2 DEF DispatchAbandon, TypeOK
      <3>3. \A c \in Commands : caller[c] = "value" => future[c] = "value"
        BY DEF CommandsWellFormed
      <3> QED
        BY <3>1, <3>2, <3>3
    <2>3. CASE \E c \in Commands : TransportEmpty(c) \/ DispatchReturn(c)
      BY <2>3 DEF TransportEmpty, DispatchReturn, CommandsWellFormed, TypeOK
    <2>4. CASE UNCHANGED cmdVars
      BY <2>4 DEF cmdVars, CommandsWellFormed
    <2> QED
      BY <2>1, <2>2, <2>3, <2>4, CommandShape
  <1> QED
    BY <1>1, CommandInvariant, PTL DEF Spec, OutcomeIsFinal

-----------------------------------------------------------------------------
(* The lock on devices *)

\* dispatch() begins a command only beside what does not exclude it: the busy marks
\* stand for exactly the active commands.
LEMMA DispatchBegins ==
  ASSUME CommandInv, NEW c \in Commands, NEW s \in Sessions, NEW m \in BOOLEAN,
         Dispatch(c, s, m)
  PROVE  Lock!Begin(c, Home[s], IF m THEN "write" ELSE "read")
  <1> DEFINE d == Home[s]
  <1> DEFINE k == IF m THEN "write" ELSE "read"
  <1>1. /\ caller[c] = "idle" /\ caller' = [caller EXCEPT ![c] = "waiting"]
        /\ pending' = pending \cup {c}
        /\ req' = [req EXCEPT ![c] = [session |-> s, mutating |-> m,
                                      sequence |-> sequences[d] + 1]]
    BY DEF Dispatch
  <1>2. \A e \in Lock!Active(d) : k = "read" /\ LockMode[e] = "read"
    <2> SUFFICES ASSUME NEW e \in Lock!Active(d) PROVE k = "read" /\ LockMode[e] = "read"
      OBVIOUS
    <2>1. e \in pending /\ DeviceOf(e) = d
      BY DEF Lock!Active, LockMode, LockTarget
    <2>2. ~req[e].mutating
      <3>1. d \in Devices /\ d \notin mutating
        BY BrokerAssumption DEF Dispatch, DeviceFree
      <3> QED
        BY <2>1, <3>1 DEF CommandInv, BusyMarksMatchPending, Writes
    <2>3. ~m
      <3>1. d \in Devices
        BY BrokerAssumption
      <3>2. e \in Reads(pending, d) /\ pending \in SUBSET Commands
        BY <2>1, <2>2 DEF Reads, CommandInv, TypeOK
      <3>3. Cardinality(Reads(pending, d)) # 0
        BY <3>2, FiniteReads, FS_EmptySet
      <3>4. reading[d] # 0
        BY <3>1, <3>3 DEF CommandInv, BusyMarksMatchPending
      <3> QED
        BY <3>4 DEF Dispatch, DeviceFree
    <2> QED
      BY <2>1, <2>2, <2>3 DEF LockMode, CommandInv, TypeOK, SettledOnce
  <1>3. LockMode' = [LockMode EXCEPT ![c] = k]
    BY <1>1 DEF LockMode, CommandInv, TypeOK
  <1>4. LockTarget' = [LockTarget EXCEPT ![c] = d]
    BY <1>1 DEF LockTarget, DeviceOf, CommandInv, TypeOK
  <1>5. LockMode[c] = "idle"
    BY <1>1 DEF LockMode
  <1> QED
    BY <1>2, <1>3, <1>4, <1>5 DEF Lock!Begin, Lock!Free

\* Whatever settles commands ends exactly those that were active.
LEMMA SettleEnds ==
  ASSUME CommandInv, NEW C \in SUBSET pending, NEW o \in {"value", "failed"}, Settle(C, o),
         UNCHANGED req,
         \A c \in Commands : caller[c] = "idle" <=> caller'[c] = "idle"
  PROVE  Lock!End(C) /\ C \in SUBSET Commands
  <1>1. pending' = pending \ C /\ C \in SUBSET Commands
    BY DEF Settle, CommandInv, TypeOK
  <1>2. \A c \in C : LockMode[c] \in {"read", "write"}
    BY <1>1 DEF LockMode, CommandInv, SettledOnce
  <1>3. LockMode' = [c \in Commands |-> IF c \in C THEN "over" ELSE LockMode[c]]
    BY <1>1 DEF LockMode, CommandInv, SettledOnce
  <1>4. LockTarget' = LockTarget
    BY DEF LockTarget, DeviceOf
  <1> QED
    BY <1>1, <1>2, <1>3, <1>4 DEF Lock!End

\* The broker implements the lock on devices: each step begins one command that
\* nothing active excludes, ends a set of active commands, or changes no lock.
THEOREM BrokerIsDeviceLock == Spec => ImplementsDeviceLock
  <1>1. Init => Lock!LockInit
    BY DEF Init, Lock!LockInit, LockMode, LockTarget
  <1>2. CommandInv /\ [Next]_vars => [Lock!LockNext]_(Lock!lockVars)
    <2> SUFFICES ASSUME CommandInv, [Next]_vars
                 PROVE  Lock!LockNext \/ UNCHANGED <<LockMode, LockTarget>>
      BY DEF Lock!lockVars
    <2>1. CASE \E c \in Commands, s \in Sessions, m \in BOOLEAN : Dispatch(c, s, m)
      <3>1. PICK c \in Commands, s \in Sessions, m \in BOOLEAN : Dispatch(c, s, m)
        BY <2>1
      <3>2. Lock!Begin(c, Home[s], IF m THEN "write" ELSE "read") /\ Home[s] \in Devices
        BY <3>1, DispatchBegins, BrokerAssumption
      <3> QED
        BY <3>2 DEF Lock!LockNext
    <2>2. CASE /\ \E C \in SUBSET pending, o \in {"value", "failed"} : Settle(C, o)
               /\ UNCHANGED <<req, sequences>>
               /\ \/ UNCHANGED caller
                  \/ \E c \in Commands : DispatchAbandon(c)
      <3>1. PICK C \in SUBSET pending, o \in {"value", "failed"} : Settle(C, o)
        BY <2>2
      <3>2. \A c \in Commands : caller[c] = "idle" <=> caller'[c] = "idle"
        BY <2>2 DEF DispatchAbandon, CommandInv, TypeOK
      <3>3. Lock!End(C) /\ C \in SUBSET Commands
        BY <2>2, <3>1, <3>2, SettleEnds
      <3> QED
        BY <3>3 DEF Lock!LockNext
    <2>3. CASE \E c \in Commands : TransportEmpty(c) \/ DispatchReturn(c)
      <3>1. UNCHANGED <<req, pending>> /\ \A c \in Commands : caller[c] = "idle" <=> caller'[c] = "idle"
        BY <2>3 DEF TransportEmpty, DispatchReturn, CommandInv, TypeOK
      <3> QED
        BY <3>1 DEF LockMode, LockTarget, DeviceOf
    <2>4. CASE UNCHANGED cmdVars \/ UNCHANGED vars
      BY <2>4 DEF cmdVars, vars, LockMode, LockTarget, DeviceOf
    <2> QED
      BY <2>1, <2>2, <2>3, <2>4, CommandShape DEF CommandInv
  <1> QED
    BY <1>1, <1>2, CommandInvariant, PTL DEF Spec, ImplementsDeviceLock, Lock!LockSpec

-----------------------------------------------------------------------------
(* The pools *)

\* A socket that is dropped takes its devices, their sessions and the commands
\* pending on them: disconnect() and the displacing half of join().
LEMMA DropSocket ==
  ASSUME CommandInv, PoolInv, NEW i \in Sids,
         NEW c \in pending \ LostWith(i)
  PROVE  LET s == req[c].session IN
         /\ s \in Sessions /\ Home[s] \in Devices
         /\ SessionsWithout(i)[s] = sessions[s] /\ sessions[s].sid # None
         /\ DevicesWithout(i)[Home[s]] = sessions[s].sid
         /\ devices[Home[s]] = sessions[s].sid
  <1>1. req[c] \in Request
    BY DEF CommandInv, CommandsWellFormed, SettledOnce, TypeOK
  <1>2. req[c].session \in Sessions /\ Home[req[c].session] \in Devices
    BY <1>1, BrokerAssumption DEF Request
  <1>3. SessionLive(req[c].session) /\ devices[Home[req[c].session]] # i
    BY DEF PoolInv, PendingSessionsAreLive, LostWith, DeviceOf
  <1> QED
    BY <1>2, <1>3 DEF SessionLive, SessionsWithout, DevicesWithout

\* A join that finishes displaces the sessions and commands of the old socket.
LEMMA JoinFinishPool ==
  ASSUME CommandInv, PoolInv, NEW i \in Sids, JoinFinish(i)
  PROVE  PoolInv'
  <1> DEFINE d == joining[i]
             old == devices[d]
  <1> USE DEF CommandInv
  <1>1. d \in Devices /\ old \in Sids \cup {None} /\ i # None /\ None \notin Sids
    BY BrokerAssumption DEF JoinFinish, TypeOK
  <1>2. CASE old \in {None, i}
    <2>1. devices' = devices \/ devices' = [devices EXCEPT ![d] = i]
      BY <1>2 DEF JoinFinish
    <2>2. UNCHANGED <<sessions, socket, req>> /\ pending' \subseteq pending
      BY <1>2 DEF JoinFinish, Settle
    <2>3. \A s \in OpenSessions : devices'[Home[s]] = devices[Home[s]]
      BY <1>1, <1>2, <2>1, BrokerAssumption DEF TypeOK, PoolInv, OneLiveSessionPerDevice, OpenSessions
    <2>4. OneLiveSessionPerDevice' /\ SessionsOnOpenSockets'
      BY <2>2, <2>3 DEF PoolInv, OneLiveSessionPerDevice, SessionsOnOpenSockets, OpenSessions
    <2>5. \A c \in pending : req[c].session \in OpenSessions
      BY DEF PoolInv, PendingSessionsAreLive, SessionLive, OpenSessions, CommandsWellFormed,
             SettledOnce, Request, TypeOK
    <2>6. PendingSessionsAreLive'
      BY <2>2, <2>3, <2>5 DEF PoolInv, PendingSessionsAreLive, SessionLive
    <2> QED
      BY <2>4, <2>6 DEF PoolInv
  <1>3. CASE old \notin {None, i}
    <2>1. /\ \/ devices' = DevicesWithout(old)
             \/ devices' = [DevicesWithout(old) EXCEPT ![d] = i]
          /\ sessions' = SessionsWithout(old) /\ pending' = pending \ LostWith(old)
          /\ UNCHANGED <<socket, req>>
      BY <1>3 DEF JoinFinish, Settle
    <2>2. \A e \in Devices : devices[e] # old => e # d /\ devices'[e] = devices[e]
      BY <1>1, <2>1 DEF DevicesWithout
    <2>3. ASSUME NEW s \in OpenSessions'
          PROVE  /\ s \in OpenSessions /\ sessions'[s] = sessions[s]
                 /\ Home[s] \in Devices /\ devices[Home[s]] # old
      BY <1>1, <1>3, <2>1, BrokerAssumption
         DEF SessionsWithout, OpenSessions, NoSession, PoolInv, OneLiveSessionPerDevice
    <2>4. OneLiveSessionPerDevice' /\ SessionsOnOpenSockets'
      BY <2>1, <2>2, <2>3 DEF PoolInv, OneLiveSessionPerDevice, SessionsOnOpenSockets
    <2>5. PendingSessionsAreLive'
      BY <1>1, <1>3, <2>1, <2>2, DropSocket DEF PendingSessionsAreLive, SessionLive, LostWith, DeviceOf
    <2> QED
      BY <2>4, <2>5 DEF PoolInv
  <1> QED
    BY <1>2, <1>3

\* A disconnect ends the sessions of its socket and their commands.
LEMMA DisconnectPool ==
  ASSUME CommandInv, PoolInv, NEW i \in Sids, Disconnect(i)
  PROVE  PoolInv'
  <1>1. /\ devices' = DevicesWithout(i) /\ sessions' = SessionsWithout(i)
        /\ pending' = pending \ LostWith(i) /\ req' = req
        /\ socket' = [socket EXCEPT ![i] = "closed"]
    BY DEF Disconnect, Settle
  <1>2. ASSUME NEW s \in OpenSessions'
        PROVE  /\ s \in OpenSessions /\ sessions'[s] = sessions[s]
               /\ Home[s] \in Devices /\ sessions[s].sid # i
    BY <1>1, BrokerAssumption DEF SessionsWithout, OpenSessions, NoSession
  <1>3. OneLiveSessionPerDevice' /\ SessionsOnOpenSockets'
    BY <1>1, <1>2 DEF PoolInv, OneLiveSessionPerDevice, SessionsOnOpenSockets, DevicesWithout,
                      CommandInv, TypeOK
  <1>4. PendingSessionsAreLive'
    BY <1>1, DropSocket DEF PendingSessionsAreLive, SessionLive
  <1> QED
    BY <1>3, <1>4 DEF PoolInv

\* Opening and closing sessions keeps one live session per device.
LEMMA SessionPool ==
  ASSUME CommandInv, PoolInv, SessionStep
  PROVE  PoolInv'
  <1> USE DEF CommandInv
  <1>0. \A c \in pending : req[c].session \in Sessions /\ SessionLive(req[c].session)
    BY DEF PoolInv, PendingSessionsAreLive, CommandsWellFormed, SettledOnce, Request, TypeOK
  <1>1. CASE \E i \in Sids, s \in Sessions, t \in Tabs : OpenSession(i, s, t)
    <2>1. PICK i \in Sids, s \in Sessions, t \in Tabs : OpenSession(i, s, t)
      BY <1>1
    <2>2. /\ UNCHANGED <<devices, socket, req, pending>> /\ i # None /\ Home[s] \in Devices
          /\ sessions' = [sessions EXCEPT ![s] = [sid |-> i, tab |-> t]]
          /\ devices[Home[s]] = i /\ socket[i] = "open"
      BY <2>1, BrokerAssumption DEF OpenSession, sockVars, cmdVars, DeviceForSid
    <2>3. \A x \in OpenSessions : Home[x] = Home[s] => x = s
      BY <2>1 DEF OpenSession, SingleTab, SessionsOf
    <2>4. OpenSessions' = OpenSessions \cup {s}
      BY <2>2 DEF OpenSessions, TypeOK
    <2>5. OneLiveSessionPerDevice' /\ SessionsOnOpenSockets'
      BY <2>2, <2>3, <2>4 DEF PoolInv, OneLiveSessionPerDevice, SessionsOnOpenSockets, TypeOK
    <2>6. PendingSessionsAreLive'
      BY <1>0, <2>2 DEF PendingSessionsAreLive, SessionLive, TypeOK
    <2> QED
      BY <2>5, <2>6 DEF PoolInv
  <1>2. CASE \E i \in Sids, s \in Sessions : CloseSession(i, s)
    <2>1. PICK i \in Sids, s \in Sessions : CloseSession(i, s)
      BY <1>2
    <2>2. /\ UNCHANGED <<devices, socket, req>>
          /\ sessions' = [sessions EXCEPT ![s] = NoSession]
          /\ pending' = pending \ {c \in pending : req[c].session = s}
      BY <2>1 DEF CloseSession, sockVars, Settle
    <2>3. OpenSessions' = OpenSessions \ {s}
      BY <2>2 DEF OpenSessions, NoSession, TypeOK
    <2>4. OneLiveSessionPerDevice' /\ SessionsOnOpenSockets'
      BY <2>2, <2>3 DEF PoolInv, OneLiveSessionPerDevice, SessionsOnOpenSockets, TypeOK, OpenSessions
    <2>5. PendingSessionsAreLive'
      BY <1>0, <2>2 DEF PendingSessionsAreLive, SessionLive, TypeOK
    <2> QED
      BY <2>4, <2>5 DEF PoolInv
  <1> QED
    BY <1>1, <1>2 DEF SessionStep

\* The invariant of the pools is inductive, given that of the commands.
LEMMA PoolStepInv == CommandInv /\ PoolInv /\ [Next]_vars => PoolInv'
  <1> SUFFICES ASSUME CommandInv, PoolInv, [Next]_vars
               PROVE  PoolInv'
    OBVIOUS
  <1> USE DEF CommandInv
  <1>1. CASE \E i \in Sids : Connect(i)
    <2>1. PICK i \in Sids : Connect(i)
      BY <1>1
    <2>2. UNCHANGED <<devices, sessions, req, pending>>
      BY <2>1 DEF Connect, poolVars, cmdVars
    <2>3. \A j \in Sids : socket[j] = "open" => socket'[j] = "open"
      BY <2>1 DEF Connect, TypeOK
    <2>4. \A s \in OpenSessions : sessions[s].sid \in Sids
      BY DEF OpenSessions, TypeOK
    <2> QED
      BY <2>2, <2>3, <2>4 DEF PoolInv, OneLiveSessionPerDevice, SessionsOnOpenSockets,
                              PendingSessionsAreLive, SessionLive, OpenSessions
  <1>2. CASE \E i \in Sids : JoinFinish(i)
    BY <1>2, JoinFinishPool
  <1>3. CASE \E i \in Sids : Disconnect(i)
    BY <1>3, DisconnectPool
  <1>4. CASE \/ \E i \in Sids, d \in Devices : JoinStart(i, d)
             \/ \E d \in Devices : Revoke(d)
             \/ UNCHANGED vars
    <2>1. UNCHANGED <<devices, sessions, req, pending, socket>>
      BY <1>4 DEF JoinStart, Revoke, poolVars, cmdVars, vars
    <2> QED
      BY <2>1 DEF PoolInv, OneLiveSessionPerDevice, SessionsOnOpenSockets,
                  PendingSessionsAreLive, SessionLive, OpenSessions
  <1>5. CASE SessionStep
    BY <1>5, SessionPool
  <1>6. CASE CommandStep
    <2>1. UNCHANGED <<devices, sessions, socket>>
      BY <1>6 DEF CommandStep, Dispatch, DispatchReturn, DispatchAbandon, Cancel, TransportEmpty,
                  TransportAnswer, CommandResult, sockVars, poolVars
    <2>2. OneLiveSessionPerDevice' /\ SessionsOnOpenSockets'
      BY <2>1 DEF PoolInv, OneLiveSessionPerDevice, SessionsOnOpenSockets, OpenSessions
    <2>3. CASE \E c \in Commands, s \in Sessions, m \in BOOLEAN : Dispatch(c, s, m)
      <3>1. PICK c \in Commands, s \in Sessions, m \in BOOLEAN : Dispatch(c, s, m)
        BY <2>3
      <3>2. /\ SessionLive(s) /\ pending' = pending \cup {c}
            /\ req'[c].session = s /\ \A e \in pending \ {c} : req'[e] = req[e]
        BY <3>1 DEF Dispatch, TypeOK
      <3>3. PendingSessionsAreLive'
        BY <2>1, <3>2 DEF PoolInv, PendingSessionsAreLive, SessionLive
      <3> QED
        BY <2>2, <3>3 DEF PoolInv
    <2>4. CASE ~ \E c \in Commands, s \in Sessions, m \in BOOLEAN : Dispatch(c, s, m)
      <3>1. req' = req /\ pending' \subseteq pending
        BY <1>6, <2>4 DEF CommandStep, DispatchReturn, DispatchAbandon, Cancel, TransportEmpty,
                          TransportAnswer, CommandResult, Settle
      <3>2. PendingSessionsAreLive'
        BY <2>1, <3>1 DEF PoolInv, PendingSessionsAreLive, SessionLive
      <3> QED
        BY <2>2, <3>2 DEF PoolInv
    <2> QED
      BY <2>3, <2>4
  <1> QED
    BY <1>1, <1>2, <1>3, <1>4, <1>5, <1>6 DEF Next, SocketStep

\* The invariant of the pools holds in every reachable state.
LEMMA PoolInvariant == Spec => []PoolInv
  <1>1. Init => PoolInv
    BY DEF Init, PoolInv, OneLiveSessionPerDevice, SessionsOnOpenSockets, PendingSessionsAreLive,
           OpenSessions, NoSession
  <1> QED
    BY <1>1, PoolStepInv, CommandInvariant, PTL DEF Spec

\* A pending command always has a live session on its device's own socket.
THEOREM PendingOnLiveSessions == Spec => []PendingSessionsAreLive
  BY PoolInvariant, PTL DEF PoolInv

\* A device never has two sessions, nor one on a socket it is not registered on.
THEOREM SingleLiveSession == Spec => []OneLiveSessionPerDevice
  BY PoolInvariant, PTL DEF PoolInv

\* No session outlives its socket.
THEOREM SessionsDieWithSocket == Spec => []SessionsOnOpenSockets
  BY PoolInvariant, PTL DEF PoolInv
=============================================================================
