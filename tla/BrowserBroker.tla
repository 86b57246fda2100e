---------------------------- MODULE BrowserBroker ----------------------------
(***************************************************************************)
(* The browser-command broker and the socket service in front of it, in    *)
(* one server process (device and session pools are plain dicts):          *)
(*   backend/open_webui/utils/browser_extension_broker.py                  *)
(*   backend/open_webui/socket/browser_extension.py                        *)
(*                                                                         *)
(* A chat turn dispatches a command to the browser session its user opened *)
(* on a paired device.  The broker records the command as pending, marks   *)
(* the device busy, starts a transport task that carries the request to    *)
(* the extension, and waits for the result with a timeout.  Results,       *)
(* timeouts, cancellations, session closes, socket losses and displacing   *)
(* joins all end a command, in any order the event loop picks.             *)
(*                                                                         *)
(* One action is one uninterrupted run of the event loop: code between two *)
(* awaits.  Guards that raise before any assignment are stutter steps.     *)
(***************************************************************************)
EXTENDS Naturals, FiniteSets

CONSTANTS
  Devices,      \* paired devices
  Sids,         \* socket.io connections; a sid is never reused
  Sessions,     \* browser session ids, fresh UUIDs made by the extension
  Home,         \* the device whose extension made a session id
  Tabs,         \* browser tabs
  Commands,     \* command ids; bounds how many commands are dispatched
  MaxDevices,   \* MAX_REGISTERED_DEVICES
  MaxSessions,  \* MAX_REGISTERED_SESSIONS
  MaxPending,   \* max_pending_commands
  None

ASSUME BrokerAssumption ==
  /\ Home \in [Sessions -> Devices]
  /\ MaxDevices \in Nat /\ MaxSessions \in Nat /\ MaxPending \in Nat
  /\ IsFiniteSet(Commands)
  /\ None \notin Devices \cup Sids \cup Sessions \cup Tabs

VARIABLES
  socket,     \* sid -> "new" | "open" | "closed"
  active,     \* devices whose pairing row is not revoked
  joining,    \* sid -> device its join handler has authenticated, or None
  devices,    \* broker.devices: device -> registered sid, or None
  sessions,   \* broker.sessions: session id -> [sid, tab], sid None if absent
  req,        \* command -> what was dispatched
  pending,    \* broker._pending
  mutating,   \* broker._mutating_devices
  reading,    \* broker._reading_devices
  sequences,  \* broker._sequences
  future,     \* command -> its asyncio future: unset, a value, or failed (an
              \* exception of any code, or cancelled)
  transport,  \* command -> its transport task
  caller      \* command -> the dispatch() call: idle, waiting, or how it ended

sockVars == <<socket, active, joining>>
poolVars == <<devices, sessions>>
cmdVars  == <<req, pending, mutating, reading, sequences, future, transport, caller>>
vars     == <<socket, active, joining, devices, sessions, req, pending, mutating,
              reading, sequences, future, transport, caller>>

NoSession == [sid |-> None, tab |-> None]
NoRequest == [session |-> None, mutating |-> FALSE, sequence |-> 0]

Request == [session : Sessions, mutating : BOOLEAN, sequence : Nat]

TypeOK ==
  /\ socket \in [Sids -> {"new", "open", "closed"}]
  /\ active \subseteq Devices
  /\ joining \in [Sids -> Devices \cup {None}]
  /\ devices \in [Devices -> Sids \cup {None}]
  /\ sessions \in [Sessions -> [sid : Sids \cup {None}, tab : Tabs \cup {None}]]
  /\ req \in [Commands -> Request \cup {NoRequest}]
  /\ pending \subseteq Commands
  /\ mutating \subseteq Devices
  /\ reading \in [Devices -> Nat]
  /\ sequences \in [Devices -> Nat]
  /\ future \in [Commands -> {"unset", "value", "failed"}]
  /\ transport \in [Commands -> {"none", "running", "done"}]
  /\ caller \in [Commands -> {"idle", "waiting", "value", "failed"}]

Init ==
  /\ socket = [i \in Sids |-> "new"]
  /\ active = Devices
  /\ joining = [i \in Sids |-> None]
  /\ devices = [d \in Devices |-> None]
  /\ sessions = [s \in Sessions |-> NoSession]
  /\ req = [c \in Commands |-> NoRequest]
  /\ pending = {}
  /\ mutating = {}
  /\ reading = [d \in Devices |-> 0]
  /\ sequences = [d \in Devices |-> 0]
  /\ future = [c \in Commands |-> "unset"]
  /\ transport = [c \in Commands |-> "none"]
  /\ caller = [c \in Commands |-> "idle"]

-----------------------------------------------------------------------------
(* Helpers *)

OpenSessions    == {s \in Sessions : sessions[s].sid # None}
SessionsOf(d)   == {s \in OpenSessions : Home[s] = d}
DeviceOf(c)     == Home[req[c].session]
Issued          == {c \in Commands : caller[c] # "idle"}
Writes(C, d)    == {c \in C : req[c].mutating /\ DeviceOf(c) = d}
Reads(C, d)     == {c \in C : ~req[c].mutating /\ DeviceOf(c) = d}

\* _device_for_sid: the socket speaks for d only if d is its one device.
DeviceForSid(i, d) == {e \in Devices : devices[e] = i} = {d}

\* disconnect(): the pools without what socket i registered.
DevicesWithout(i)  == [d \in Devices |-> IF devices[d] = i THEN None ELSE devices[d]]
SessionsWithout(i) == [s \in Sessions |-> IF sessions[s].sid = i THEN NoSession ELSE sessions[s]]

\* The pending commands of the devices that socket i loses.
LostWith(i) == {c \in pending : devices[DeviceOf(c)] = i}

\* Mutant of Settle: the read counter goes down for mutating commands too.
SettleCountingWrites(C, outcome) ==
  /\ pending' = pending \ C
  /\ mutating' = mutating \ {DeviceOf(c) : c \in {x \in C : req[x].mutating}}
  /\ reading' = [d \in Devices |-> reading[d] - Cardinality({c \in C : DeviceOf(c) = d})]
  /\ transport' = [c \in Commands |-> IF c \in C THEN "done" ELSE transport[c]]
  /\ future' = [c \in Commands |->
                  IF c \in C /\ future[c] = "unset" THEN outcome ELSE future[c]]

\* Mutant of Settle: the first read that ends pops the device's read counter.
SettlePoppingReads(C, outcome) ==
  /\ pending' = pending \ C
  /\ mutating' = mutating \ {DeviceOf(c) : c \in {x \in C : req[x].mutating}}
  /\ reading' = [d \in Devices |-> IF Reads(C, d) # {} THEN 0 ELSE reading[d]]
  /\ transport' = [c \in Commands |-> IF c \in C THEN "done" ELSE transport[c]]
  /\ future' = [c \in Commands |->
                  IF c \in C /\ future[c] = "unset" THEN outcome ELSE future[c]]

\* _remove_pending for every command of C, then the future of each that is not
\* yet done gets outcome: the busy marks go, the transport tasks are cancelled.
Settle(C, outcome) ==
  /\ pending' = pending \ C
  /\ mutating' = mutating \ {DeviceOf(c) : c \in {x \in C : req[x].mutating}}
  /\ reading' = [d \in Devices |->
                   LET k == Cardinality(Reads(C, d))
                   IN  IF reading[d] > k THEN reading[d] - k ELSE 0]
  /\ transport' = [c \in Commands |-> IF c \in C THEN "done" ELSE transport[c]]
  /\ future' = [c \in Commands |->
                  IF c \in C /\ future[c] = "unset" THEN outcome ELSE future[c]]

-----------------------------------------------------------------------------
(* Sockets, pairing and the device pool *)

Connect(i) ==
  /\ socket[i] = "new"
  /\ socket' = [socket EXCEPT ![i] = "open"]
  /\ UNCHANGED <<active, joining, poolVars, cmdVars>>

\* BrowserPairedDevices.revoke, called by the revoke endpoint: the row only.
Revoke(d) ==
  /\ d \in active
  /\ active' = active \ {d}
  /\ UNCHANGED <<socket, joining, poolVars, cmdVars>>

\* join() up to its last await: the token, the device row, the user and the
\* permission are read and found good.
JoinStart(i, d) ==
  /\ socket[i] = "open"
  /\ joining[i] = None
  /\ d \in active
  /\ joining' = [joining EXCEPT ![i] = d]
  /\ UNCHANGED <<socket, active, poolVars, cmdVars>>

\* join() after them: the socket that held the device is dropped as by
\* disconnect(), then the device is registered on this one, which may have
\* closed in the meantime.
JoinFinish(i) ==
  LET d   == joining[i]
      old == devices[d]
      displaced == old \notin {None, i}
      kept == IF displaced THEN DevicesWithout(old) ELSE devices
      full == kept[d] = None /\ Cardinality({e \in Devices : kept[e] # None}) >= MaxDevices
  IN  /\ d # None
      /\ joining' = [joining EXCEPT ![i] = None]
      /\ devices' = IF full THEN kept ELSE [kept EXCEPT ![d] = i]
      /\ sessions' = IF displaced THEN SessionsWithout(old) ELSE sessions
      /\ Settle(IF displaced THEN LostWith(old) ELSE {}, "failed")
      /\ UNCHANGED <<socket, active, req, sequences, caller>>

\* The disconnect event of socket i.
Disconnect(i) ==
  /\ socket[i] = "open"
  /\ socket' = [socket EXCEPT ![i] = "closed"]
  /\ devices' = DevicesWithout(i)
  /\ sessions' = SessionsWithout(i)
  /\ Settle(LostWith(i), "failed")
  /\ UNCHANGED <<active, joining, req, sequences, caller>>

-----------------------------------------------------------------------------
(* Browser sessions *)

\* Mutant of SingleTab: the loop compares the tab of the same session id only.
SameSessionTab(d, s, tab) ==
  \A x \in SessionsOf(d) : x = s => sessions[x].tab = tab

\* open_session's loop over the sessions of the device.
SingleTab(d, s, tab) ==
  \A x \in SessionsOf(d) : x = s /\ sessions[x].tab = tab

OpenSession(i, s, tab) ==
  /\ socket[i] = "open"
  /\ DeviceForSid(i, Home[s])
  /\ SingleTab(Home[s], s, tab)
  /\ s \in OpenSessions \/ Cardinality(OpenSessions) < MaxSessions
  /\ sessions' = [sessions EXCEPT ![s] = [sid |-> i, tab |-> tab]]
  /\ UNCHANGED <<sockVars, devices, cmdVars>>

\* Mutant of CloseSession: the session's pending commands are left alone.
CloseSessionOnly(i, s) ==
  /\ socket[i] = "open"
  /\ sessions[s].sid = i
  /\ sessions' = [sessions EXCEPT ![s] = NoSession]
  /\ UNCHANGED <<sockVars, devices, cmdVars>>

CloseSession(i, s) ==
  /\ socket[i] = "open"
  /\ sessions[s].sid = i
  /\ sessions' = [sessions EXCEPT ![s] = NoSession]
  /\ Settle({c \in pending : req[c].session = s}, "failed")
  /\ UNCHANGED <<sockVars, devices, req, sequences, caller>>

-----------------------------------------------------------------------------
(* Commands *)

\* session_is_live, and dispatch()'s first two checks.
SessionLive(s) == sessions[s].sid # None /\ devices[Home[s]] = sessions[s].sid

\* Mutant of DeviceFree: a mutating command does not wait for reads.
NoWriterOn(d, m) == d \notin mutating

\* dispatch()'s device_busy check.
DeviceFree(d, m) == d \notin mutating /\ (m => reading[d] = 0)

\* dispatch() up to its await.
Dispatch(c, s, m) ==
  LET d == Home[s]
  IN  /\ caller[c] = "idle"
      /\ SessionLive(s)
      /\ Cardinality(pending) < MaxPending
      /\ DeviceFree(d, m)
      /\ sequences' = [sequences EXCEPT ![d] = @ + 1]
      /\ req' = [req EXCEPT ![c] = [session |-> s, mutating |-> m,
                                    sequence |-> sequences[d] + 1]]
      /\ pending' = pending \cup {c}
      /\ mutating' = IF m THEN mutating \cup {d} ELSE mutating
      /\ reading' = IF m THEN reading ELSE [reading EXCEPT ![d] = @ + 1]
      /\ transport' = [transport EXCEPT ![c] = "running"]
      /\ caller' = [caller EXCEPT ![c] = "waiting"]
      /\ UNCHANGED <<sockVars, poolVars, future>>

\* The future is done and the dispatch task resumes with it.
DispatchReturn(c) ==
  /\ caller[c] = "waiting"
  /\ future[c] # "unset"
  /\ caller' = [caller EXCEPT ![c] = future[c]]
  /\ UNCHANGED <<sockVars, poolVars, req, pending, mutating, reading, sequences, future, transport>>

\* Mutant of DispatchAbandon: the deadline is the transport task's.
DispatchAbandonSending(c) ==
  /\ caller[c] = "waiting"
  /\ transport[c] = "running"
  /\ caller' = [caller EXCEPT ![c] = "failed"]
  /\ Settle(pending \cap {c}, "failed")
  /\ UNCHANGED <<sockVars, poolVars, req, sequences>>

\* wait_for times out, or the calling task is cancelled: even when the future
\* has just been set and the dispatch task has not resumed yet.
DispatchAbandon(c) ==
  /\ caller[c] = "waiting"
  /\ caller' = [caller EXCEPT ![c] = "failed"]
  /\ Settle(pending \cap {c}, "failed")
  /\ UNCHANGED <<sockVars, poolVars, req, sequences>>

\* Mutant of Cancel: the command is removed but its future is never set.
CancelRemoveOnly(c) ==
  /\ c \in pending
  /\ Settle({c}, "unset")
  /\ UNCHANGED <<sockVars, poolVars, req, sequences, caller>>

\* cancel(): another task of the same user gives the command up.
Cancel(c) ==
  /\ c \in pending
  /\ Settle({c}, "failed")
  /\ UNCHANGED <<sockVars, poolVars, req, sequences, caller>>

\* The acknowledgement reaches _run_transport: a result the broker accepts, or a
\* device error, a rejected result, a transport timeout or failure.
TransportAnswer(c, outcome) ==
  /\ transport[c] = "running"
  /\ Settle(pending \cap {c}, outcome)
  /\ UNCHANGED <<sockVars, poolVars, req, sequences, caller>>

\* The acknowledgement is empty: the task ends, the command stays pending.
TransportEmpty(c) ==
  /\ transport[c] = "running"
  /\ transport' = [transport EXCEPT ![c] = "done"]
  /\ UNCHANGED <<sockVars, poolVars, req, pending, mutating, reading, sequences, future, caller>>

\* accept_result: the command is pending and the answering device is its own.
ResultAccepted(c, d) == c \in pending /\ DeviceOf(c) = d

\* Mutant of CommandResult: a late result replaces the outcome.
CommandResultLate(i, c, outcome) ==
  /\ socket[i] = "open"
  /\ c \in Issued
  /\ \E d \in Devices : DeviceForSid(i, d) /\ DeviceOf(c) = d
  /\ future' = [future EXCEPT ![c] = outcome]
  /\ pending' = pending \ {c}
  /\ mutating' = mutating \ {DeviceOf(x) : x \in {y \in pending \cap {c} : req[y].mutating}}
  /\ reading' = [d \in Devices |-> reading[d] - Cardinality(Reads(pending \cap {c}, d))]
  /\ transport' = [transport EXCEPT ![c] = "done"]
  /\ UNCHANGED <<sockVars, poolVars, req, sequences, caller>>

\* command_result: a result event, for any command ever sent, at any time.
CommandResult(i, c, outcome) ==
  /\ socket[i] = "open"
  /\ c \in Issued
  /\ \E d \in Devices : DeviceForSid(i, d) /\ ResultAccepted(c, d)
  /\ Settle({c}, outcome)
  /\ UNCHANGED <<sockVars, poolVars, req, sequences, caller>>

-----------------------------------------------------------------------------
SocketStep ==
  \/ \E i \in Sids : Connect(i) \/ JoinFinish(i) \/ Disconnect(i)
  \/ \E i \in Sids, d \in Devices : JoinStart(i, d)
  \/ \E d \in Devices : Revoke(d)

SessionStep ==
  \/ \E i \in Sids, s \in Sessions, t \in Tabs : OpenSession(i, s, t)
  \/ \E i \in Sids, s \in Sessions : CloseSession(i, s)

CommandStep ==
  \/ \E c \in Commands, s \in Sessions, m \in BOOLEAN : Dispatch(c, s, m)
  \/ \E c \in Commands :
       DispatchReturn(c) \/ DispatchAbandon(c) \/ Cancel(c) \/ TransportEmpty(c)
  \/ \E c \in Commands, o \in {"value", "failed"} : TransportAnswer(c, o)
  \/ \E i \in Sids, c \in Commands, o \in {"value", "failed"} : CommandResult(i, c, o)

Next == SocketStep \/ SessionStep \/ CommandStep

Spec == Init /\ [][Next]_vars

\* asyncio runs a task that is ready and fires a timer that is due.
Fairness == \A c \in Commands : WF_vars(DispatchReturn(c)) /\ WF_vars(DispatchAbandon(c))

FairSpec == Spec /\ Fairness

-----------------------------------------------------------------------------
(* Properties *)

\* The busy marks of the broker are exactly what is pending: a device is marked
\* mutating while, and only while, a mutating command of it is pending, and its
\* read counter is the number of its pending reads (_mutating_devices and
\* _reading_devices against _pending, through every way a command ends).
BusyMarksMatchPending ==
  \A d \in Devices :
    /\ d \in mutating <=> Writes(pending, d) # {}
    /\ reading[d] = Cardinality(Reads(pending, d))

\* Two commands pending on one device are both reads: a mutating command never
\* runs beside another command of its device (device_busy in dispatch()).
MutationIsExclusive ==
  \A c, e \in pending :
    c # e /\ DeviceOf(c) = DeviceOf(e) => ~req[c].mutating /\ ~req[e].mutating

\* A pending command's session is open, on the socket its device is registered
\* on: whatever closes a session, drops or displaces a socket fails the commands
\* that depended on it.
PendingSessionsAreLive == \A c \in pending : SessionLive(req[c].session)

\* Every open session sits on the socket of its device, and a device has at most
\* one: single_tab_only survives reconnects and displaced sockets.
OneLiveSessionPerDevice ==
  /\ \A s \in OpenSessions : devices[Home[s]] = sessions[s].sid
  /\ \A s, t \in OpenSessions : Home[s] = Home[t] => s = t

\* A session never outlives its socket, although a device registration can: a
\* join that resumes after its socket closed registers a dead socket.
SessionsOnOpenSockets == \A s \in OpenSessions : socket[sessions[s].sid] = "open"

\* A dispatched command is pending exactly while its future is undecided, and no
\* transport task outlives it: no command is lost with its caller left waiting
\* for the full timeout, none is settled twice.
SettledOnce ==
  \A c \in Commands :
    /\ c \in pending <=> (caller[c] = "waiting" /\ future[c] = "unset")
    /\ transport[c] = "running" => c \in pending

\* Commands of one device carry distinct sequence numbers no larger than its
\* counter: dispatch order survives reconnects, closes and cancelled commands.
SequencesDistinct ==
  \A c, e \in Issued :
    /\ req[c].sequence \in 1..sequences[DeviceOf(c)]
    /\ c # e /\ DeviceOf(c) = DeviceOf(e) => req[c].sequence # req[e].sequence

\* A decided command stays decided and a caller that got a value got the value
\* the future holds: late and duplicate results change nothing.
OutcomeIsFinal ==
  [][\A c \in Commands :
       /\ future[c] # "unset" => future'[c] = future[c]
       /\ caller'[c] = "value" => future[c] = "value"
       /\ caller[c] \notin {"idle", "waiting"} => caller'[c] = caller[c]]_vars

\* A device marked mutating becomes free again: the timeout in dispatch() ends
\* the command whatever the extension and its socket do.
BusyDeviceFrees == \A d \in Devices : d \in mutating ~> d \notin mutating

\* What the proofs add to the invariants above: a command nobody dispatched has
\* an unset future and no transport, a dispatched one has a request, and a caller
\* that got a value got the future's.
CommandsWellFormed ==
  \A c \in Commands :
    /\ caller[c] = "idle" => future[c] = "unset" /\ transport[c] = "none"
    /\ caller[c] # "idle" => req[c] \in Request
    /\ caller[c] = "value" => future[c] = "value"

\* The inductive invariant of the commands, and the one of the two pools.
CommandInv ==
  /\ TypeOK
  /\ CommandsWellFormed
  /\ SettledOnce
  /\ BusyMarksMatchPending
  /\ MutationIsExclusive
  /\ SequencesDistinct

PoolInv == OneLiveSessionPerDevice /\ SessionsOnOpenSockets /\ PendingSessionsAreLive

\* How the broker's state reads as a lock: a pending command is active, one that
\* was dispatched and is not pending is over.
LockMode == [c \in Commands |->
  IF caller[c] = "idle" THEN "idle"
  ELSE IF c \notin pending THEN "over"
  ELSE IF req[c].mutating THEN "write" ELSE "read"]
LockTarget == [c \in Commands |-> IF caller[c] = "idle" THEN None ELSE DeviceOf(c)]
Lock == INSTANCE DeviceLock WITH mode <- LockMode, target <- LockTarget

\* The broker implements the lock on devices that its callers and the extension rely
\* on: through timeouts, cancellations, lost sockets and late results, every step is
\* one command beginning alone enough, some active commands ending, or nothing.
ImplementsDeviceLock == Lock!LockSpec

\* "Administrators can revoke devices ... those decisions take effect
\* immediately": no command is dispatched to a device once it is revoked.
NoDispatchAfterRevoke ==
  [][\A c \in Commands :
       caller[c] = "idle" /\ caller'[c] = "waiting" => Home[req'[c].session] \in active]_vars

=============================================================================
