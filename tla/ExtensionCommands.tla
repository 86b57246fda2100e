-------------------------- MODULE ExtensionCommands --------------------------
(***************************************************************************)
(* The command path of the Chrome extension, against the broker it serves: *)
(*   browser-extension/src/background/transport.ts                         *)
(*   browser-extension/src/background/approvals.ts                         *)
(*   browser-extension/src/background/service-worker.ts (executeCommand,   *)
(*     onSessionOpen, onSessionClose)                                      *)
(*   browser-extension/src/background/executor.ts (execute)                *)
(*                                                                         *)
(* One device and one browser session at a time.  The broker is its        *)
(* promise, module DeviceLock, which BrowserBroker implements.  Requests   *)
(* may be delayed, reordered and repeated on their way, also across a      *)
(* reconnect: the replay cache, the sequence table and the deadline are    *)
(* there for that.  The service worker may be killed at any time.          *)
(***************************************************************************)
EXTENDS Integers, FiniteSets

CONSTANTS
  Commands,    \* command ids; bounds how many commands are dispatched
  Sessions,    \* session ids the side panel makes, fresh for every open
  MaxLife,     \* the longest deadlineAt - timestamp a request may have
  ReplayTTL,   \* REPLAY_TTL_MS
  MaxReplay,   \* MAX_REPLAY_ENTRIES
  Skew,        \* the server's clock minus the extension's
  MaxTime,     \* bound on the extension's clock
  None

Device == "device"

\* Bound of the start counters: two is too often already.
Many == 2

ASSUME ExtensionAssumption ==
  /\ MaxLife \in Nat /\ ReplayTTL \in Nat /\ MaxReplay \in Nat /\ MaxTime \in Nat
  /\ Skew \in Int
  /\ None \notin Sessions
  /\ None # Device

\* The bound on the clocks under which the replay cache outlives a deadline.
ASSUME SkewAssumption == Skew + MaxLife <= ReplayTTL

VARIABLES
  now,         \* the extension's clock
  mode,        \* the broker: command -> idle, read, write or over
  target,      \* the broker: command -> device
  req,         \* command -> [session, mutating, sequence, deadline] of its request
  counter,     \* the broker's sequence counter of the device
  registered,  \* the server has this extension's socket in its device pool
  remote,      \* the session the server has open for the device, or None
  joined,      \* transport.joined with a connected socket
  seen,        \* transport.seenCommands, its keys
  seenAt,      \* and its values: when the command was recorded
  lastSeq,     \* transport.lastSequenceBySession
  session,     \* the tab controller's session id, or None
  opening,     \* the open of session still waits for onSessionOpen
  opened,      \* session ids ever used
  closing,     \* sessions in onSessionClose
  following,   \* sessions a tab switch will open again once they are closed
  run,         \* command -> none, asking, executing or done
  ranIn,       \* command -> the session it is running in, or None
  starts,      \* how often executor.execute was started for the command, up to Many
  dropped,     \* ids that a full replay cache gave up before their time
  rejoined     \* history: commands handled before a later join

serverVars  == <<mode, target, req, counter, registered, remote>>
cacheVars   == <<seen, seenAt, dropped>>
sessionVars == <<session, opening, opened, closing, following>>
runVars     == <<run, ranIn, starts>>
vars == <<now, mode, target, req, counter, registered, remote, joined, seen, seenAt,
          lastSeq, session, opening, opened, closing, following, run, ranIn, starts, dropped,
          rejoined>>

Broker == INSTANCE DeviceLock WITH Devices <- {Device}

NoRequest == [session |-> None, mutating |-> FALSE, sequence |-> 0, deadline |-> 0]
Request   == [session : Sessions, mutating : BOOLEAN, sequence : Nat, deadline : Int]

TypeOK ==
  /\ now \in Nat
  /\ mode \in [Commands -> {"idle", "read", "write", "over"}]
  /\ target \in [Commands -> {Device, None}]
  /\ req \in [Commands -> Request \cup {NoRequest}]
  /\ counter \in Nat
  /\ registered \in BOOLEAN /\ joined \in BOOLEAN /\ opening \in BOOLEAN
  /\ remote \in Sessions \cup {None}
  /\ seen \subseteq Commands /\ seenAt \in [Commands -> Nat]
  /\ lastSeq \in [Sessions -> Nat]
  /\ session \in Sessions \cup {None}
  /\ opened \subseteq Sessions /\ closing \subseteq Sessions /\ following \subseteq Sessions
  /\ run \in [Commands -> {"none", "asking", "executing", "done"}]
  /\ ranIn \in [Commands -> Sessions \cup {None}]
  /\ starts \in [Commands -> 0..Many]
  /\ dropped \subseteq Commands /\ rejoined \subseteq Commands

Init ==
  /\ now = 0
  /\ Broker!LockInit
  /\ req = [c \in Commands |-> NoRequest]
  /\ counter = 0
  /\ registered = FALSE /\ joined = FALSE
  /\ remote = None
  /\ seen = {} /\ seenAt = [c \in Commands |-> 0]
  /\ lastSeq = [s \in Sessions |-> 0]
  /\ session = None /\ opening = FALSE
  /\ opened = {} /\ closing = {} /\ following = {}
  /\ run = [c \in Commands |-> "none"]
  /\ ranIn = [c \in Commands |-> None]
  /\ starts = [c \in Commands |-> 0]
  /\ dropped = {} /\ rejoined = {}

-----------------------------------------------------------------------------
(* Helpers *)

Sent      == {c \in Commands : mode[c] # "idle"}
Running   == {c \in Commands : run[c] = "executing"}
Asking    == {c \in Commands : run[c] = "asking"}

\* The broker gives up the commands of C: timeout, cancel, result, lost session.
BrokerEnds(C) == Broker!End(C \cap Broker!Active(Device))

\* Mutant of Fresh: the cut-off is computed without the time to live.
FreshNow == {c \in seen : seenAt[c] >= now}

\* pruneReplayCache, the age test.
Fresh == {c \in seen : seenAt[c] >= now - ReplayTTL}

\* pruneReplayCache: what may be left, the oldest entries going first while the
\* map is over its size.
Pruned ==
  IF Cardinality(Fresh) <= MaxReplay
  THEN {Fresh}
  ELSE {K \in SUBSET Fresh : /\ Cardinality(K) = MaxReplay
                             /\ \A x \in Fresh \ K, y \in K : seenAt[x] <= seenAt[y]}

Tick ==
  /\ now < MaxTime
  /\ now' = now + 1
  /\ UNCHANGED <<serverVars, joined, lastSeq, cacheVars, sessionVars, runVars, rejoined>>

-----------------------------------------------------------------------------
(* The server side *)

\* dispatch(): a request for the registered session, with the next sequence and
\* a deadline on the server's clock.
Dispatch(c, m, life) ==
  /\ registered
  /\ remote # None
  /\ Broker!Begin(c, Device, m)
  /\ counter' = counter + 1
  /\ req' = [req EXCEPT ![c] = [session |-> remote, mutating |-> (m = "write"),
                                sequence |-> counter + 1, deadline |-> now + Skew + life]]
  /\ UNCHANGED <<now, rejoined, registered, remote, joined, lastSeq, cacheVars, sessionVars,
                 runVars>>

\* The broker settles a command: its result arrived, it timed out, or its caller
\* cancelled it.  The cancel event that goes with it has no handler here.
BrokerSettles(c) ==
  /\ c \in Broker!Active(Device)
  /\ BrokerEnds({c})
  /\ UNCHANGED <<now, rejoined, req, counter, registered, remote, joined, lastSeq, cacheVars,
                 sessionVars, runVars>>

\* The server loses the socket, noticed or not by the extension.
ServerDrops ==
  /\ registered
  /\ registered' = FALSE
  /\ remote' = None
  /\ BrokerEnds(Commands)
  /\ UNCHANGED <<now, rejoined, req, counter, joined, lastSeq, cacheVars, sessionVars, runVars>>

\* The join handler registers the new socket and drops what the old one had.
ServerJoins ==
  /\ ~joined
  /\ registered' = TRUE
  /\ remote' = None
  /\ BrokerEnds(Commands)
  /\ UNCHANGED <<now, rejoined, req, counter, joined, lastSeq, cacheVars, sessionVars, runVars>>

\* The session close reaches the broker.
ServerCloses ==
  /\ remote \in closing
  /\ remote' = None
  /\ BrokerEnds({c \in Sent : req[c].session = remote})
  /\ UNCHANGED <<now, rejoined, req, counter, registered, joined, lastSeq, cacheVars,
                 sessionVars, runVars>>

-----------------------------------------------------------------------------
(* The transport *)

\* performConnect: the join is acknowledged; every sequence is forgotten.
Joined ==
  /\ ~joined /\ registered
  /\ joined' = TRUE
  /\ lastSeq' = [s \in Sessions |-> 0]
  /\ rejoined' = rejoined \cup {c \in Commands : run[c] # "none"}
  /\ UNCHANGED <<now, serverVars, cacheVars, sessionVars, runVars>>

\* The socket's disconnect event.
Disconnected ==
  /\ joined
  /\ joined' = FALSE
  /\ UNCHANGED <<now, rejoined, serverVars, lastSeq, cacheVars, sessionVars, runVars>>

\* The request passes isCommandRequest and the offline check.
Delivered(c) == c \in Sent /\ req[c].deadline >= now /\ joined

\* Mutant of IsReplay: the cache alone decides.
IsReplayById(c, K) == c \in K

\* replayed_command or out_of_order, with K left of the cache.
IsReplay(c, K) == c \in K \/ req[c].sequence <= lastSeq[req[c].session]

\* handleInboundCommand refuses the request after pruning the cache.
Refuse(c) ==
  /\ Delivered(c)
  /\ \E K \in Pruned :
       /\ IsReplay(c, K)
       /\ seen' = K
       /\ seenAt' = [x \in Commands |-> IF x \in K THEN seenAt[x] ELSE 0]
       /\ dropped' = dropped \cup (Fresh \ K)
  /\ UNCHANGED <<now, rejoined, serverVars, joined, lastSeq, sessionVars, runVars>>

\* executor.execute starts in the session of the moment, or there is none.
Execute(c) ==
  IF session # None
  THEN /\ run' = [run EXCEPT ![c] = "executing"]
       /\ ranIn' = [ranIn EXCEPT ![c] = session]
       /\ starts' = [starts EXCEPT ![c] = IF @ < Many THEN @ + 1 ELSE Many]
  ELSE /\ run' = [run EXCEPT ![c] = "done"]
       /\ UNCHANGED <<ranIn, starts>>

\* handleInboundCommand accepts the request, and executeCommand runs up to its
\* first await: session check, policy decision, and the prompt or the execution.
Accept(c, decision) ==
  /\ Delivered(c)
  /\ \E K \in Pruned :
       /\ ~IsReplay(c, K)
       /\ seen' = K \cup {c}
       /\ seenAt' = [x \in Commands |-> IF x = c THEN now ELSE IF x \in K THEN seenAt[x] ELSE 0]
       /\ dropped' = dropped \cup (Fresh \ K)
  /\ lastSeq' = [lastSeq EXCEPT ![req[c].session] = req[c].sequence]
  /\ IF session = req[c].session /\ decision = "allow"
     THEN Execute(c)
     ELSE /\ run' = [run EXCEPT ![c] =
                       IF session = req[c].session /\ decision = "ask" THEN "asking" ELSE "done"]
          /\ UNCHANGED <<ranIn, starts>>
  /\ UNCHANGED <<now, rejoined, serverVars, joined, sessionVars>>

\* ApprovalCoordinator.resolve(id, true): the user allows the command.
Approve(c) ==
  /\ c \in Asking
  /\ Execute(c)
  /\ UNCHANGED <<now, rejoined, serverVars, joined, lastSeq, cacheVars, sessionVars>>

\* ApprovalCoordinator.resolve(id, false): the user, the timer, or a panel that
\* cannot be reached.
Deny(c) ==
  /\ c \in Asking
  /\ run' = [run EXCEPT ![c] = "done"]
  /\ UNCHANGED <<now, rejoined, serverVars, joined, lastSeq, cacheVars, sessionVars, ranIn, starts>>

\* The page or the tab API answers, or fails.
Finish(c) ==
  /\ c \in Running
  /\ run' = [run EXCEPT ![c] = "done"]
  /\ ranIn' = [ranIn EXCEPT ![c] = None]
  /\ UNCHANGED <<now, rejoined, serverVars, joined, lastSeq, cacheVars, sessionVars, starts>>

-----------------------------------------------------------------------------
(* The browser session; the races inside the tab controller are those of module *)
(* ControlledTab, here its methods are whole                                    *)

\* open() with a fresh id, up to onSessionOpen.
OpenSession(s) ==
  /\ session = None
  /\ s \notin opened
  /\ session' = s
  /\ opening' = TRUE
  /\ opened' = opened \cup {s}
  /\ UNCHANGED <<now, rejoined, serverVars, joined, lastSeq, cacheVars, closing, following,
                 runVars>>

\* onSessionOpen: the broker registers the session; while offline nothing is sent.
\* The acknowledgement may still be on its way.
RegisterSession ==
  /\ session # None
  /\ IF joined
     THEN registered /\ remote \in {None, session} /\ remote' = session
     ELSE opening /\ UNCHANGED remote
  /\ opening' \in {FALSE, joined /\ opening}
  /\ UNCHANGED <<now, rejoined, mode, target, req, counter, registered, joined, lastSeq, cacheVars,
                 session, opened, closing, following, runVars>>

\* onSessionOpen throws: rejected, or the socket was lost before the answer.
OpenFails ==
  /\ opening
  /\ session' = None
  /\ opening' = FALSE
  /\ UNCHANGED <<now, rejoined, serverVars, joined, lastSeq, cacheVars, opened, closing,
                 following, runVars>>

\* close() up to the await of onSessionClose; again when the active tab changed or
\* the tab was replaced, and the same session is to be opened on the other tab.
CloseSession(again) ==
  /\ session # None
  /\ session' = None
  /\ opening' = FALSE
  /\ closing' = closing \cup {session}
  /\ following' = IF again THEN following \cup {session} ELSE following
  /\ UNCHANGED <<now, rejoined, serverVars, joined, lastSeq, cacheVars, opened, runVars>>

\* The close was answered, failed, or was never sent: onSessionClose cancels every
\* pending approval.
CloseFinishes(s) ==
  /\ s \in closing
  /\ remote # s \/ ~joined
  /\ closing' = closing \ {s}
  /\ run' = [c \in Commands |-> IF c \in Asking THEN "done" ELSE run[c]]
  /\ UNCHANGED <<now, rejoined, serverVars, joined, lastSeq, cacheVars, session, opening, opened,
                 following, ranIn, starts>>

\* handleActivated and handleReplaced after the close: the session is set again,
\* whatever is open by now, or the new tab cannot be controlled.
FollowTab(s, ok) ==
  /\ s \in following \ closing
  /\ following' = following \ {s}
  /\ session' = IF ok THEN s ELSE session
  /\ opening' = IF ok THEN TRUE ELSE opening
  /\ UNCHANGED <<now, rejoined, serverVars, joined, lastSeq, cacheVars, opened, closing, runVars>>

\* Chrome stops the service worker: everything it holds in memory is gone.
WorkerKilled ==
  /\ joined' = FALSE
  /\ seen' = {} /\ seenAt' = [c \in Commands |-> 0]
  /\ lastSeq' = [s \in Sessions |-> 0]
  /\ session' = None /\ opening' = FALSE
  /\ closing' = {} /\ following' = {}
  /\ run' = [c \in Commands |-> IF run[c] = "none" THEN "none" ELSE "done"]
  /\ ranIn' = [c \in Commands |-> None]
  /\ UNCHANGED <<now, rejoined, serverVars, dropped, opened, starts>>

-----------------------------------------------------------------------------
ServerStep ==
  \/ \E c \in Commands, m \in {"read", "write"}, life \in 1..MaxLife : Dispatch(c, m, life)
  \/ \E c \in Commands : BrokerSettles(c)
  \/ ServerDrops \/ ServerJoins \/ ServerCloses

TransportStep ==
  \/ Joined \/ Disconnected
  \/ \E c \in Commands : Refuse(c) \/ Approve(c) \/ Deny(c) \/ Finish(c)
  \/ \E c \in Commands, d \in {"allow", "ask", "deny"} : Accept(c, d)

SessionStep ==
  \/ \E s \in Sessions : OpenSession(s) \/ CloseFinishes(s)
  \/ RegisterSession \/ OpenFails
  \/ \E again \in BOOLEAN : CloseSession(again)
  \/ \E s \in Sessions, ok \in BOOLEAN : FollowTab(s, ok)

Next == Tick \/ ServerStep \/ TransportStep \/ SessionStep \/ WorkerKilled

Spec == Init /\ [][Next]_vars

-----------------------------------------------------------------------------
(* Properties *)

\* executor.execute is started at most once for a command, whatever the channel
\* repeats, over reconnects (the sequence table is cleared on join) and restarts of
\* the service worker (the replay cache is lost); only an id that a full cache gave
\* up early is not covered.  handleInboundCommand, pruneReplayCache.
AtMostOnce == \A c \in Commands \ dropped : starts[c] <= 1

\* The sequence table stands in for a full replay cache: an id that the cache gave up
\* early, a request that overtook another and one that came twice are not executed
\* again as long as the table has not been cleared by a join after the command was
\* handled.  With AtMostOnce: a second execution takes a full cache and a rejoin.
SequenceBacksCache == \A c \in Commands \ rejoined : starts[c] <= 1

\* What SequenceBacksCache rests on: while a socket is joined, the table holds at least
\* the sequence of every command handled since the join.
SequenceKnown ==
  \A c \in Commands \ rejoined :
    /\ run[c] \in {"none", "asking"} => starts[c] = 0
    /\ run[c] # "none" => /\ c \in Sent
                          /\ joined => req[c].sequence <= lastSeq[req[c].session]

\* What AtMostOnce rests on.  Requests name sessions that were opened; a handled
\* command cannot be accepted again because its id is cached, its deadline has
\* passed, or its session is neither open nor about to be opened again; and the
\* cache keeps an id at least until the deadline.
RequestsKnown ==
  /\ {session, remote} \subseteq opened \cup {None}
  /\ following \subseteq opened
  /\ \A c \in Sent : /\ req[c] \in Request
                     /\ req[c].session \in opened
                     /\ req[c].deadline <= now + Skew + MaxLife

Guarded(c) ==
  \/ c \in seen
  \/ req[c].deadline < now
  \/ req[c].session # session /\ req[c].session \notin following

HandledOnce ==
  \A c \in Commands \ dropped :
    /\ run[c] = "none" => starts[c] = 0
    /\ run[c] = "asking" => starts[c] = 0
    /\ run[c] # "none" => c \in Sent /\ Guarded(c)
    /\ c \in seen => c \in Sent /\ seenAt[c] <= now /\ req[c].deadline <= seenAt[c] + ReplayTTL

OnceInv == TypeOK /\ RequestsKnown /\ HandledOnce /\ AtMostOnce

SequenceInv == OnceInv /\ SequenceKnown /\ SequenceBacksCache

\* "Both sides enforce identity, origin, session": a command runs in the session it
\* was sent for.
RunsInItsSession == \A c \in Running : ranIn[c] = req[c].session
=============================================================================
