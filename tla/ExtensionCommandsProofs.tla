----------------------- MODULE ExtensionCommandsProofs -----------------------
(***************************************************************************)
(* A command runs at most once, for any number of commands and sessions,   *)
(* any replay cache size and any clocks within SkewAssumption; and, while  *)
(* the transport has not rejoined, also when the cache is full.            *)
(***************************************************************************)
EXTENDS ExtensionCommands, TLAPS

\* Ending commands in the broker makes none of them unsent.
LEMMA EndsKeepSent ==
  ASSUME TypeOK, NEW C, BrokerEnds(C)
  PROVE  /\ mode' \in [Commands -> {"idle", "read", "write", "over"}]
         /\ target' = target
         /\ Sent' = Sent
  BY DEF TypeOK, BrokerEnds, Broker!End, Broker!Active, Sent

-----------------------------------------------------------------------------
(* Types *)

\* Steps of the server keep the types.
LEMMA ServerTypes ==
  ASSUME TypeOK, ServerStep
  PROVE  TypeOK'
  <1> USE DEF sessionVars, runVars, cacheVars, TypeOK
  <1>1. ASSUME NEW c \in Commands, NEW m \in {"read", "write"}, NEW life \in 1..MaxLife,
               Dispatch(c, m, life)
        PROVE  TypeOK'
    <2>1. now + Skew + life \in Int
      BY ExtensionAssumption
    <2>2. [session |-> remote, mutating |-> (m = "write"), sequence |-> counter + 1,
           deadline |-> now + Skew + life] \in Request
      BY <1>1, <2>1 DEF Dispatch, Request
    <2>3. req' \in [Commands -> Request \cup {NoRequest}]
      BY <1>1, <2>2 DEF Dispatch
    <2>4. /\ mode' \in [Commands -> {"idle", "read", "write", "over"}]
          /\ target' \in [Commands -> {Device, None}]
      BY <1>1 DEF Dispatch, Broker!Begin
    <2> QED
      BY <1>1, <2>3, <2>4 DEF Dispatch
  <1>2. ASSUME NEW c \in Commands, BrokerSettles(c) PROVE TypeOK'
    BY <1>2, EndsKeepSent DEF BrokerSettles
  <1>3. CASE ServerDrops
    BY <1>3, EndsKeepSent DEF ServerDrops
  <1>4. CASE ServerJoins
    BY <1>4, EndsKeepSent DEF ServerJoins
  <1>5. CASE ServerCloses
    BY <1>5, EndsKeepSent DEF ServerCloses
  <1> QED
    BY <1>1, <1>2, <1>3, <1>4, <1>5 DEF ServerStep

\* executor.execute leaves its three variables in their types.
LEMMA ExecuteTypes ==
  ASSUME TypeOK, NEW c \in Commands, Execute(c)
  PROVE  /\ run' \in [Commands -> {"none", "asking", "executing", "done"}]
         /\ ranIn' \in [Commands -> Sessions \cup {None}]
         /\ starts' \in [Commands -> 0..Many]
  BY DEF TypeOK, Execute, Many

\* Steps of the transport, the prompts and the executor keep the types.
LEMMA TransportTypes ==
  ASSUME TypeOK, TransportStep
  PROVE  TypeOK'
  <1> USE DEF serverVars, sessionVars, runVars, cacheVars, TypeOK
  <1>1. CASE Joined \/ Disconnected
    <2>1. lastSeq' \in [Sessions -> Nat]
      BY <1>1 DEF Joined, Disconnected
    <2>2. joined' \in BOOLEAN /\ rejoined' \subseteq Commands
      BY <1>1 DEF Joined, Disconnected
    <2>3. UNCHANGED <<now, serverVars, cacheVars, sessionVars, runVars>>
      BY <1>1 DEF Joined, Disconnected
    <2> QED
      BY <2>1, <2>2, <2>3
  <1>2. ASSUME NEW c \in Commands, Refuse(c) PROVE TypeOK'
    <2>1. seen' \subseteq Commands /\ dropped' \subseteq Commands
      BY <1>2 DEF Refuse, Pruned, Fresh
    <2>2. seenAt' \in [Commands -> Nat]
      BY <1>2 DEF Refuse
    <2> QED
      BY <1>2, <2>1, <2>2 DEF Refuse
  <1>3. ASSUME NEW c \in Commands, NEW d \in {"allow", "ask", "deny"}, Accept(c, d)
        PROVE  TypeOK'
    <2>1. seen' \subseteq Commands /\ dropped' \subseteq Commands
      BY <1>3 DEF Accept, Pruned, Fresh
    <2>2. seenAt' \in [Commands -> Nat]
      BY <1>3 DEF Accept
    <2>3. req[c].sequence \in Nat
      BY DEF Request, NoRequest
    <2>4. lastSeq' \in [Sessions -> Nat]
      BY <1>3, <2>3 DEF Accept
    <2>5. /\ run' \in [Commands -> {"none", "asking", "executing", "done"}]
          /\ ranIn' \in [Commands -> Sessions \cup {None}]
          /\ starts' \in [Commands -> 0..Many]
      <3>1. CASE session = req[c].session /\ d = "allow"
        BY <1>3, <3>1, ExecuteTypes DEF Accept
      <3>2. CASE ~(session = req[c].session /\ d = "allow")
        BY <1>3, <3>2 DEF Accept
      <3> QED
        BY <3>1, <3>2
    <2> QED
      BY <1>3, <2>1, <2>2, <2>4, <2>5 DEF Accept
  <1>4. ASSUME NEW c \in Commands, Approve(c) PROVE TypeOK'
    BY <1>4, ExecuteTypes DEF Approve
  <1>5. ASSUME NEW c \in Commands, Deny(c) \/ Finish(c) PROVE TypeOK'
    BY <1>5 DEF Deny, Finish
  <1> QED
    BY <1>1, <1>2, <1>3, <1>4, <1>5 DEF TransportStep

\* Session changes, kills and ticks keep the types.
LEMMA SessionTypes ==
  ASSUME TypeOK, SessionStep \/ WorkerKilled \/ Tick
  PROVE  TypeOK'
  <1> USE DEF serverVars, sessionVars, runVars, cacheVars, TypeOK
  <1>1. ASSUME NEW s \in Sessions, OpenSession(s) \/ CloseFinishes(s) PROVE TypeOK'
    BY <1>1 DEF OpenSession, CloseFinishes
  <1>2. CASE RegisterSession
    BY <1>2 DEF RegisterSession
  <1>3. CASE OpenFails
    BY <1>3 DEF OpenFails
  <1>4. ASSUME NEW again \in BOOLEAN, CloseSession(again) PROVE TypeOK'
    BY <1>4 DEF CloseSession
  <1>5. ASSUME NEW s \in Sessions, NEW ok \in BOOLEAN, FollowTab(s, ok) PROVE TypeOK'
    BY <1>5 DEF FollowTab
  <1>6. CASE WorkerKilled
    BY <1>6 DEF WorkerKilled
  <1>7. CASE Tick
    BY <1>7 DEF Tick
  <1> QED
    BY <1>1, <1>2, <1>3, <1>4, <1>5, <1>6, <1>7 DEF SessionStep

\* Every step keeps the types.
LEMMA TypeStep == TypeOK /\ [Next]_vars => TypeOK'
  <1>1. TypeOK /\ UNCHANGED vars => TypeOK'
    BY DEF vars, TypeOK
  <1> QED
    BY <1>1, ServerTypes, TransportTypes, SessionTypes DEF Next

\* The types hold at the start.
LEMMA InitTypes == Init => TypeOK
  <1> SUFFICES ASSUME Init PROVE TypeOK
    OBVIOUS
  <1>1. /\ starts \in [Commands -> 0..Many] /\ seenAt \in [Commands -> Nat]
        /\ lastSeq \in [Sessions -> Nat] /\ now \in Nat /\ counter \in Nat
    BY DEF Init, Many
  <1>2. /\ registered \in BOOLEAN /\ joined \in BOOLEAN /\ opening \in BOOLEAN
    BY DEF Init
  <1> QED
    BY <1>1, <1>2 DEF Init, TypeOK, Broker!LockInit

\* The extension's and the broker's state keep their types in every behaviour.
THEOREM TypeCorrect == Spec => []TypeOK
  BY InitTypes, TypeStep, PTL DEF Spec

-----------------------------------------------------------------------------
(* At most once *)

\* Requests stay known: a request names the session the server holds, which this
\* browser opened, and deadlines are set from the clock.
LEMMA RequestsKnownStep ==
  ASSUME OnceInv, [Next]_vars
  PROVE  RequestsKnown'
  <1> USE DEF RequestsKnown, OnceInv
  <1> TypeOK /\ TypeOK'
    BY TypeStep
  <1>1. ASSUME NEW c \in Commands, NEW m \in {"read", "write"}, NEW life \in 1..MaxLife,
               Dispatch(c, m, life)
        PROVE  RequestsKnown'
    <2>1. Sent' = Sent \cup {c}
      BY <1>1 DEF Dispatch, Broker!Begin, Sent, TypeOK
    <2>2. /\ req'[c] = [session |-> remote, mutating |-> (m = "write"),
                        sequence |-> counter + 1, deadline |-> now + Skew + life]
          /\ remote \in opened
      BY <1>1 DEF Dispatch, TypeOK
    <2>3. req'[c] \in Request /\ req'[c].session \in opened
      BY <2>2, ExtensionAssumption DEF Request, TypeOK
    <2>4. req'[c].deadline <= now + Skew + MaxLife
      BY <2>2, ExtensionAssumption DEF TypeOK
    <2>5. \A e \in Sent : e # c => req'[e] = req[e]
      BY <1>1 DEF Dispatch, TypeOK
    <2>6. UNCHANGED <<now, session, remote, opened, following>>
      BY <1>1 DEF Dispatch, sessionVars
    <2> QED
      BY <2>1, <2>3, <2>4, <2>5, <2>6
  <1>2. CASE \/ \E c \in Commands : BrokerSettles(c)
             \/ ServerDrops \/ ServerJoins \/ ServerCloses
    <2>1. Sent' = Sent
      BY <1>2, EndsKeepSent DEF BrokerSettles, ServerDrops, ServerJoins, ServerCloses
    <2>2. UNCHANGED <<now, req, session, opened, following>> /\ remote' \in {remote, None}
      BY <1>2 DEF BrokerSettles, ServerDrops, ServerJoins, ServerCloses, sessionVars
    <2> QED
      BY <2>1, <2>2
  <1>3. CASE TransportStep
    <2>1. UNCHANGED <<now, mode, req, remote, session, opened, following>>
      BY <1>3 DEF TransportStep, Joined, Disconnected, Refuse, Accept, Approve, Deny, Finish,
                  serverVars, sessionVars
    <2> QED
      BY <2>1 DEF Sent
  <1>4. CASE SessionStep \/ WorkerKilled
    <2>1. UNCHANGED <<now, mode, req>> /\ opened \subseteq opened'
      BY <1>4 DEF SessionStep, WorkerKilled, OpenSession, CloseFinishes, RegisterSession,
                  OpenFails, CloseSession, FollowTab, serverVars, sessionVars
    <2>2. {session', remote'} \subseteq opened' \cup {None} /\ following' \subseteq opened'
      BY <1>4 DEF SessionStep, WorkerKilled, OpenSession, CloseFinishes, RegisterSession,
                  OpenFails, CloseSession, FollowTab, serverVars, sessionVars
    <2> QED
      BY <2>1, <2>2 DEF Sent
  <1>5. CASE Tick
    <2>1. now' = now + 1 /\ UNCHANGED <<mode, req, remote, session, opened, following>>
      BY <1>5 DEF Tick, serverVars, sessionVars
    <2>2. \A c \in Sent : req[c].deadline \in Int
      BY DEF Request
    <2> QED
      BY <2>1, <2>2, ExtensionAssumption DEF Sent, TypeOK
  <1>6. CASE UNCHANGED vars
    BY <1>6 DEF vars, Sent
  <1> QED
    BY <1>1, <1>2, <1>3, <1>4, <1>5, <1>6 DEF Next, ServerStep

\* A step that leaves the requests, the cache, the sessions and the runs alone
\* leaves what is known of handled commands alone.
LEMMA HandledFrame ==
  ASSUME OnceInv, [Next]_vars,
         UNCHANGED <<now, seen, seenAt, session, following, run, starts, dropped>>,
         Sent \subseteq Sent',
         \A c \in Sent : req'[c] = req[c]
  PROVE  HandledOnce' /\ AtMostOnce'
  BY DEF OnceInv, HandledOnce, AtMostOnce, Guarded

\* A session that is gone does not come back in this step, and runs only end.
GoneStaysGone ==
  \A s \in opened : s # session /\ s \notin following => s # session' /\ s \notin following'

PromptsOnlyEnd ==
  \A c \in Commands : run'[c] = run[c] \/ (run[c] = "asking" /\ run'[c] = "done")

\* The sessions move: a session that is neither open nor to be opened again stays so.
LEMMA HandledSessions ==
  ASSUME OnceInv,
         UNCHANGED <<now, mode, req, seen, seenAt, starts, dropped>>,
         GoneStaysGone, PromptsOnlyEnd
  PROVE  HandledOnce' /\ AtMostOnce'
  <1>1. AtMostOnce'
    BY DEF OnceInv, AtMostOnce
  <1>2. Sent' = Sent
    BY DEF Sent
  <1>3. ASSUME NEW c \in Commands \ dropped, run'[c] # "none"
        PROVE  c \in Sent' /\ Guarded(c)'
    <2>1. c \in Sent /\ Guarded(c) /\ req[c].session \in opened
      BY <1>3 DEF OnceInv, HandledOnce, RequestsKnown, PromptsOnlyEnd
    <2> QED
      BY <1>2, <2>1 DEF Guarded, GoneStaysGone
  <1> QED
    BY <1>1, <1>2, <1>3 DEF OnceInv, HandledOnce, PromptsOnlyEnd

\* The cache loses an id either because its deadline has passed or by its size.
LEMMA PruneKeeps ==
  ASSUME OnceInv, NEW K \in Pruned, NEW c \in seen \ K, c \notin dropped \cup (Fresh \ K)
  PROVE  req[c].deadline < now
  <1>1. c \notin Fresh /\ c \in Commands
    BY DEF OnceInv, TypeOK
  <1>2. seenAt[c] < now - ReplayTTL
    BY <1>1, ExtensionAssumption DEF Fresh, OnceInv, TypeOK
  <1>3. c \in Sent /\ req[c].deadline <= seenAt[c] + ReplayTTL
    BY <1>1 DEF OnceInv, HandledOnce
  <1>4. req[c].deadline \in Int
    BY <1>3 DEF OnceInv, RequestsKnown, Request
  <1> QED
    BY <1>1, <1>2, <1>3, <1>4, ExtensionAssumption DEF OnceInv, TypeOK

\* A refused request changes nothing that a handled command rests on.
LEMMA HandledRefuse ==
  ASSUME OnceInv, NEW c \in Commands, Refuse(c)
  PROVE  HandledOnce' /\ AtMostOnce'
  <1>1. PICK K \in Pruned : /\ seen' = K
                            /\ seenAt' = [x \in Commands |-> IF x \in K THEN seenAt[x] ELSE 0]
                            /\ dropped' = dropped \cup (Fresh \ K)
    BY DEF Refuse
  <1>2. UNCHANGED <<now, mode, req, session, following, run, starts>>
    BY DEF Refuse, serverVars, sessionVars, runVars
  <1>3. K \subseteq seen
    BY DEF Pruned, Fresh
  <1>4. Sent' = Sent
    BY <1>2 DEF Sent
  <1>5. ASSUME NEW e \in Commands \ dropped', run'[e] # "none"
        PROVE  e \in Sent' /\ Guarded(e)'
    <2>1. e \in Sent /\ Guarded(e)
      BY <1>1, <1>2, <1>5 DEF OnceInv, HandledOnce
    <2>2. CASE e \in seen \ K
      <3>1. req[e].deadline < now
        BY <1>1, <1>5, <2>2, PruneKeeps
      <3> QED
        BY <1>2, <1>4, <2>1, <3>1 DEF Guarded
    <2> QED
      BY <1>1, <1>2, <1>4, <2>1, <2>2 DEF Guarded
  <1>6. AtMostOnce'
    BY <1>1, <1>2 DEF OnceInv, AtMostOnce
  <1> QED
    BY <1>1, <1>2, <1>3, <1>4, <1>5, <1>6 DEF OnceInv, HandledOnce, TypeOK

\* The accepted command was not handled before, or its session is no longer open.
LEMMA HandledAccept ==
  ASSUME OnceInv, NEW c \in Commands, NEW d \in {"allow", "ask", "deny"}, Accept(c, d)
  PROVE  HandledOnce' /\ AtMostOnce'
  <1>1. PICK K \in Pruned : /\ ~IsReplay(c, K)
                            /\ seen' = K \cup {c}
                            /\ seenAt' = [x \in Commands |->
                                 IF x = c THEN now ELSE IF x \in K THEN seenAt[x] ELSE 0]
                            /\ dropped' = dropped \cup (Fresh \ K)
    BY DEF Accept
  <1>2. UNCHANGED <<now, mode, req, session, following>>
    BY DEF Accept, serverVars, sessionVars
  <1>3. K \subseteq seen
    BY DEF Pruned, Fresh
  <1>4. Sent' = Sent /\ c \in Sent /\ req[c].deadline >= now
    BY <1>2 DEF Sent, Accept, Delivered
  <1>5. /\ req[c].deadline \in Int /\ now \in Nat
        /\ req[c].deadline <= now + ReplayTTL
        /\ req[c].session \in Sessions
    <2>1. req[c] \in Request /\ req[c].deadline <= now + Skew + MaxLife
      BY <1>4 DEF OnceInv, RequestsKnown
    <2> QED
      BY <2>1, ExtensionAssumption, SkewAssumption DEF Request, OnceInv, TypeOK
  <1>6. ASSUME c \notin dropped', session = req[c].session
        PROVE  run[c] = "none" /\ starts[c] = 0
    <2>1. ~Guarded(c)
      <3>1. CASE c \in seen
        <4>1. c \in seen \ K
          BY <1>1, <3>1 DEF IsReplay
        <4>2. req[c].deadline < now
          BY <1>1, <1>6, <4>1, PruneKeeps
        <4> QED
          BY <1>4, <1>5, <4>2
      <3> QED
        BY <1>4, <1>5, <1>6, <3>1 DEF Guarded
    <2> QED
      BY <1>1, <1>6, <2>1 DEF OnceInv, HandledOnce
  <1>7. ASSUME NEW e \in Commands \ dropped', e # c
        PROVE  /\ run'[e] = run[e] /\ starts'[e] = starts[e]
               /\ run[e] # "none" => e \in Sent' /\ Guarded(e)'
               /\ e \in seen' => e \in seen /\ seenAt'[e] = seenAt[e]
    <2>1. run'[e] = run[e] /\ starts'[e] = starts[e]
      BY <1>7 DEF Accept, Execute, OnceInv, TypeOK
    <2>2. e \in seen' => e \in seen /\ seenAt'[e] = seenAt[e]
      BY <1>1, <1>3, <1>7
    <2>3. ASSUME run[e] # "none" PROVE e \in Sent' /\ Guarded(e)'
      <3>1. e \in Sent /\ Guarded(e)
        BY <1>1, <1>7, <2>3 DEF OnceInv, HandledOnce
      <3>2. CASE e \in seen \ K
        <4>1. req[e].deadline < now
          BY <1>1, <1>7, <3>2, PruneKeeps
        <4> QED
          BY <1>2, <1>4, <3>1, <4>1 DEF Guarded
      <3> QED
        BY <1>1, <1>2, <1>4, <3>1, <3>2 DEF Guarded
    <2> QED
      BY <2>1, <2>2, <2>3
  <1>8. ASSUME c \notin dropped'
        PROVE  /\ starts'[c] <= 1
               /\ run'[c] # "none"
               /\ run'[c] = "asking" => starts'[c] = 0
               /\ seenAt'[c] = now /\ c \in seen'
    <2>1. seenAt'[c] = now /\ c \in seen'
      BY <1>1
    <2>2. starts[c] <= 1
      BY <1>1, <1>8 DEF OnceInv, AtMostOnce
    <2>3. CASE session = req[c].session /\ d = "allow"
      <3>1. starts'[c] <= 1 /\ run'[c] \in {"executing", "done"}
        BY <1>6, <1>8, <2>3 DEF Accept, Execute, OnceInv, TypeOK, Many
      <3> QED
        BY <2>1, <3>1
    <2>4. CASE ~(session = req[c].session /\ d = "allow")
      <3>1. /\ starts' = starts
            /\ run'[c] = IF session = req[c].session /\ d = "ask" THEN "asking" ELSE "done"
        BY <2>4 DEF Accept, OnceInv, TypeOK
      <3> QED
        BY <1>6, <1>8, <2>1, <2>2, <3>1
    <2> QED
      BY <2>3, <2>4
  <1>9. AtMostOnce'
    BY <1>1, <1>7, <1>8 DEF OnceInv, AtMostOnce
  <1>10. ASSUME NEW e \in Commands \ dropped'
         PROVE  /\ run'[e] = "none" => starts'[e] = 0
                /\ run'[e] = "asking" => starts'[e] = 0
                /\ run'[e] # "none" => e \in Sent' /\ Guarded(e)'
                /\ e \in seen' => /\ e \in Sent' /\ seenAt'[e] <= now'
                                  /\ req'[e].deadline <= seenAt'[e] + ReplayTTL
    <2>1. CASE e = c
      BY <1>2, <1>4, <1>5, <1>8, <1>10, <2>1 DEF Guarded
    <2>2. CASE e # c
      BY <1>1, <1>2, <1>4, <1>7, <1>10, <2>2 DEF OnceInv, HandledOnce
    <2> QED
      BY <2>1, <2>2
  <1> QED
    BY <1>9, <1>10 DEF HandledOnce

\* An approved command had not started yet.
LEMMA HandledApprove ==
  ASSUME OnceInv, NEW c \in Commands, Approve(c) \/ Finish(c)
  PROVE  HandledOnce' /\ AtMostOnce'
  <1>1. /\ UNCHANGED <<now, mode, req, seen, seenAt, dropped, session, following>>
        /\ run[c] \in {"asking", "executing"} /\ run'[c] \in {"executing", "done"}
        /\ \A e \in Commands : e # c => run'[e] = run[e] /\ starts'[e] = starts[e]
    BY DEF Approve, Finish, Execute, Asking, Running, serverVars, cacheVars, sessionVars,
           OnceInv, TypeOK
  <1>2. c \notin dropped => starts'[c] <= 1
    <2>1. CASE Approve(c)
      BY <2>1 DEF Approve, Execute, Asking, OnceInv, HandledOnce, TypeOK, Many
    <2>2. CASE Finish(c)
      BY <2>2 DEF Finish, OnceInv, AtMostOnce, TypeOK
    <2> QED
      BY <2>1, <2>2
  <1>3. AtMostOnce'
    BY <1>1, <1>2 DEF OnceInv, AtMostOnce
  <1>4. Sent' = Sent /\ \A e \in Commands : Guarded(e)' <=> Guarded(e)
    BY <1>1 DEF Sent, Guarded
  <1> QED
    BY <1>1, <1>3, <1>4 DEF OnceInv, HandledOnce

\* The sequence table and the cache are lost with the worker, but so is every session.
LEMMA HandledKilled ==
  ASSUME OnceInv, WorkerKilled
  PROVE  HandledOnce' /\ AtMostOnce'
  <1>1. /\ UNCHANGED <<now, mode, req, dropped, starts>>
        /\ seen' = {} /\ session' = None /\ following' = {}
        /\ \A c \in Commands : run'[c] = IF run[c] = "none" THEN "none" ELSE "done"
    BY DEF WorkerKilled, serverVars
  <1>2. \A c \in Sent : req[c].session # None
    BY ExtensionAssumption DEF OnceInv, RequestsKnown, Request
  <1>3. Sent' = Sent
    BY <1>1 DEF Sent
  <1> QED
    BY <1>1, <1>2, <1>3 DEF OnceInv, HandledOnce, AtMostOnce, Guarded

\* Time that passes brings no deadline back.
LEMMA HandledTick ==
  ASSUME OnceInv, Tick
  PROVE  HandledOnce' /\ AtMostOnce'
  <1>1. /\ now' = now + 1
        /\ UNCHANGED <<mode, req, seen, seenAt, dropped, session, following, run, starts>>
    BY DEF Tick, serverVars, cacheVars, sessionVars, runVars
  <1>2. \A c \in Sent : req[c].deadline \in Int
    BY DEF OnceInv, RequestsKnown, Request
  <1>3. now \in Nat /\ \A c \in seen : seenAt[c] \in Nat
    BY DEF OnceInv, TypeOK
  <1>4. Sent' = Sent
    BY <1>1 DEF Sent
  <1> QED
    BY <1>1, <1>2, <1>3, <1>4 DEF OnceInv, HandledOnce, AtMostOnce, Guarded

\* The invariant of ExecutedAtMostOnce is inductive.
LEMMA OnceStep == OnceInv /\ [Next]_vars => OnceInv'
  <1> SUFFICES ASSUME OnceInv, [Next]_vars PROVE OnceInv'
    OBVIOUS
  <1>1. TypeOK /\ TypeOK' /\ RequestsKnown'
    BY TypeStep, RequestsKnownStep DEF OnceInv
  <1>2. CASE ServerStep
    <2>1. Sent \subseteq Sent' /\ \A c \in Sent : req'[c] = req[c]
      <3>1. CASE \E c \in Commands, m \in {"read", "write"}, life \in 1..MaxLife :
                   Dispatch(c, m, life)
        BY <1>1, <3>1 DEF Dispatch, Broker!Begin, Sent, TypeOK
      <3>2. CASE \/ \E c \in Commands : BrokerSettles(c)
                 \/ ServerDrops \/ ServerJoins \/ ServerCloses
        BY <1>1, <3>2, EndsKeepSent DEF BrokerSettles, ServerDrops, ServerJoins, ServerCloses
      <3> QED
        BY <1>2, <3>1, <3>2 DEF ServerStep
    <2>2. UNCHANGED <<now, seen, seenAt, session, following, run, starts, dropped>>
      BY <1>2 DEF ServerStep, Dispatch, BrokerSettles, ServerDrops, ServerJoins, ServerCloses,
                  cacheVars, sessionVars, runVars
    <2> QED
      BY <1>1, <2>1, <2>2, HandledFrame DEF OnceInv
  <1>3. CASE TransportStep
    <2>1. CASE Joined \/ Disconnected
      <3>1. UNCHANGED <<now, mode, req, seen, seenAt, session, following, run, starts, dropped>>
        BY <2>1 DEF Joined, Disconnected, serverVars, cacheVars, sessionVars, runVars
      <3>2. HandledOnce' /\ AtMostOnce'
        <4>1. GoneStaysGone
          BY <3>1 DEF GoneStaysGone
        <4>2. PromptsOnlyEnd
          BY <3>1 DEF PromptsOnlyEnd
        <4> QED
          BY <3>1, <4>1, <4>2, HandledSessions
      <3> QED
        BY <1>1, <3>2 DEF OnceInv
    <2>2. CASE \E c \in Commands : Deny(c)
      <3>1. UNCHANGED <<now, mode, req, seen, seenAt, session, following, starts, dropped>>
        BY <2>2 DEF Deny, serverVars, cacheVars, sessionVars
      <3>2. PromptsOnlyEnd
        BY <1>1, <2>2 DEF PromptsOnlyEnd, Deny, Asking, TypeOK
      <3>3. GoneStaysGone
        BY <3>1 DEF GoneStaysGone
      <3>4. HandledOnce' /\ AtMostOnce'
        BY <3>1, <3>2, <3>3, HandledSessions
      <3> QED
        BY <1>1, <3>4 DEF OnceInv
    <2> QED
      BY <1>1, <1>3, <2>1, <2>2, HandledRefuse, HandledAccept, HandledApprove
         DEF TransportStep, OnceInv
  <1>4. CASE SessionStep
    <2>1. UNCHANGED <<now, mode, req, seen, seenAt, starts, dropped>>
      BY <1>4 DEF SessionStep, OpenSession, CloseFinishes, RegisterSession, OpenFails,
                  CloseSession, FollowTab, serverVars, cacheVars, runVars
    <2>2. GoneStaysGone
      BY <1>4, ExtensionAssumption
         DEF GoneStaysGone, SessionStep, OpenSession, CloseFinishes, RegisterSession, OpenFails,
             CloseSession, FollowTab, TypeOK, OnceInv
    <2>3. PromptsOnlyEnd
      BY <1>4 DEF PromptsOnlyEnd, SessionStep, OpenSession, CloseFinishes, RegisterSession, OpenFails,
                  CloseSession, FollowTab, Asking, runVars
    <2>4. HandledOnce' /\ AtMostOnce'
      BY <2>1, <2>2, <2>3, HandledSessions
    <2> QED
      BY <1>1, <2>4 DEF OnceInv
  <1>5. CASE WorkerKilled
    BY <1>1, <1>5, HandledKilled DEF OnceInv
  <1>6. CASE Tick
    BY <1>1, <1>6, HandledTick DEF OnceInv
  <1>7. CASE UNCHANGED vars
    <2>1. UNCHANGED <<now, mode, req, seen, seenAt, session, following, run, starts, dropped>>
      BY <1>7 DEF vars
    <2>2. HandledOnce' /\ AtMostOnce'
      BY <2>1, HandledFrame DEF Sent
    <2> QED
      BY <1>1, <2>2 DEF OnceInv
  <1> QED
    BY <1>2, <1>3, <1>4, <1>5, <1>6, <1>7 DEF Next

\* Nothing is handled at the start.
LEMMA InitOnce == Init => OnceInv
  <1> SUFFICES ASSUME Init PROVE OnceInv
    OBVIOUS
  <1>1. TypeOK
    BY InitTypes
  <1>2. Sent = {}
    BY DEF Init, Sent, Broker!LockInit
  <1>3. RequestsKnown
    BY <1>2 DEF Init, RequestsKnown
  <1>4. HandledOnce /\ AtMostOnce
    BY DEF Init, HandledOnce, AtMostOnce
  <1> QED
    BY <1>1, <1>3, <1>4 DEF OnceInv

\* No command is executed twice, unless a full replay cache gave its id up early:
\* neither a repeated request, nor a rejoin that clears the sequences, nor a restart
\* that loses the cache, starts it again, provided the clocks agree to SkewAssumption.
THEOREM ExecutedAtMostOnce == Spec => []AtMostOnce
  <1>1. OnceInv => AtMostOnce
    BY DEF OnceInv
  <1> QED
    BY <1>1, InitOnce, OnceStep, PTL DEF Spec

-----------------------------------------------------------------------------
(* The sequence table behind the cache *)

\* A step that handles no request, clears no table and starts nothing.
LEMMA SequenceFrame ==
  ASSUME SequenceInv,
         UNCHANGED <<lastSeq, starts, rejoined>>,
         joined' => joined,
         Sent \subseteq Sent',
         \A c \in Sent : req'[c] = req[c],
         \A c \in Commands : \/ run'[c] = run[c]
                             \/ run[c] # "none" /\ run'[c] \notin {"none", "asking"}
  PROVE  SequenceKnown' /\ SequenceBacksCache'
  BY DEF SequenceInv, SequenceKnown, SequenceBacksCache

\* An accepted request is newer than all that were handled since the join: it was not
\* handled itself, and the table only grows.
LEMMA SequenceAccept ==
  ASSUME SequenceInv, NEW c \in Commands, NEW d \in {"allow", "ask", "deny"}, Accept(c, d)
  PROVE  SequenceKnown' /\ SequenceBacksCache'
  <1> TypeOK
    BY DEF SequenceInv, OnceInv
  <1>1. /\ UNCHANGED <<mode, req, joined, rejoined>>
        /\ joined /\ c \in Sent
        /\ ~(req[c].sequence <= lastSeq[req[c].session])
        /\ lastSeq' = [lastSeq EXCEPT ![req[c].session] = req[c].sequence]
    BY DEF Accept, Delivered, IsReplay, serverVars
  <1>2. Sent' = Sent
    BY <1>1 DEF Sent
  <1>3. \A e \in Sent : req[e].sequence \in Nat /\ req[e].session \in Sessions
    BY DEF SequenceInv, OnceInv, RequestsKnown, Request
  <1>4. /\ \A s \in Sessions : lastSeq[s] \in Nat /\ lastSeq[s] <= lastSeq'[s]
        /\ lastSeq'[req[c].session] = req[c].sequence
    BY <1>1, <1>3 DEF TypeOK
  <1>5. c \notin rejoined => run[c] = "none" /\ starts[c] = 0
    BY <1>1 DEF SequenceInv, SequenceKnown
  <1>6. \A e \in Commands : e # c => run'[e] = run[e] /\ starts'[e] = starts[e]
    BY DEF Accept, Execute, TypeOK
  <1>7. /\ run'[c] # "none"
        /\ run'[c] = "asking" => starts'[c] = starts[c]
        /\ starts[c] = 0 => starts'[c] <= 1
    <2>1. CASE session = req[c].session /\ d = "allow"
      BY <2>1 DEF Accept, Execute, TypeOK, Many
    <2>2. CASE ~(session = req[c].session /\ d = "allow")
      BY <2>2 DEF Accept, TypeOK
    <2> QED
      BY <2>1, <2>2
  <1>8. ASSUME NEW e \in Commands \ rejoined'
        PROVE  /\ run'[e] \in {"none", "asking"} => starts'[e] = 0
               /\ run'[e] # "none" => /\ e \in Sent'
                                      /\ joined' => req'[e].sequence <= lastSeq'[req'[e].session]
               /\ starts'[e] <= 1
    <2>1. CASE e = c
      BY <1>1, <1>2, <1>3, <1>4, <1>5, <1>7, <1>8, <2>1
    <2>2. CASE e # c
      <3>1. /\ run[e] \in {"none", "asking"} => starts[e] = 0
            /\ run[e] # "none" => e \in Sent /\ req[e].sequence <= lastSeq[req[e].session]
            /\ starts[e] <= 1
        BY <1>1, <1>8 DEF SequenceInv, SequenceKnown, SequenceBacksCache
      <3>2. ASSUME run[e] # "none" PROVE req[e].sequence <= lastSeq'[req[e].session]
        <4>1. req[e].session \in Sessions /\ req[e].sequence \in Nat
          BY <1>3, <3>1, <3>2
        <4>2. lastSeq' \in [Sessions -> Nat]
          BY <1>1, <1>3 DEF TypeOK
        <4> QED
          BY <1>4, <3>1, <3>2, <4>1, <4>2
      <3> QED
        BY <1>1, <1>2, <1>6, <2>2, <3>1, <3>2
    <2> QED
      BY <2>1, <2>2
  <1> QED
    BY <1>8 DEF SequenceKnown, SequenceBacksCache

\* A prompt that is allowed had started nothing yet.
LEMMA SequenceApprove ==
  ASSUME SequenceInv, NEW c \in Commands, Approve(c)
  PROVE  SequenceKnown' /\ SequenceBacksCache'
  <1>1. /\ UNCHANGED <<mode, req, joined, rejoined, lastSeq>>
        /\ run[c] = "asking" /\ run'[c] \in {"executing", "done"}
        /\ starts[c] = 0 => starts'[c] <= 1
        /\ \A e \in Commands : e # c => run'[e] = run[e] /\ starts'[e] = starts[e]
    BY DEF Approve, Execute, Asking, serverVars, SequenceInv, OnceInv, TypeOK, Many
  <1>2. Sent' = Sent
    BY <1>1 DEF Sent
  <1> QED
    BY <1>1, <1>2 DEF SequenceInv, SequenceKnown, SequenceBacksCache

\* A join clears the table, and counts every handled command as rejoined.
LEMMA SequenceJoined ==
  ASSUME SequenceInv, Joined
  PROVE  SequenceKnown' /\ SequenceBacksCache'
  <1>1. /\ rejoined' = rejoined \cup {c \in Commands : run[c] # "none"}
        /\ UNCHANGED <<run, starts>>
    BY DEF Joined, runVars
  <1> QED
    BY <1>1 DEF SequenceInv, SequenceKnown, SequenceBacksCache

\* The invariant of HandledOnceSinceJoin is inductive.
LEMMA SequenceStep == SequenceInv /\ [Next]_vars => SequenceInv'
  <1> SUFFICES ASSUME SequenceInv, [Next]_vars PROVE SequenceKnown' /\ SequenceBacksCache'
    BY OnceStep DEF SequenceInv
  <1> TypeOK
    BY DEF SequenceInv, OnceInv
  <1>1. CASE ServerStep
    <2>1. Sent \subseteq Sent' /\ \A c \in Sent : req'[c] = req[c]
      <3>1. CASE \E c \in Commands, m \in {"read", "write"}, life \in 1..MaxLife :
                   Dispatch(c, m, life)
        BY <3>1 DEF Dispatch, Broker!Begin, Sent, TypeOK
      <3>2. CASE \/ \E c \in Commands : BrokerSettles(c)
                 \/ ServerDrops \/ ServerJoins \/ ServerCloses
        BY <3>2, EndsKeepSent DEF BrokerSettles, ServerDrops, ServerJoins, ServerCloses
      <3> QED
        BY <1>1, <3>1, <3>2 DEF ServerStep
    <2>2. UNCHANGED <<lastSeq, run, starts, rejoined, joined>>
      BY <1>1 DEF ServerStep, Dispatch, BrokerSettles, ServerDrops, ServerJoins, ServerCloses,
                  runVars
    <2> QED
      BY <2>1, <2>2, SequenceFrame
  <1>2. CASE TransportStep
    <2>1. CASE Disconnected \/ \E c \in Commands : Refuse(c) \/ Deny(c) \/ Finish(c)
      <3>1. /\ UNCHANGED <<mode, req, lastSeq, starts, rejoined>>
            /\ joined' => joined
        BY <2>1 DEF Disconnected, Refuse, Deny, Finish, serverVars, runVars
      <3>2. \A e \in Commands : \/ run'[e] = run[e]
                                \/ run[e] # "none" /\ run'[e] \notin {"none", "asking"}
        BY <2>1 DEF Disconnected, Refuse, Deny, Finish, Asking, Running, runVars, TypeOK
      <3> QED
        BY <3>1, <3>2, SequenceFrame DEF Sent
    <2> QED
      BY <1>2, <2>1, SequenceAccept, SequenceApprove, SequenceJoined DEF TransportStep
  <1>3. CASE Tick \/ SessionStep \/ UNCHANGED vars
    <2>1. UNCHANGED <<mode, req, lastSeq, starts, rejoined, joined>>
      BY <1>3 DEF Tick, SessionStep, OpenSession, CloseFinishes, RegisterSession, OpenFails,
                  CloseSession, FollowTab, serverVars, runVars, vars
    <2>2. \A e \in Commands : \/ run'[e] = run[e]
                              \/ run[e] # "none" /\ run'[e] \notin {"none", "asking"}
      BY <1>3 DEF Tick, SessionStep, OpenSession, CloseFinishes, RegisterSession, OpenFails,
                  CloseSession, FollowTab, Asking, runVars, vars
    <2> QED
      BY <2>1, <2>2, SequenceFrame DEF Sent
  <1>4. CASE WorkerKilled
    <2>1. /\ UNCHANGED <<mode, req, starts, rejoined>> /\ joined' = FALSE
          /\ \A c \in Commands : run'[c] = IF run[c] = "none" THEN "none" ELSE "done"
      BY <1>4 DEF WorkerKilled, serverVars
    <2> QED
      BY <2>1 DEF SequenceInv, SequenceKnown, SequenceBacksCache, Sent
  <1> QED
    BY <1>1, <1>2, <1>3, <1>4 DEF Next

\* A command is executed once, also when a full replay cache has given its id up, as
\* long as the transport has not joined again since it was handled: the sequence table
\* refuses what the cache no longer knows.
THEOREM HandledOnceSinceJoin == Spec => []SequenceBacksCache
  <1>1. Init => SequenceInv
    <2>1. Init => OnceInv
      BY InitOnce
    <2>2. Init => SequenceKnown /\ SequenceBacksCache
      BY DEF Init, SequenceKnown, SequenceBacksCache
    <2> QED
      BY <2>1, <2>2 DEF SequenceInv
  <1>2. SequenceInv => SequenceBacksCache
    BY DEF SequenceInv
  <1> QED
    BY <1>1, <1>2, SequenceStep, PTL DEF Spec
=============================================================================
