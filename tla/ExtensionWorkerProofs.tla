------------------------ MODULE ExtensionWorkerProofs ------------------------
(***************************************************************************)
(* What pairing, token rotation, the controlled tab and the schedules      *)
(* promise, for any number of devices, requests, rotations, tabs, sessions *)
(* and handlers, and for any rule, clock and number of calls of sync.      *)
(***************************************************************************)
EXTENDS ExtensionWorker, SequenceTheorems, TLAPS

-----------------------------------------------------------------------------
(* Pairing and rotation *)

Grants == {"none", "pending", "approved", "denied", "expired", "consumed", "claimed"}
Rows == [state : {"none", "active", "revoked"}, cur : Nat, prev : Nat, at : Nat]
Creds == [dev : Devices \cup {None}, tok : Nat]
Reqs == [kind : {"none", "exchange", "claim", "refresh"},
         pc : {"idle", "sent", "consume", "rotate", "restore", "revoke", "answered", "remember"},
         dev : Devices \cup {None}, tok : Nat,
         answer : {"none", "token", "pending", "denied"}, live : BOOLEAN]

TokenTypes ==
  /\ Grace \in Nat /\ None \notin Devices
  /\ now \in Nat
  /\ grant \in [Devices -> Grants] /\ created \in [Devices -> Nat] /\ minted \in [Devices -> Nat]
  /\ row \in [Devices -> Rows] /\ req \in [Requests -> Reqs]
  /\ mem \in Creds /\ stored \in Creds

\* A credential names a device, and so does a request that is under way; only an
\* answer that is awaited is stored.
Shapes ==
  /\ \A c \in {mem, stored} : c # NoCred => c.dev \in Devices
  /\ \A r \in Requests :
       /\ req[r].pc # "idle" => req[r].kind # "none" /\ req[r].dev \in Devices
       /\ req[r].answer = "token" => req[r].pc \in {"answered", "remember"}
       /\ req[r].pc = "remember" => req[r].answer = "token" /\ req[r].live

\* A device is made once: its grant is consumed, or its claim is served.
OneMade ==
  \A d \in Devices : /\ created[d] = 0 \/ (created[d] = 1 /\ grant[d] \in {"consumed", "claimed"})
                     /\ created[d] = 0 => row[d].state = "none"

\* A claim that was not served yet is the only one of its device.
OpenClaims ==
  /\ \A r \in Requests : At(r, "claim", "sent") => grant[req[r].dev] = "claimed" /\ created[req[r].dev] = 0
  /\ \A r, s \in Requests :
       At(r, "claim", "sent") /\ At(s, "claim", "sent") /\ req[r].dev = req[s].dev => r = s

\* Before that nobody has a credential of it, or a request that shows one.
NotMade ==
  \A d \in Devices : created[d] = 0 =>
    /\ mem.dev # d /\ stored.dev # d
    /\ \A r \in Requests : req[r].dev = d => req[r].kind # "refresh" /\ req[r].answer # "token"

MadeInv == TokenTypes /\ Shapes /\ OneMade /\ OpenClaims /\ NotMade

\* Nothing is made and no request is under way at the start.
LEMMA MadeInit == TokenAssumption /\ Init => MadeInv
  BY DEF TokenAssumption, Init, MadeInv, TokenTypes, Shapes, OneMade, OpenClaims, NotMade, Grants, Rows, Creds, Reqs, NoRow, NoCred,
         NoRequest, NoToken, At

\* What a step that touches one request makes of the requests.
Becomes(r, kind, pc, dev, tok, answer, live) ==
  /\ req' \in [Requests -> Reqs] /\ \A s \in Requests : s # r => req'[s] = req[s]
  /\ req'[r].kind = kind /\ req'[r].pc = pc /\ req'[r].dev = dev
  /\ req'[r].tok = tok /\ req'[r].answer = answer /\ (req'[r].live <=> live)

\* What Goes does to a request.
LEMMA GoesFacts ==
  ASSUME TokenTypes, NEW r \in Requests, NEW pc \in {"consume", "rotate", "restore", "revoke", "remember"},
         Goes(r, pc)
  PROVE  Becomes(r, req[r].kind, pc, req[r].dev, req[r].tok, req[r].answer, req[r].live)
  BY DEF Goes, TokenTypes, Reqs, Becomes

\* What Answers does to a request.
LEMMA AnswersFacts ==
  ASSUME TokenTypes, NEW r \in Requests, NEW a \in {"token", "pending", "denied"}, NEW t \in Nat, Answers(r, a, t)
  PROVE  Becomes(r, req[r].kind, "answered", req[r].dev, t, a, req[r].live)
  <1>1. /\ req' \in [Requests -> Reqs] /\ \A s \in Requests : s # r => req'[s] = req[s]
        /\ req'[r].kind = req[r].kind /\ req'[r].pc = "answered" /\ req'[r].dev = req[r].dev
        /\ req'[r].tok = t /\ req'[r].answer = a /\ req'[r].live = req[r].live
    BY DEF Answers, TokenTypes, Reqs
  <1> QED
    BY <1>1 DEF Becomes

\* What Send does to a request.
LEMMA SendFacts ==
  ASSUME TokenTypes, NEW r \in Requests, NEW k \in {"exchange", "claim", "refresh"}, NEW d \in Devices,
         NEW t \in Nat, Send(r, k, d, t)
  PROVE  Becomes(r, k, "sent", d, t, "none", TRUE)
  BY DEF Send, TokenTypes, Reqs, Becomes

\* What Done does to a request.
LEMMA DoneFacts ==
  ASSUME TokenTypes, NEW r \in Requests, Done(r)
  PROVE  Becomes(r, "none", "idle", None, 0, "none", FALSE)
  BY DEF Done, TokenTypes, Reqs, NoRequest, NoToken, Becomes

\* What a lost connection does to a request.
LEMMA LoseFacts ==
  ASSUME TokenTypes, NEW r \in Requests, LoseConnection(r)
  PROVE  Becomes(r, req[r].kind, req[r].pc, req[r].dev, req[r].tok, req[r].answer, FALSE)
  BY DEF LoseConnection, TokenTypes, Reqs, Becomes

\* What a killed worker does to the requests: the server goes on with them.
LEMMA KilledFacts ==
  ASSUME TokenTypes, WorkerKilled
  PROVE  /\ req' \in [Requests -> Reqs]
         /\ \A r \in Requests : req[r].pc = "remember" \/ Free(r) => req'[r] = NoRequest
         /\ \A r \in Requests : req[r].pc # "remember" /\ ~Free(r) =>
              /\ req'[r].pc = req[r].pc /\ req'[r].kind = req[r].kind /\ req'[r].dev = req[r].dev
              /\ req'[r].tok = req[r].tok /\ req'[r].answer = req[r].answer /\ ~req'[r].live
  <1>1. NoRequest \in Reqs /\ \A r \in Requests : req[r] \in Reqs
    BY DEF TokenTypes, Reqs, NoRequest, NoToken
  <1>2. \A r \in Requests : req[r].pc = "remember" \/ Free(r) => req'[r] = NoRequest
    BY DEF WorkerKilled
  <1>3. \A q \in Reqs : /\ [q EXCEPT !.live = FALSE] \in Reqs
                         /\ LET p == [q EXCEPT !.live = FALSE]
                            IN p.pc = q.pc /\ p.kind = q.kind /\ p.dev = q.dev /\ p.tok = q.tok
                               /\ p.answer = q.answer /\ ~p.live
    BY DEF Reqs
  <1>4. req' \in [Requests -> Reqs]
    BY <1>1, <1>3 DEF WorkerKilled
  <1>5. ASSUME NEW r \in Requests, req[r].pc # "remember", ~Free(r)
        PROVE  /\ req'[r].pc = req[r].pc /\ req'[r].kind = req[r].kind /\ req'[r].dev = req[r].dev
               /\ req'[r].tok = req[r].tok /\ req'[r].answer = req[r].answer /\ ~req'[r].live
    <2>1. req[r] \in Reqs /\ req'[r] = [req[r] EXCEPT !.live = FALSE]
      BY <1>1, <1>5 DEF WorkerKilled
    <2> QED
      BY <1>3, <2>1
  <1> QED
    BY <1>2, <1>4, <1>5

\* _create_paired_device, for a device that no request was answered about.
LEMMA CreateFacts ==
  ASSUME MadeInv, NEW r \in Requests, NEW d \in Devices, Create(r, d), created[d] = 0
  PROVE  /\ row' \in [Devices -> Rows] /\ minted' \in [Devices -> Nat] /\ created' \in [Devices -> Nat]
         /\ created'[d] = 1 /\ row'[d].state = "active" /\ row'[d].cur = 1
         /\ \A e \in Devices : e # d => created'[e] = created[e] /\ row'[e] = row[e]
  BY DEF MadeInv, TokenTypes, Create, Rows, NoToken

\* The invariant of pairing is inductive.
LEMMA MadeStep == MadeInv /\ [Next]_vars => MadeInv'
  <1> SUFFICES ASSUME MadeInv, [Next]_vars PROVE MadeInv'
    OBVIOUS
  <1>0. TokenTypes /\ Shapes /\ OneMade /\ OpenClaims /\ NotMade /\ NoToken \in Nat
    BY DEF MadeInv, NoToken
  <1>1. ASSUME NEW d \in Devices, StartPairing(d) \/ ExpireGrant(d) \/ (\E a \in BOOLEAN : Decide(d, a))
        PROVE  MadeInv'
    BY <1>0, <1>1
    DEF StartPairing, ExpireGrant, Decide, clientVars, historyVars, MadeInv, TokenTypes, Shapes, OneMade, OpenClaims, NotMade, At, Grants
  <1>2. ASSUME NEW r \in Requests, NEW d \in Devices, Poll(r, d) PROVE MadeInv'
    <2>1. Send(r, "exchange", d, NoToken) /\ UNCHANGED <<now, serverVars, clientVars>>
      BY <1>2 DEF Poll
    <2>2. Becomes(r, "exchange", "sent", d, NoToken, "none", TRUE)
      BY <1>0, <2>1, SendFacts
    <2>3. TokenTypes'
      BY <1>0, <2>1, <2>2 DEF serverVars, clientVars, TokenTypes, Becomes
    <2>4. Shapes'
      BY <1>0, <2>1, <2>2 DEF serverVars, clientVars, Shapes, Becomes
    <2>5. OneMade'
      BY <1>0, <2>1, <2>2 DEF serverVars, clientVars, OneMade, Becomes
    <2>5a. OpenClaims'
      BY <1>0, <2>1, <2>2 DEF serverVars, clientVars, OpenClaims, At, Becomes
    <2>6. NotMade'
      BY <1>0, <2>1, <2>2 DEF serverVars, clientVars, NotMade, Becomes
    <2> QED
      BY <2>3, <2>4, <2>5, <2>5a, <2>6 DEF MadeInv
  <1>3. ASSUME NEW r \in Requests, NEW d \in Devices, Claim(r, d) PROVE MadeInv'
    <2>1. /\ Send(r, "claim", d, NoToken) /\ grant[d] = "none" /\ grant' = [grant EXCEPT ![d] = "claimed"]
          /\ UNCHANGED <<now, created, row, minted, clientVars>>
      BY <1>3 DEF Claim
    <2>2. Becomes(r, "claim", "sent", d, NoToken, "none", TRUE)
      BY <1>0, <2>1, SendFacts
    <2>3. TokenTypes'
      BY <1>0, <2>1, <2>2 DEF clientVars, TokenTypes, Grants, Becomes
    <2>4. Shapes'
      BY <1>0, <2>1, <2>2 DEF clientVars, Shapes, Becomes
    <2>5. OneMade'
      BY <1>0, <2>1, <2>2 DEF clientVars, OneMade, Becomes
    <2>5a. OpenClaims'
      <3>1. created[d] = 0 /\ grant'[d] = "claimed" /\ \A e \in Devices : e # d => grant'[e] = grant[e]
        BY <1>0, <2>1 DEF TokenTypes, OneMade
      <3>2. \A s \in Requests : At(s, "claim", "sent") => req[s].dev # d /\ req[s].dev \in Devices
        BY <1>0, <2>1 DEF OpenClaims, Shapes, At
      <3> QED
        BY <1>0, <2>1, <2>2, <3>1, <3>2 DEF OpenClaims, At, Becomes
    <2>6. NotMade'
      BY <1>0, <2>1, <2>2 DEF clientVars, NotMade, Becomes
    <2> QED
      BY <2>3, <2>4, <2>5, <2>5a, <2>6 DEF MadeInv
  <1>4. ASSUME NEW r \in Requests, Exchange(r) PROVE MadeInv'
    <2>1. /\ req[r].pc = "sent" /\ req[r].kind = "exchange" /\ UNCHANGED <<now, serverVars, clientVars>>
          /\ Goes(r, "consume") \/ \E a \in {"pending", "denied"} : Answers(r, a, NoToken)
      BY <1>4 DEF Exchange, At
    <2>2. TokenTypes'
      BY <1>0, <2>1, GoesFacts, AnswersFacts DEF serverVars, clientVars, TokenTypes, Becomes
    <2>3. Shapes'
      BY <1>0, <2>1, GoesFacts, AnswersFacts DEF serverVars, clientVars, Shapes, Becomes
    <2>4. OneMade'
      BY <1>0, <2>1, GoesFacts, AnswersFacts DEF serverVars, clientVars, OneMade, Becomes
    <2>4a. OpenClaims'
      BY <1>0, <2>1, GoesFacts, AnswersFacts DEF serverVars, clientVars, OpenClaims, At, Becomes
    <2>5. NotMade'
      BY <1>0, <2>1, GoesFacts, AnswersFacts DEF serverVars, clientVars, NotMade, Becomes
    <2> QED
      BY <2>2, <2>3, <2>4, <2>4a, <2>5 DEF MadeInv
  <1>5. ASSUME NEW r \in Requests, NEW ok \in BOOLEAN, Consume(r, ok) PROVE MadeInv'
    <2> DEFINE d == req[r].dev
    <2>1. req[r].pc = "consume" /\ req[r].kind = "exchange" /\ d \in Devices /\ UNCHANGED <<now, clientVars>>
      BY <1>0, <1>5 DEF Consume, At, Shapes
    <2>2. CASE CanConsume(d) /\ ok
      <3>1. grant[d] = "approved" /\ grant' = [grant EXCEPT ![d] = "consumed"] /\ Create(r, d) /\ created[d] = 0
        <4>1. grant[d] = "approved" /\ grant' = [grant EXCEPT ![d] = "consumed"] /\ Create(r, d)
          BY <1>5, <2>2 DEF Consume, CanConsume
        <4> QED
          BY <1>0, <2>1, <4>1 DEF OneMade
      <3>2. Answers(r, "token", 1)
        BY <3>1 DEF Create
      <3>3. TokenTypes'
        BY <1>0, <2>1, <3>1, <3>2, CreateFacts, AnswersFacts DEF clientVars, TokenTypes, Grants, Becomes
      <3>4. Shapes'
        BY <1>0, <2>1, <3>1, <3>2, CreateFacts, AnswersFacts DEF clientVars, Shapes, Becomes
      <3>5. OneMade'
        <4>1. /\ grant'[d] = "consumed" /\ created'[d] = 1
              /\ \A e \in Devices : e # d => created'[e] = created[e] /\ grant'[e] = grant[e] /\ row'[e] = row[e]
          BY <1>0, <2>1, <3>1, <3>2, CreateFacts DEF TokenTypes
        <4> QED
          BY <1>0, <4>1 DEF OneMade
      <3>5a. OpenClaims'
        <4>1. /\ \A e \in Devices : e # d => created'[e] = created[e] /\ grant'[e] = grant[e]
              /\ Becomes(r, "exchange", "answered", d, 1, "token", req[r].live)
          BY <1>0, <2>1, <3>1, <3>2, CreateFacts, AnswersFacts DEF TokenTypes
        <4>2. \A s \in Requests : At(s, "claim", "sent") => req[s].dev # d /\ req[s].dev \in Devices
          BY <1>0, <3>1 DEF OpenClaims, Shapes, At
        <4> QED
          BY <1>0, <4>1, <4>2 DEF OpenClaims, At, Becomes
      <3>6. NotMade'
        BY <1>0, <2>1, <3>1, <3>2, CreateFacts, AnswersFacts DEF clientVars, NotMade, Becomes
      <3> QED
        BY <3>3, <3>4, <3>5, <3>5a, <3>6 DEF MadeInv
    <2>3. CASE ~(CanConsume(d) /\ ok)
      <3>1. /\ Answers(r, "denied", NoToken) /\ UNCHANGED <<created, row, minted>>
            /\ grant' = grant \/ (grant[d] = "approved" /\ grant' = [grant EXCEPT ![d] = "consumed"])
        BY <1>5, <2>1, <2>3 DEF Consume, CanConsume, serverVars
      <3>2. Becomes(r, "exchange", "answered", d, NoToken, "denied", req[r].live)
        BY <1>0, <2>1, <3>1, AnswersFacts
      <3>3. TokenTypes'
        BY <1>0, <2>1, <3>1, <3>2 DEF clientVars, TokenTypes, Grants, Becomes
      <3>4. Shapes'
        BY <1>0, <2>1, <3>1, <3>2 DEF clientVars, Shapes, Becomes
      <3>5. OneMade'
        <4>1. \A e \in Devices : grant'[e] = grant[e] \/ (grant[e] = "approved" /\ grant'[e] = "consumed")
          BY <1>0, <2>1, <3>1 DEF TokenTypes
        <4> QED
          BY <1>0, <3>1, <4>1 DEF OneMade
      <3>5a. OpenClaims'
        <4>1. \A s \in Requests : At(s, "claim", "sent") =>
                req[s].dev \in Devices /\ grant'[req[s].dev] = "claimed"
          BY <1>0, <2>1, <3>1 DEF OpenClaims, Shapes, At, TokenTypes
        <4> QED
          BY <1>0, <3>1, <3>2, <4>1 DEF OpenClaims, At, Becomes
      <3>6. NotMade'
        BY <1>0, <2>1, <3>1, <3>2 DEF clientVars, NotMade, Becomes
      <3> QED
        BY <3>3, <3>4, <3>5, <3>5a, <3>6 DEF MadeInv
    <2> QED
      BY <2>2, <2>3
  <1>6. ASSUME NEW r \in Requests, ClaimServed(r) PROVE MadeInv'
    <2> DEFINE d == req[r].dev
    <2>1. /\ At(r, "claim", "sent") /\ d \in Devices /\ Create(r, d) /\ Answers(r, "token", 1)
          /\ UNCHANGED <<now, grant, clientVars>>
      BY <1>0, <1>6 DEF ClaimServed, Shapes, At, Create
    <2>2. created[d] = 0 /\ grant[d] = "claimed"
      BY <1>0, <2>1 DEF OpenClaims
    <2>3. TokenTypes'
      BY <1>0, <2>1, <2>2, CreateFacts, AnswersFacts DEF clientVars, TokenTypes, Becomes
    <2>4. Shapes'
      BY <1>0, <2>1, <2>2, CreateFacts, AnswersFacts DEF clientVars, Shapes, Becomes, At
    <2>5. OneMade'
      BY <1>0, <2>1, <2>2, CreateFacts, AnswersFacts DEF clientVars, OneMade, Becomes
    <2>5a. OpenClaims'
      <3>1. /\ \A e \in Devices : e # d => created'[e] = created[e]
            /\ Becomes(r, "claim", "answered", d, 1, "token", req[r].live)
        BY <1>0, <2>1, <2>2, CreateFacts, AnswersFacts DEF At
      <3>2. \A s \in Requests : At(s, "claim", "sent") /\ s # r => req[s].dev # d /\ req[s].dev \in Devices
        BY <1>0, <2>1 DEF OpenClaims, Shapes, At
      <3> QED
        BY <1>0, <2>1, <3>1, <3>2 DEF OpenClaims, At, Becomes
    <2>6. NotMade'
      BY <1>0, <2>1, <2>2, CreateFacts, AnswersFacts DEF clientVars, NotMade, Becomes
    <2> QED
      BY <2>3, <2>4, <2>5, <2>5a, <2>6 DEF MadeInv
  <1>7. ASSUME NEW r \in Requests, ReadDevice(r) PROVE MadeInv'
    <2>1. /\ req[r].pc = "sent" /\ req[r].kind = "refresh" /\ UNCHANGED <<now, serverVars, clientVars>>
          /\ (\E pc \in {"rotate", "restore", "revoke"} : Goes(r, pc)) \/ Answers(r, "denied", NoToken)
      BY <1>7 DEF ReadDevice, At
    <2>2. TokenTypes'
      BY <1>0, <2>1, GoesFacts, AnswersFacts DEF serverVars, clientVars, TokenTypes, Becomes
    <2>3. Shapes'
      BY <1>0, <2>1, GoesFacts, AnswersFacts DEF serverVars, clientVars, Shapes, Becomes
    <2>4. OneMade'
      BY <1>0, <2>1, GoesFacts, AnswersFacts DEF serverVars, clientVars, OneMade, Becomes
    <2>4a. OpenClaims'
      BY <1>0, <2>1, GoesFacts, AnswersFacts DEF serverVars, clientVars, OpenClaims, At, Becomes
    <2>5. NotMade'
      BY <1>0, <2>1, GoesFacts, AnswersFacts DEF serverVars, clientVars, NotMade, Becomes
    <2> QED
      BY <2>2, <2>3, <2>4, <2>4a, <2>5 DEF MadeInv
  <1>8. ASSUME NEW r \in Requests, Rotate(r) PROVE MadeInv'
    <2> DEFINE d == req[r].dev
    <2>1. /\ req[r].pc = "rotate" /\ req[r].kind = "refresh" /\ d \in Devices
          /\ UNCHANGED <<now, grant, created, clientVars>>
      BY <1>0, <1>8 DEF Rotate, At, Shapes
    <2>2. CASE CanRotate(d, req[r].tok)
      <3>1. /\ minted[d] + 1 \in Nat /\ minted' = [minted EXCEPT ![d] = minted[d] + 1]
            /\ row' = [row EXCEPT ![d].cur = minted[d] + 1, ![d].prev = req[r].tok, ![d].at = now]
            /\ Answers(r, "token", minted[d] + 1)
        BY <1>0, <1>8, <2>1, <2>2 DEF Rotate, TokenTypes
      <3>2. row' \in [Devices -> Rows] /\ \A e \in Devices : row'[e].state = row[e].state
        BY <1>0, <2>1, <3>1 DEF TokenTypes, Rows, Reqs
      <3>3. Becomes(r, "refresh", "answered", d, minted[d] + 1, "token", req[r].live)
        BY <1>0, <2>1, <3>1, <3>2, AnswersFacts
      <3>4. TokenTypes'
        BY <1>0, <2>1, <3>1, <3>2, <3>3 DEF clientVars, TokenTypes, Becomes
      <3>5. Shapes'
        BY <1>0, <2>1, <3>1, <3>2, <3>3 DEF clientVars, Shapes, Becomes
      <3>6. OneMade'
        BY <1>0, <2>1, <3>1, <3>2, <3>3 DEF clientVars, OneMade, Becomes
      <3>6a. OpenClaims'
        BY <1>0, <2>1, <3>1, <3>2, <3>3 DEF clientVars, OpenClaims, At, Becomes
      <3>7. NotMade'
        BY <1>0, <2>1, <3>1, <3>2, <3>3 DEF clientVars, NotMade, Becomes
      <3> QED
        BY <3>4, <3>5, <3>6, <3>6a, <3>7 DEF MadeInv
    <2>3. CASE ~CanRotate(d, req[r].tok)
      <3>1. Goes(r, "revoke") /\ UNCHANGED <<row, minted>>
        BY <1>8, <2>3 DEF Rotate
      <3>2. Becomes(r, "refresh", "revoke", d, req[r].tok, req[r].answer, req[r].live)
        BY <1>0, <2>1, <3>1, GoesFacts
      <3>3. TokenTypes'
        BY <1>0, <2>1, <3>1, <3>2 DEF clientVars, TokenTypes, Becomes
      <3>4. Shapes'
        BY <1>0, <2>1, <3>1, <3>2 DEF clientVars, Shapes, Becomes
      <3>5. OneMade'
        BY <1>0, <2>1, <3>1 DEF OneMade
      <3>5a. OpenClaims'
        BY <1>0, <2>1, <3>1, <3>2 DEF clientVars, OpenClaims, At, Becomes
      <3>6. NotMade'
        BY <1>0, <2>1, <3>1, <3>2 DEF clientVars, NotMade, Becomes
      <3> QED
        BY <3>3, <3>4, <3>5, <3>5a, <3>6 DEF MadeInv
    <2> QED
      BY <2>2, <2>3
  <1>9. ASSUME NEW r \in Requests, Restore(r) PROVE MadeInv'
    <2> DEFINE d == req[r].dev
    <2>1. /\ req[r].pc = "restore" /\ req[r].kind = "refresh" /\ d \in Devices /\ req[r].tok \in Nat
          /\ UNCHANGED <<now, grant, created, minted, clientVars>>
      BY <1>0, <1>9 DEF Restore, At, Shapes, TokenTypes, Reqs
    <2>2. CASE CanRestore(d, req[r].tok)
      <3>1. /\ row' = [row EXCEPT ![d].cur = req[r].tok, ![d].prev = NoToken, ![d].at = 0]
            /\ Answers(r, "token", req[r].tok)
        BY <1>9, <2>2 DEF Restore
      <3>2. row' \in [Devices -> Rows] /\ \A e \in Devices : row'[e].state = row[e].state
        BY <1>0, <2>1, <3>1 DEF TokenTypes, Rows
      <3>3. Becomes(r, "refresh", "answered", d, req[r].tok, "token", req[r].live)
        BY <1>0, <2>1, <3>1, <3>2, AnswersFacts
      <3>4. TokenTypes'
        BY <1>0, <2>1, <3>1, <3>2, <3>3 DEF clientVars, TokenTypes, Becomes
      <3>5. Shapes'
        BY <1>0, <2>1, <3>1, <3>2, <3>3 DEF clientVars, Shapes, Becomes
      <3>6. OneMade'
        BY <1>0, <2>1, <3>1, <3>2, <3>3 DEF clientVars, OneMade, Becomes
      <3>6a. OpenClaims'
        BY <1>0, <2>1, <3>1, <3>2, <3>3 DEF clientVars, OpenClaims, At, Becomes
      <3>7. NotMade'
        BY <1>0, <2>1, <3>1, <3>2, <3>3 DEF clientVars, NotMade, Becomes
      <3> QED
        BY <3>4, <3>5, <3>6, <3>6a, <3>7 DEF MadeInv
    <2>3. CASE ~CanRestore(d, req[r].tok)
      <3>1. Goes(r, "revoke") /\ UNCHANGED row
        BY <1>9, <2>3 DEF Restore
      <3>2. Becomes(r, "refresh", "revoke", d, req[r].tok, req[r].answer, req[r].live)
        BY <1>0, <2>1, <3>1, GoesFacts
      <3>3. TokenTypes'
        BY <1>0, <2>1, <3>1, <3>2 DEF clientVars, TokenTypes, Becomes
      <3>4. Shapes'
        BY <1>0, <2>1, <3>1, <3>2 DEF clientVars, Shapes, Becomes
      <3>5. OneMade'
        BY <1>0, <2>1, <3>1 DEF OneMade
      <3>5a. OpenClaims'
        BY <1>0, <2>1, <3>1, <3>2 DEF clientVars, OpenClaims, At, Becomes
      <3>6. NotMade'
        BY <1>0, <2>1, <3>1, <3>2 DEF clientVars, NotMade, Becomes
      <3> QED
        BY <3>3, <3>4, <3>5, <3>5a, <3>6 DEF MadeInv
    <2> QED
      BY <2>2, <2>3
  <1>10. ASSUME NEW r \in Requests, RevokeFamily(r) PROVE MadeInv'
    <2> DEFINE d == req[r].dev
    <2>1. /\ req[r].pc = "revoke" /\ req[r].kind = "refresh" /\ d \in Devices
          /\ row' = [row EXCEPT ![d].state = "revoked"] /\ Answers(r, "denied", NoToken)
          /\ UNCHANGED <<now, grant, created, minted, clientVars>>
      BY <1>0, <1>10 DEF RevokeFamily, At, Shapes
    <2>2. row' \in [Devices -> Rows] /\ \A e \in Devices : e # d => row'[e] = row[e]
      BY <1>0, <2>1 DEF TokenTypes, Rows
    <2>3. Becomes(r, "refresh", "answered", d, NoToken, "denied", req[r].live)
      BY <1>0, <2>1, <2>2, AnswersFacts
    <2>4. TokenTypes'
      BY <1>0, <2>1, <2>2, <2>3 DEF clientVars, TokenTypes, Becomes
    <2>5. Shapes'
      BY <1>0, <2>1, <2>2, <2>3 DEF clientVars, Shapes, Becomes
    <2>6. OneMade'
      BY <1>0, <2>1, <2>2, <2>3 DEF OneMade, NotMade
    <2>6a. OpenClaims'
      BY <1>0, <2>1, <2>2, <2>3 DEF clientVars, OpenClaims, At, Becomes
    <2>7. NotMade'
      BY <1>0, <2>1, <2>2, <2>3 DEF clientVars, NotMade, Becomes
    <2> QED
      BY <2>4, <2>5, <2>6, <2>6a, <2>7 DEF MadeInv
  <1>11. ASSUME NEW d \in Devices, RevokeDevice(d) PROVE MadeInv'
    <2>1. row[d].state = "active" /\ row' = [row EXCEPT ![d].state = "revoked"]
          /\ UNCHANGED <<now, grant, created, minted, req, clientVars>>
      BY <1>11 DEF RevokeDevice
    <2>2. row' \in [Devices -> Rows] /\ \A e \in Devices : e # d => row'[e] = row[e]
      BY <1>0, <2>1 DEF TokenTypes, Rows
    <2>3. TokenTypes'
      BY <1>0, <2>1, <2>2 DEF clientVars, TokenTypes
    <2>4. Shapes'
      BY <1>0, <2>1, <2>2 DEF clientVars, Shapes
    <2>5. OneMade'
      BY <1>0, <2>1, <2>2 DEF clientVars, OneMade
    <2>5a. OpenClaims'
      BY <1>0, <2>1, <2>2 DEF clientVars, OpenClaims, At
    <2>6. NotMade'
      BY <1>0, <2>1, <2>2 DEF clientVars, NotMade
    <2> QED
      BY <2>3, <2>4, <2>5, <2>5a, <2>6 DEF MadeInv
  <1>12. CASE StartRefresh
    <2>1. PICK r \in Requests, c \in {mem, stored} : Refresh(r, c)
      BY <1>12 DEF StartRefresh
    <2>2. /\ c.dev \in Devices /\ c.tok \in Nat /\ Send(r, "refresh", c.dev, c.tok) /\ mem' = c
          /\ UNCHANGED <<now, serverVars, pairing, stored>>
      BY <1>0, <2>1 DEF Refresh, Shapes, TokenTypes, Creds
    <2>3. Becomes(r, "refresh", "sent", c.dev, c.tok, "none", TRUE)
      BY <1>0, <2>1, <2>2, SendFacts
    <2>4. TokenTypes'
      BY <1>0, <2>1, <2>2, <2>3 DEF serverVars, TokenTypes, Becomes
    <2>5. Shapes'
      BY <1>0, <2>1, <2>2, <2>3 DEF serverVars, Shapes, Becomes
    <2>6. OneMade'
      BY <1>0, <2>1, <2>2, <2>3 DEF serverVars, OneMade, Becomes
    <2>6a. OpenClaims'
      BY <1>0, <2>1, <2>2, <2>3 DEF serverVars, OpenClaims, At, Becomes
    <2>7. NotMade'
      BY <1>0, <2>1, <2>2, <2>3 DEF serverVars, NotMade, Becomes
    <2> QED
      BY <2>4, <2>5, <2>6, <2>6a, <2>7 DEF MadeInv
  <1>13. CASE JoinRefresh
    BY <1>0, <1>13 DEF JoinRefresh, serverVars, MadeInv, TokenTypes, Shapes, OneMade, OpenClaims, NotMade, At
  <1>14. ASSUME NEW r \in Requests, Deliver(r) PROVE MadeInv'
    <2>1. req[r].live /\ req[r].pc = "answered" /\ UNCHANGED <<now, serverVars>>
          /\ req[r].dev \in Devices /\ req[r].tok \in Nat
      BY <1>0, <1>14 DEF Deliver, Shapes, TokenTypes, Reqs
    <2>2. CASE req[r].answer = "token"
      <3>1. stored' = [dev |-> req[r].dev, tok |-> req[r].tok] /\ Goes(r, "remember") /\ mem' = mem
        BY <1>14, <2>2 DEF Deliver
      <3>2. stored' \in Creds /\ stored'.dev = req[r].dev
        BY <2>1, <3>1 DEF Creds
      <3>3. Becomes(r, req[r].kind, "remember", req[r].dev, req[r].tok, "token", TRUE)
        BY <1>0, <2>1, <2>2, <3>1, <3>2, GoesFacts
      <3>4. TokenTypes'
        BY <1>0, <2>1, <2>2, <3>1, <3>2, <3>3 DEF serverVars, TokenTypes, Becomes
      <3>5. Shapes'
        BY <1>0, <2>1, <2>2, <3>1, <3>2, <3>3 DEF serverVars, Shapes, Becomes
      <3>6. OneMade'
        BY <1>0, <2>1, <2>2, <3>1, <3>2, <3>3 DEF serverVars, OneMade, Becomes
      <3>6a. OpenClaims'
        BY <1>0, <2>1, <2>2, <3>1, <3>2, <3>3 DEF serverVars, OpenClaims, At, Becomes
      <3>7. NotMade'
        BY <1>0, <2>1, <2>2, <3>1, <3>2, <3>3 DEF serverVars, NotMade, Becomes
      <3> QED
        BY <3>4, <3>5, <3>6, <3>6a, <3>7 DEF MadeInv
    <2>3. CASE req[r].answer # "token"
      <3>1. Done(r) /\ mem' \in {mem, NoCred} /\ stored' \in {stored, NoCred}
        BY <1>14, <2>3 DEF Deliver
      <3>2. NoCred \in Creds /\ NoCred.dev \notin Devices
        BY <1>0 DEF NoCred, Creds, NoToken, TokenTypes
      <3>3. Becomes(r, "none", "idle", None, 0, "none", FALSE)
        BY <1>0, <2>1, <3>1, <3>2, DoneFacts
      <3>4. TokenTypes'
        BY <1>0, <2>1, <3>1, <3>2, <3>3 DEF serverVars, TokenTypes, Becomes
      <3>5. Shapes'
        BY <1>0, <2>1, <3>1, <3>2, <3>3 DEF serverVars, Shapes, Becomes
      <3>6. OneMade'
        BY <1>0, <2>1, <3>1, <3>2, <3>3 DEF serverVars, OneMade, Becomes
      <3>6a. OpenClaims'
        BY <1>0, <2>1, <3>1, <3>2, <3>3 DEF serverVars, OpenClaims, At, Becomes
      <3>7. NotMade'
        BY <1>0, <2>1, <3>1, <3>2, <3>3 DEF serverVars, NotMade, Becomes
      <3> QED
        BY <3>4, <3>5, <3>6, <3>6a, <3>7 DEF MadeInv
    <2> QED
      BY <2>2, <2>3
  <1>15. ASSUME NEW r \in Requests, Remember(r) PROVE MadeInv'
    <2>1. /\ req[r].pc = "remember" /\ req[r].answer = "token" /\ Done(r) /\ UNCHANGED <<now, serverVars, stored>>
          /\ mem' = [dev |-> req[r].dev, tok |-> req[r].tok] /\ req[r].dev \in Devices /\ req[r].tok \in Nat
      BY <1>0, <1>15 DEF Remember, Shapes, TokenTypes, Reqs
    <2>2. mem' \in Creds /\ mem'.dev = req[r].dev
      BY <2>1 DEF Creds
    <2>3. Becomes(r, "none", "idle", None, 0, "none", FALSE)
      BY <1>0, <2>1, <2>2, DoneFacts
    <2>4. TokenTypes'
      BY <1>0, <2>1, <2>2, <2>3 DEF serverVars, TokenTypes, Becomes
    <2>5. Shapes'
      BY <1>0, <2>1, <2>2, <2>3 DEF serverVars, Shapes, Becomes
    <2>6. OneMade'
      BY <1>0, <2>1, <2>2, <2>3 DEF serverVars, OneMade, Becomes
    <2>6a. OpenClaims'
      BY <1>0, <2>1, <2>2, <2>3 DEF serverVars, OpenClaims, At, Becomes
    <2>7. NotMade'
      BY <1>0, <2>1, <2>2, <2>3 DEF serverVars, NotMade, Becomes
    <2> QED
      BY <2>4, <2>5, <2>6, <2>6a, <2>7 DEF MadeInv
  <1>16. ASSUME NEW r \in Requests, LoseConnection(r) PROVE MadeInv'
    <2>1. UNCHANGED <<now, serverVars, clientVars>>
      BY <1>16 DEF LoseConnection
    <2>2. Becomes(r, req[r].kind, req[r].pc, req[r].dev, req[r].tok, req[r].answer, FALSE) /\ req[r].pc # "remember"
      BY <1>0, <1>16, <2>1, LoseFacts DEF LoseConnection
    <2>3. TokenTypes'
      BY <1>0, <1>16, <2>1, <2>2 DEF serverVars, clientVars, TokenTypes, Becomes
    <2>4. Shapes'
      BY <1>0, <1>16, <2>1, <2>2 DEF serverVars, clientVars, Shapes, Becomes
    <2>5. OneMade'
      BY <1>0, <1>16, <2>1, <2>2 DEF serverVars, clientVars, OneMade, Becomes
    <2>5a. OpenClaims'
      BY <1>0, <1>16, <2>1, <2>2 DEF serverVars, clientVars, OpenClaims, At, Becomes
    <2>6. NotMade'
      BY <1>0, <1>16, <2>1, <2>2 DEF serverVars, clientVars, NotMade, Becomes
    <2> QED
      BY <2>3, <2>4, <2>5, <2>5a, <2>6 DEF MadeInv
  <1>17. ASSUME NEW r \in Requests, Vanish(r) PROVE MadeInv'
    <2>1. Done(r) /\ UNCHANGED <<now, serverVars, clientVars>>
      BY <1>17 DEF Vanish
    <2>2. Becomes(r, "none", "idle", None, 0, "none", FALSE)
      BY <1>0, <2>1, DoneFacts
    <2>3. TokenTypes'
      BY <1>0, <2>1, <2>2 DEF serverVars, clientVars, TokenTypes, Becomes
    <2>4. Shapes'
      BY <1>0, <2>1, <2>2 DEF serverVars, clientVars, Shapes, Becomes
    <2>5. OneMade'
      BY <1>0, <2>1, <2>2 DEF serverVars, clientVars, OneMade, Becomes
    <2>5a. OpenClaims'
      BY <1>0, <2>1, <2>2 DEF serverVars, clientVars, OpenClaims, At, Becomes
    <2>6. NotMade'
      BY <1>0, <2>1, <2>2 DEF serverVars, clientVars, NotMade, Becomes
    <2> QED
      BY <2>3, <2>4, <2>5, <2>5a, <2>6 DEF MadeInv
  <1>18. CASE WorkerKilled
    <2>1. mem' = NoCred /\ UNCHANGED <<now, serverVars, stored>>
      BY <1>18 DEF WorkerKilled
    <2>2. NoCred \in Creds /\ NoCred.dev \notin Devices
      BY <1>0 DEF NoCred, Creds, NoToken, TokenTypes
    <2>3. \A r \in Requests : \/ req'[r].pc = "idle" /\ req'[r].answer = "none" /\ req'[r].kind = "none"
                              \/ /\ req'[r].pc = req[r].pc /\ req'[r].kind = req[r].kind
                                 /\ req'[r].dev = req[r].dev /\ req'[r].answer = req[r].answer
                                 /\ req[r].pc # "remember"
      BY <1>0, <1>18, KilledFacts DEF NoRequest
    <2>4. TokenTypes'
      BY <1>0, <1>18, <2>1, <2>2, KilledFacts DEF serverVars, TokenTypes
    <2>5. TokenTypes'
      BY <1>0, <2>1, <2>2, <2>3, <2>4 DEF serverVars, TokenTypes
    <2>6. Shapes'
      BY <1>0, <2>1, <2>2, <2>3, <2>4 DEF serverVars, Shapes
    <2>7. OneMade'
      BY <1>0, <2>1, <2>2, <2>3, <2>4 DEF serverVars, OneMade
    <2>7a. OpenClaims'
      BY <1>0, <2>1, <2>2, <2>3, <2>4 DEF serverVars, OpenClaims, At
    <2>8. NotMade'
      BY <1>0, <2>1, <2>2, <2>3, <2>4 DEF serverVars, NotMade
    <2> QED
      BY <2>5, <2>6, <2>7, <2>7a, <2>8 DEF MadeInv
  <1>19. CASE Tick
    BY <1>0, <1>19 DEF Tick, serverVars, clientVars, MadeInv, TokenTypes, Shapes, OneMade, OpenClaims, NotMade, At
  <1>20. CASE UNCHANGED vars
    BY <1>0, <1>20 DEF vars, MadeInv, TokenTypes, Shapes, OneMade, OpenClaims, NotMade, At
  <1> QED
    BY <1>1, <1>2, <1>3, <1>4, <1>5, <1>6, <1>7, <1>8, <1>9, <1>10, <1>11, <1>12, <1>13, <1>14, <1>15, <1>16,
       <1>17, <1>18, <1>19, <1>20
    DEF Next, PairingStep, Serve, ClientStep

\* A grant or a claim makes one device, however many exchanges of it race.
THEOREM OneDevicePerGrant == TokenAssumption /\ Spec => []GrantUsedOnce
  <1>1. MadeInv => GrantUsedOnce
    BY DEF MadeInv, OneMade, GrantUsedOnce
  <1> QED
    BY <1>1, MadeInit, MadeStep, PTL DEF Spec

\* A request leaves every revoked device revoked and no request newly answered with
\* a credential of one.
KeepsRevoked ==
  \A d \in Devices : row[d].state = "revoked" =>
    /\ row'[d].state = "revoked"
    /\ \A r \in Requests : req'[r].dev = d /\ req'[r].answer = "token" => req[r].answer = "token"

\* It is enough that a step changes the rows only of devices not revoked, or to
\* revoked, and answers only about such devices.
LEMMA KeepsRevokedBy ==
  ASSUME NEW r \in Requests, NEW kind, NEW pc, NEW dev, NEW tok, NEW answer, NEW live,
         Becomes(r, kind, pc, dev, tok, answer, live),
         answer # "token" \/ answer = req[r].answer \/ (dev \in Devices /\ row[dev].state # "revoked"),
         \A d \in Devices : row[d].state = "revoked" => row'[d].state = "revoked"
  PROVE  KeepsRevoked
  BY DEF KeepsRevoked, Becomes

\* A step keeps a revoked device revoked and mints no token for it.
LEMMA RevokedStep == MadeInv /\ [Next]_vars => KeepsRevoked
  <1> SUFFICES ASSUME MadeInv, [Next]_vars PROVE KeepsRevoked
    OBVIOUS
  <1>0. TokenTypes /\ Shapes /\ OneMade /\ OpenClaims /\ NoToken \in Nat
    BY DEF MadeInv, NoToken
  <1>1. ASSUME UNCHANGED <<req, row>> PROVE KeepsRevoked
    BY <1>1 DEF KeepsRevoked
  <1>2. CASE \/ \E d \in Devices : StartPairing(d) \/ ExpireGrant(d) \/ (\E a \in BOOLEAN : Decide(d, a))
             \/ JoinRefresh \/ Tick \/ UNCHANGED vars
    BY <1>1, <1>2 DEF StartPairing, ExpireGrant, Decide, JoinRefresh, Tick, serverVars, vars
  <1>3. ASSUME NEW r \in Requests, NEW d \in Devices, Poll(r, d) \/ Claim(r, d) PROVE KeepsRevoked
    <2>1. /\ Send(r, "exchange", d, NoToken) \/ Send(r, "claim", d, NoToken)
          /\ row' = row
      BY <1>3 DEF Poll, Claim, serverVars
    <2>2. PICK k \in {"exchange", "claim"} : Becomes(r, k, "sent", d, NoToken, "none", TRUE)
      BY <1>0, <2>1, SendFacts
    <2> QED
      BY <2>1, <2>2, KeepsRevokedBy
  <1>4. ASSUME NEW r \in Requests, Exchange(r) \/ ReadDevice(r) PROVE KeepsRevoked
    <2>1. /\ row' = row
          /\ \/ \E pc \in {"consume", "rotate", "restore", "revoke"} : Goes(r, pc)
             \/ \E a \in {"pending", "denied"} : Answers(r, a, NoToken)
      BY <1>4 DEF Exchange, ReadDevice, serverVars
    <2>2. CASE \E pc \in {"consume", "rotate", "restore", "revoke"} : Goes(r, pc)
      BY <1>0, <2>1, <2>2, GoesFacts, KeepsRevokedBy
    <2>3. CASE \E a \in {"pending", "denied"} : Answers(r, a, NoToken)
      <3>1. PICK a \in {"pending", "denied"} :
              Becomes(r, req[r].kind, "answered", req[r].dev, NoToken, a, req[r].live)
        BY <1>0, <2>3, AnswersFacts
      <3> QED
        BY <2>1, <3>1, KeepsRevokedBy
    <2> QED
      BY <2>1, <2>2, <2>3
  <1>5. ASSUME NEW r \in Requests, NEW d \in Devices, Create(r, d), created[d] = 0, req[r].dev = d
        PROVE  KeepsRevoked
    <2>1. row[d].state = "none" /\ \A e \in Devices : e # d => row'[e] = row[e]
      BY <1>0, <1>5, CreateFacts DEF OneMade
    <2>2. Becomes(r, req[r].kind, "answered", d, 1, "token", req[r].live)
      BY <1>0, <1>5, AnswersFacts DEF Create
    <2> QED
      BY <2>1, <2>2, KeepsRevokedBy
  <1>6. ASSUME NEW r \in Requests, NEW ok \in BOOLEAN, Consume(r, ok) PROVE KeepsRevoked
    <2> DEFINE d == req[r].dev
    <2>1. d \in Devices /\ req[r].pc = "consume"
      BY <1>0, <1>6 DEF Consume, At, Shapes
    <2>2. CASE CanConsume(d) /\ ok
      <3>1. Create(r, d) /\ grant[d] = "approved"
        BY <1>6, <2>2 DEF Consume, CanConsume
      <3>2. created[d] = 0
        BY <1>0, <2>1, <3>1 DEF OneMade
      <3> QED
        BY <1>5, <2>1, <3>1, <3>2
    <2>3. CASE ~(CanConsume(d) /\ ok)
      <3>1. Answers(r, "denied", NoToken) /\ row' = row
        BY <1>6, <2>3 DEF Consume, serverVars
      <3>2. Becomes(r, req[r].kind, "answered", d, NoToken, "denied", req[r].live)
        BY <1>0, <3>1, AnswersFacts
      <3> QED
        BY <3>1, <3>2, KeepsRevokedBy
    <2> QED
      BY <2>2, <2>3
  <1>7. ASSUME NEW r \in Requests, ClaimServed(r) PROVE KeepsRevoked
    <2>1. At(r, "claim", "sent") /\ Create(r, req[r].dev)
      BY <1>7 DEF ClaimServed
    <2>2. req[r].dev \in Devices /\ created[req[r].dev] = 0
      BY <1>0, <2>1 DEF OpenClaims, Shapes, At
    <2> QED
      BY <1>5, <2>1, <2>2
  <1>8. ASSUME NEW r \in Requests, Rotate(r) PROVE KeepsRevoked
    <2> DEFINE d == req[r].dev
    <2>1. d \in Devices
      BY <1>0, <1>8 DEF Rotate, At, Shapes
    <2>2. CASE CanRotate(d, req[r].tok)
      <3>1. /\ row[d].state = "active" /\ minted[d] + 1 \in Nat /\ Answers(r, "token", minted[d] + 1)
            /\ row' = [row EXCEPT ![d].cur = minted[d] + 1, ![d].prev = req[r].tok, ![d].at = now]
        BY <1>0, <1>8, <2>1, <2>2 DEF Rotate, CanRotate, TokenTypes
      <3>2. Becomes(r, req[r].kind, "answered", d, minted[d] + 1, "token", req[r].live)
        BY <1>0, <3>1, AnswersFacts
      <3>3. \A e \in Devices : row[e].state = "revoked" => row'[e].state = "revoked"
        BY <1>0, <3>1 DEF TokenTypes
      <3> QED
        BY <2>1, <3>1, <3>2, <3>3, KeepsRevokedBy
    <2>3. CASE ~CanRotate(d, req[r].tok)
      <3>1. Goes(r, "revoke") /\ row' = row
        BY <1>8, <2>3 DEF Rotate
      <3> QED
        BY <1>0, <3>1, GoesFacts, KeepsRevokedBy
    <2> QED
      BY <2>2, <2>3
  <1>9. ASSUME NEW r \in Requests, Restore(r) PROVE KeepsRevoked
    <2> DEFINE d == req[r].dev
    <2>1. d \in Devices /\ req[r].tok \in Nat
      BY <1>0, <1>9 DEF Restore, At, Shapes, TokenTypes, Reqs
    <2>2. CASE CanRestore(d, req[r].tok)
      <3>1. /\ row[d].state = "active" /\ Answers(r, "token", req[r].tok)
            /\ row' = [row EXCEPT ![d].cur = req[r].tok, ![d].prev = NoToken, ![d].at = 0]
        BY <1>9, <2>2 DEF Restore, CanRestore
      <3>2. Becomes(r, req[r].kind, "answered", d, req[r].tok, "token", req[r].live)
        BY <1>0, <2>1, <3>1, AnswersFacts
      <3>3. \A e \in Devices : row[e].state = "revoked" => row'[e].state = "revoked"
        BY <1>0, <3>1 DEF TokenTypes
      <3> QED
        BY <2>1, <3>1, <3>2, <3>3, KeepsRevokedBy
    <2>3. CASE ~CanRestore(d, req[r].tok)
      <3>1. Goes(r, "revoke") /\ row' = row
        BY <1>9, <2>3 DEF Restore
      <3> QED
        BY <1>0, <3>1, GoesFacts, KeepsRevokedBy
    <2> QED
      BY <2>2, <2>3
  <1>10. ASSUME NEW r \in Requests, RevokeFamily(r) PROVE KeepsRevoked
    <2>1. row' = [row EXCEPT ![req[r].dev].state = "revoked"] /\ Answers(r, "denied", NoToken)
      BY <1>10 DEF RevokeFamily
    <2>2. \A e \in Devices : row[e].state = "revoked" => row'[e].state = "revoked"
      BY <1>0, <2>1 DEF TokenTypes, Rows
    <2>3. Becomes(r, req[r].kind, "answered", req[r].dev, NoToken, "denied", req[r].live)
      BY <1>0, <2>1, AnswersFacts
    <2> QED
      BY <2>2, <2>3, KeepsRevokedBy
  <1>11. ASSUME NEW d \in Devices, RevokeDevice(d) PROVE KeepsRevoked
    BY <1>0, <1>11 DEF RevokeDevice, TokenTypes, Rows, KeepsRevoked
  <1>12. CASE StartRefresh
    <2>1. PICK r \in Requests, c \in {mem, stored} : Refresh(r, c)
      BY <1>12 DEF StartRefresh
    <2>2. c.dev \in Devices /\ c.tok \in Nat /\ Send(r, "refresh", c.dev, c.tok) /\ row' = row
      BY <1>0, <2>1 DEF Refresh, Shapes, TokenTypes, Creds, serverVars
    <2>3. Becomes(r, "refresh", "sent", c.dev, c.tok, "none", TRUE)
      BY <1>0, <2>2, SendFacts
    <2> QED
      BY <2>2, <2>3, KeepsRevokedBy
  <1>13. ASSUME NEW r \in Requests, Deliver(r) \/ Remember(r) \/ Vanish(r) PROVE KeepsRevoked
    <2>1. row' = row /\ (Done(r) \/ Goes(r, "remember"))
      BY <1>13 DEF Deliver, Remember, Vanish, serverVars
    <2>2. CASE Done(r)
      BY <1>0, <2>1, <2>2, DoneFacts, KeepsRevokedBy
    <2>3. CASE Goes(r, "remember")
      BY <1>0, <2>1, <2>3, GoesFacts, KeepsRevokedBy
    <2> QED
      BY <2>1, <2>2, <2>3
  <1>14. ASSUME NEW r \in Requests, LoseConnection(r) PROVE KeepsRevoked
    <2>1. row' = row
      BY <1>14 DEF LoseConnection, serverVars
    <2> QED
      BY <1>0, <1>14, <2>1, LoseFacts, KeepsRevokedBy
  <1>15. CASE WorkerKilled
    <2>1. row' = row /\ \A r \in Requests : req'[r].answer \in {req[r].answer, "none"}
      <3>1. row' = row
        BY <1>15 DEF WorkerKilled, serverVars
      <3> QED
        BY <1>0, <1>15, <3>1, KilledFacts DEF NoRequest
    <2> QED
      BY <2>1 DEF KeepsRevoked
  <1> QED
    BY <1>2, <1>3, <1>4, <1>6, <1>7, <1>8, <1>9, <1>10, <1>11, <1>12, <1>13, <1>14, <1>15
    DEF Next, PairingStep, Serve, ClientStep

\* A revoked device stays revoked, and a request that had read its row before the
\* revocation is not answered with a credential after it.
THEOREM RevokedDeviceGetsNothing == TokenAssumption /\ Spec => RevokedGetsNothing
  <1>1. MadeInv /\ [Next]_vars =>
          [\A d \in Devices : row[d].state = "revoked" =>
             /\ row'[d].state = "revoked"
             /\ \A r \in Requests : req'[r].dev = d /\ req'[r].answer = "token" => req[r].answer = "token"]_vars
    BY RevokedStep DEF KeepsRevoked
  <1> QED
    BY <1>1, MadeInit, MadeStep, PTL DEF Spec, RevokedGetsNothing

-----------------------------------------------------------------------------
(* Replay detection *)

\* A refresh that the server has not finished, a token on its way into the client, a
\* refresh the client waits for, and a device that had no overlap and was not late.
Serving(r, d) ==
  req[r].kind = "refresh" /\ req[r].dev = d /\ req[r].pc \in {"sent", "rotate", "restore", "revoke"}
Bearer(r, d) ==
  req[r].live /\ req[r].dev = d /\ req[r].answer = "token" /\ req[r].pc \in {"answered", "remember"}
LiveRefresh(r) == req[r].kind = "refresh" /\ req[r].live
Sound(d) == d \notin overlapped \cup late

OneLive == \A r, s \in Requests : LiveRefresh(r) /\ LiveRefresh(s) => r = s

\* Without an overlap, the refresh at the server is the only one the client can mean.
OneServed ==
  \A d \in Devices \ overlapped : \A r, s \in Requests :
    Serving(r, d) /\ req[s].dev = d /\ (LiveRefresh(s) \/ Serving(s, d)) => r = s

\* A device's first token comes before the client knows anything else of the device.
FirstBearer ==
  \A d \in Devices, r \in Requests : Bearer(r, d) /\ req[r].kind # "refresh" =>
    /\ mem.dev # d /\ (req[r].pc = "answered" => stored.dev # d)
    /\ \A s \in Requests : req[s].kind = "refresh" => req[s].dev # d
    /\ \A s \in Requests : Bearer(s, d) => s = r

StoredBearer ==
  \A d \in Devices, r \in Requests :
    Bearer(r, d) /\ req[r].pc = "remember" /\ stored.dev = d => stored.tok = req[r].tok

\* What the client has of a device is the row's credential or the one before; the
\* refresh at the server shows what the client has, and took the branch that fits;
\* and memory and storage differ only while a new token is being stored.
HeldMatch(d) == \A c \in {mem, stored} : c.dev = d => c.tok \in {row[d].cur, row[d].prev}
ServedMatch(d) ==
  \A r \in Requests : Serving(r, d) =>
    /\ \A c \in {mem, stored} : c.dev = d => c.tok = req[r].tok
    /\ req[r].pc = "sent" => req[r].tok \in {row[d].cur, row[d].prev}
    /\ req[r].pc = "rotate" => req[r].tok = row[d].cur
    /\ req[r].pc = "restore" => req[r].tok = row[d].prev
    /\ req[r].pc # "revoke"
BearerMatch(d) == \A r \in Requests : Bearer(r, d) => req[r].tok = row[d].cur
MemMatch(d) ==
  mem.dev = d /\ stored.dev = d =>
    mem.tok = stored.tok \/ \E r \in Requests : Bearer(r, d) /\ LiveRefresh(r) /\ req[r].pc = "remember"

Matched(d) == HeldMatch(d) /\ ServedMatch(d) /\ BearerMatch(d) /\ MemMatch(d)
InMatch == \A d \in Devices : Sound(d) /\ row[d].state = "active" => Matched(d)
Forgiven == replayed \subseteq overlapped \cup late

ForgiveInv == OneLive /\ OneServed /\ FirstBearer /\ StoredBearer /\ InMatch /\ Forgiven

-----------------------------------------------------------------------------
\* A step that only lets requests, credentials and rows go.
Faded(r) ==
  \/ req'[r].kind # "refresh" /\ req'[r].answer # "token"
  \/ /\ req'[r].kind = req[r].kind /\ req'[r].dev = req[r].dev /\ (req'[r].live => req[r].live)
     /\ \/ req'[r].pc = req[r].pc /\ req'[r].tok = req[r].tok /\ req'[r].answer = req[r].answer
        \/ req'[r].pc = "answered" /\ req'[r].answer # "token"

\* A step that only ends requests or forgets credentials loses no promise.
LEMMA FadeStep ==
  ASSUME ForgiveInv, \A r \in Requests : Faded(r),
         mem' = mem \/ mem'.dev \notin Devices, stored' = stored \/ stored'.dev \notin Devices,
         mem'.dev \notin Devices \/ \A r \in Requests : req[r].pc = "remember" => req'[r] = req[r],
         \A d \in Devices : row'[d].state = "active" => row'[d] = row[d],
         overlapped \subseteq overlapped', late \subseteq late', replayed' \subseteq replayed \cup overlapped \cup late
  PROVE  ForgiveInv'
  <1>0. OneLive /\ OneServed /\ FirstBearer /\ StoredBearer /\ InMatch /\ Forgiven
    BY DEF ForgiveInv
  <1>1. \A r \in Requests, d \in Devices : Serving(r, d)' =>
          Serving(r, d) /\ req'[r].pc = req[r].pc /\ req'[r].tok = req[r].tok
    BY DEF Faded, Serving
  <1>2. \A r \in Requests, d \in Devices : Bearer(r, d)' =>
          Bearer(r, d) /\ req'[r].pc = req[r].pc /\ req'[r].tok = req[r].tok /\ req'[r].kind = req[r].kind
    BY DEF Faded, Bearer
  <1>3. \A r \in Requests : LiveRefresh(r)' => LiveRefresh(r) /\ req'[r].dev = req[r].dev
    BY DEF Faded, LiveRefresh
  <1>4. \A r \in Requests : req'[r].kind = "refresh" => req[r].kind = "refresh" /\ req'[r].dev = req[r].dev
    BY DEF Faded
  <1>5. OneLive'
    BY <1>0, <1>3 DEF OneLive
  <1>6. OneServed'
    <2>1. \A r \in Requests, d \in Devices : Serving(r, d)' => req'[r].dev = d /\ req[r].dev = d
      BY <1>1 DEF Serving
    <2> QED
      BY <1>0, <1>1, <1>3, <2>1 DEF OneServed
  <1>7. FirstBearer'
    BY <1>0, <1>2, <1>4 DEF FirstBearer
  <1>8. StoredBearer'
    BY <1>0, <1>2 DEF StoredBearer
  <1>9. ASSUME NEW d \in Devices, Sound(d)', row'[d].state = "active" PROVE Matched(d)'
    <2>1. row'[d] = row[d] /\ Matched(d)
      BY <1>0, <1>9 DEF InMatch, Sound
    <2>2. HeldMatch(d)'
      BY <2>1 DEF Matched, HeldMatch
    <2>3. ServedMatch(d)'
      BY <1>1, <2>1 DEF Matched, ServedMatch
    <2>4. BearerMatch(d)'
      BY <1>2, <2>1 DEF Matched, BearerMatch
    <2>5. MemMatch(d)'
      BY <2>1 DEF Matched, MemMatch, Bearer, LiveRefresh
    <2> QED
      BY <2>2, <2>3, <2>4, <2>5 DEF Matched
  <1>10. InMatch' /\ Forgiven'
    BY <1>0, <1>9 DEF InMatch, Forgiven
  <1> QED
    BY <1>5, <1>6, <1>7, <1>8, <1>10 DEF ForgiveInv

\* The server goes on with a refresh, on the branch that fits the row.
LEMMA MoveStep ==
  ASSUME ForgiveInv, NEW r \in Requests, NEW d \in Devices, NEW pc \in {"rotate", "restore", "revoke"},
         Serving(r, d), Becomes(r, "refresh", pc, d, req[r].tok, req[r].answer, req[r].live),
         d \notin overlapped' \cup late' /\ row[d].state = "active" =>
           (pc = "rotate" /\ req[r].tok = row[d].cur) \/ (pc = "restore" /\ req[r].tok = row[d].prev),
         UNCHANGED <<row, mem, stored, overlapped, replayed>>, late \subseteq late'
  PROVE  ForgiveInv'
  <1>0. OneLive /\ OneServed /\ FirstBearer /\ StoredBearer /\ InMatch /\ Forgiven
    BY DEF ForgiveInv
  <1>1. /\ \A s \in Requests, e \in Devices : Serving(s, e)' <=> Serving(s, e)
        /\ \A s \in Requests, e \in Devices : Bearer(s, e)' => Bearer(s, e) /\ s # r
        /\ \A s \in Requests, e \in Devices : Bearer(s, e) => s # r
        /\ \A s \in Requests : LiveRefresh(s)' <=> LiveRefresh(s)
    BY DEF Becomes, Serving, Bearer, LiveRefresh
  <1>2. \A s \in Requests : s # r => req'[s] = req[s]
    BY DEF Becomes
  <1>3. req'[r].kind = req[r].kind /\ req'[r].dev = req[r].dev /\ req'[r].tok = req[r].tok /\ req'[r].pc = pc
    BY DEF Becomes, Serving
  <1>4. OneLive' /\ OneServed'
    BY <1>0, <1>1, <1>2, <1>3 DEF OneLive, OneServed
  <1>5. FirstBearer' /\ StoredBearer'
    BY <1>0, <1>1, <1>2, <1>3 DEF FirstBearer, StoredBearer
  <1>6. ASSUME NEW e \in Devices, Sound(e)', row'[e].state = "active" PROVE Matched(e)'
    <2>1. Matched(e)
      BY <1>0, <1>6 DEF InMatch, Sound
    <2>2. HeldMatch(e)'
      BY <2>1 DEF Matched, HeldMatch
    <2>3. ServedMatch(e)'
      <3> SUFFICES ASSUME NEW s \in Requests, Serving(s, e)'
                   PROVE  /\ \A c \in {mem, stored} : c.dev = e => c.tok = req'[s].tok
                          /\ req'[s].pc = "sent" => req'[s].tok \in {row[e].cur, row[e].prev}
                          /\ req'[s].pc = "rotate" => req'[s].tok = row[e].cur
                          /\ req'[s].pc = "restore" => req'[s].tok = row[e].prev
                          /\ req'[s].pc # "revoke"
        BY DEF ServedMatch
      <3>1. CASE s = r
        <4>1. e = d
          BY <1>1, <3>1 DEF Serving
        <4> QED
          BY <1>1, <1>3, <1>6, <2>1, <3>1, <4>1 DEF Sound, Matched, ServedMatch
      <3>2. CASE s # r
        BY <1>1, <1>2, <2>1, <3>2 DEF Matched, ServedMatch
      <3> QED
        BY <3>1, <3>2
    <2>4. BearerMatch(e)'
      BY <1>1, <1>2, <2>1 DEF Matched, BearerMatch
    <2>5. MemMatch(e)'
      <3>1. \A s \in Requests : Bearer(s, e) => Bearer(s, e)'
        BY <1>1, <1>2 DEF Bearer
      <3> QED
        BY <1>1, <1>2, <2>1, <3>1 DEF Matched, MemMatch
    <2> QED
      BY <2>2, <2>3, <2>4, <2>5 DEF Matched
  <1>7. InMatch' /\ Forgiven'
    BY <1>0, <1>6 DEF InMatch, Forgiven
  <1> QED
    BY <1>4, <1>5, <1>7 DEF ForgiveInv

\* A refresh is answered: the row has the new token, and the one shown, if it differs,
\* is the one before.
LEMMA IssueStep ==
  ASSUME ForgiveInv, NEW r \in Requests, NEW d \in Devices, NEW t \in Nat,
         Serving(r, d), Becomes(r, "refresh", "answered", d, t, "token", req[r].live),
         row[d].state = "active", row'[d].cur = t, req[r].tok \in {row'[d].cur, row'[d].prev},
         \A e \in Devices : e # d => row'[e] = row[e],
         UNCHANGED <<mem, stored, overlapped, late, replayed>>
  PROVE  ForgiveInv'
  <1>0. OneLive /\ OneServed /\ FirstBearer /\ StoredBearer /\ InMatch /\ Forgiven
    BY DEF ForgiveInv
  <1>1. \A s \in Requests : s # r => req'[s] = req[s]
    BY DEF Becomes
  <1>2. /\ req'[r].kind = req[r].kind /\ req'[r].dev = req[r].dev /\ req'[r].pc = "answered"
        /\ req'[r].tok = t /\ req[r].kind = "refresh" /\ req[r].dev = d
    BY DEF Becomes, Serving
  <1>3. /\ \A s \in Requests, e \in Devices : Serving(s, e)' => Serving(s, e) /\ s # r
        /\ \A s \in Requests, e \in Devices : Bearer(s, e)' => (s = r /\ e = d) \/ (s # r /\ Bearer(s, e))
        /\ \A s \in Requests, e \in Devices : Bearer(s, e) => s # r /\ Bearer(s, e)'
        /\ \A s \in Requests : LiveRefresh(s)' <=> LiveRefresh(s)
    <2>1. /\ \A s \in Requests, e \in Devices : Serving(s, e)' => Serving(s, e) /\ s # r
          /\ \A s \in Requests : LiveRefresh(s)' <=> LiveRefresh(s)
      BY DEF Becomes, Serving, LiveRefresh
    <2>2. \A e \in Devices : ~Bearer(r, e) /\ (Bearer(r, e)' => e = d)
      BY <1>2 DEF Serving, Bearer
    <2>3. \A s \in Requests, e \in Devices : s # r => (Bearer(s, e)' <=> Bearer(s, e))
      BY <1>1 DEF Bearer
    <2> QED
      BY <2>1, <2>2, <2>3
  <1>4. OneLive' /\ OneServed'
    BY <1>0, <1>1, <1>2, <1>3 DEF OneLive, OneServed
  <1>5. FirstBearer' /\ StoredBearer'
    BY <1>0, <1>1, <1>2, <1>3 DEF FirstBearer, StoredBearer
  <1>6. ASSUME NEW e \in Devices, Sound(e)', row'[e].state = "active" PROVE Matched(e)'
    <2>1. Matched(e) /\ e \notin overlapped
      BY <1>0, <1>6 DEF InMatch, Sound
    <2>2. CASE e # d
      <3>1. HeldMatch(e)'
        BY <2>1, <2>2 DEF Matched, HeldMatch
      <3>2. ServedMatch(e)'
        BY <1>1, <1>3, <2>1, <2>2 DEF Matched, ServedMatch
      <3>3. BearerMatch(e)'
        BY <1>1, <1>3, <2>1, <2>2 DEF Matched, BearerMatch
      <3>4. MemMatch(e)'
        BY <1>1, <1>3, <2>1 DEF Matched, MemMatch
      <3> QED
        BY <3>1, <3>2, <3>3, <3>4 DEF Matched
    <2>3. CASE e = d
      <3>1. \A s \in Requests : ~Serving(s, d)'
        BY <1>0, <1>3, <2>1, <2>3 DEF OneServed, Serving
      <3>2. \A s \in Requests : Bearer(s, d)' => s = r
        <4> SUFFICES ASSUME NEW s \in Requests, Bearer(s, d), s # r PROVE FALSE
          BY <1>3
        <4>1. req[s].kind = "refresh"
          BY <1>0, <1>2 DEF FirstBearer
        <4>2. LiveRefresh(s) /\ req[s].dev = d
          BY <4>1 DEF LiveRefresh, Bearer
        <4> QED
          BY <1>0, <2>1, <2>3, <4>2 DEF OneServed
      <3>3. \A c \in {mem, stored} : c.dev = d => c.tok = req[r].tok
        BY <2>1, <2>3 DEF Matched, ServedMatch
      <3>4. HeldMatch(d)' /\ MemMatch(d)'
        BY <3>3 DEF HeldMatch, MemMatch
      <3>5. ServedMatch(d)'
        BY <3>1 DEF ServedMatch
      <3>6. BearerMatch(d)'
        BY <1>2, <3>2 DEF BearerMatch
      <3> QED
        BY <2>3, <3>4, <3>5, <3>6 DEF Matched
    <2> QED
      BY <2>2, <2>3
  <1>7. InMatch' /\ Forgiven'
    BY <1>0, <1>6 DEF InMatch, Forgiven
  <1> QED
    BY <1>4, <1>5, <1>7 DEF ForgiveInv

\* A device is made, and its first token is on its way.
LEMMA FirstTokenStep ==
  ASSUME ForgiveInv, NotMade, NEW r \in Requests, NEW d \in Devices, req[r].kind # "refresh",
         created[d] = 0, req[r].dev = d,
         Becomes(r, req[r].kind, "answered", d, 1, "token", req[r].live),
         row'[d].cur = 1, \A e \in Devices : e # d => row'[e] = row[e],
         UNCHANGED <<mem, stored, overlapped, late, replayed>>
  PROVE  ForgiveInv'
  <1>0. OneLive /\ OneServed /\ FirstBearer /\ StoredBearer /\ InMatch /\ Forgiven
    BY DEF ForgiveInv
  <1>1. /\ \A s \in Requests : s # r => req'[s] = req[s]
        /\ req'[r].kind = req[r].kind /\ req'[r].dev = d /\ req'[r].pc = "answered" /\ req'[r].tok = 1
    BY DEF Becomes
  <1>2. /\ mem.dev # d /\ stored.dev # d
        /\ \A s \in Requests : req[s].dev = d => req[s].kind # "refresh" /\ req[s].answer # "token"
    BY DEF NotMade
  <1>3. /\ \A s \in Requests, e \in Devices : Serving(s, e)' => Serving(s, e) /\ s # r /\ e # d
        /\ \A s \in Requests : LiveRefresh(s)' => LiveRefresh(s) /\ s # r
    BY <1>1, <1>2 DEF Serving, LiveRefresh
  <1>4. /\ \A s \in Requests, e \in Devices : Bearer(s, e)' => (s = r <=> e = d)
        /\ \A s \in Requests, e \in Devices : s # r => (Bearer(s, e)' <=> Bearer(s, e))
        /\ \A e \in Devices : ~Bearer(r, e)
    <2>1. \A e \in Devices : ~Bearer(r, e) /\ (Bearer(r, e)' => e = d)
      BY <1>1, <1>2 DEF Bearer
    <2>2. \A s \in Requests, e \in Devices : s # r => (Bearer(s, e)' <=> Bearer(s, e))
      BY <1>1 DEF Bearer
    <2>3. \A s \in Requests : ~Bearer(s, d)
      BY <1>2 DEF Bearer
    <2> QED
      BY <2>1, <2>2, <2>3
  <1>5. OneLive' /\ OneServed'
    BY <1>0, <1>1, <1>3 DEF OneLive, OneServed
  <1>6. FirstBearer' /\ StoredBearer'
    BY <1>0, <1>1, <1>2, <1>4 DEF FirstBearer, StoredBearer
  <1>7. ASSUME NEW e \in Devices, Sound(e)', row'[e].state = "active" PROVE Matched(e)'
    <2>2. CASE e # d
      <3>0. Matched(e) /\ row'[e] = row[e]
        BY <1>0, <1>7, <2>2 DEF InMatch, Sound
      <3>1. HeldMatch(e)'
        BY <3>0 DEF Matched, HeldMatch
      <3>2. ServedMatch(e)'
        BY <1>1, <1>3, <3>0 DEF Matched, ServedMatch
      <3>3. BearerMatch(e)'
        BY <1>1, <1>4, <2>2, <3>0 DEF Matched, BearerMatch
      <3>4. MemMatch(e)'
        <4>1. \A s \in Requests : Bearer(s, e) /\ LiveRefresh(s) =>
                s # r /\ Bearer(s, e)' /\ LiveRefresh(s)' /\ req'[s] = req[s]
          BY <1>1, <1>4 DEF LiveRefresh
        <4> QED
          BY <3>0, <4>1 DEF Matched, MemMatch
      <3> QED
        BY <3>1, <3>2, <3>3, <3>4 DEF Matched
    <2>3. CASE e = d
      <3>1. HeldMatch(d)' /\ MemMatch(d)'
        BY <1>2 DEF HeldMatch, MemMatch
      <3>2. ServedMatch(d)'
        BY <1>3 DEF ServedMatch
      <3>3. BearerMatch(d)'
        BY <1>1, <1>4 DEF BearerMatch
      <3> QED
        BY <2>3, <3>1, <3>2, <3>3 DEF Matched
    <2> QED
      BY <2>2, <2>3
  <1>8. InMatch' /\ Forgiven'
    BY <1>0, <1>7 DEF InMatch, Forgiven
  <1> QED
    BY <1>5, <1>6, <1>8 DEF ForgiveInv

\* A refresh is started with what the client has.
LEMMA RefreshStep ==
  ASSUME MadeInv, ForgiveInv, NEW r \in Requests, NEW cred \in {mem, stored}, Refresh(r, cred)
  PROVE  ForgiveInv'
  <1> DEFINE d == cred.dev
  <1>0. OneLive /\ OneServed /\ FirstBearer /\ StoredBearer /\ InMatch /\ Forgiven
    BY DEF ForgiveInv
  <1>1. /\ cred = mem \/ (cred = stored /\ ~Storing)
        /\ cred # NoCred /\ Free(r) /\ ~Refreshing /\ mem' = cred
        /\ Send(r, "refresh", cred.dev, cred.tok)
        /\ UNCHANGED <<row, stored, replayed, late>>
        /\ overlapped' = IF Underway(d) # {} THEN overlapped \cup {d} ELSE overlapped
    BY DEF Refresh, serverVars
  <1>2. d \in Devices /\ cred.tok \in Nat
    BY <1>1 DEF MadeInv, Shapes, TokenTypes, Creds
  <1>3. Becomes(r, "refresh", "sent", d, cred.tok, "none", TRUE)
    BY <1>1, <1>2, SendFacts DEF MadeInv
  <1> HIDE DEF d
  <1>4. /\ \A s \in Requests : s # r => req'[s] = req[s]
        /\ req'[r].kind = "refresh" /\ req'[r].pc = "sent" /\ req'[r].dev = d /\ req'[r].tok = cred.tok
    BY <1>3 DEF Becomes
  <1>5. \A s \in Requests : ~LiveRefresh(s) /\ (LiveRefresh(s)' => s = r)
    BY <1>1, <1>4 DEF Refreshing, LiveRefresh
  <1>6. \A s \in Requests, e \in Devices : Bearer(s, e)' <=> Bearer(s, e) /\ s # r
    <2>1. \A e \in Devices : ~Bearer(r, e)'
      BY <1>4 DEF Bearer
    <2>2. \A s \in Requests, e \in Devices : s # r => (Bearer(s, e)' <=> Bearer(s, e))
      BY <1>4 DEF Bearer
    <2> QED
      BY <2>1, <2>2
  <1>7. /\ \A s \in Requests, e \in Devices : s # r => (Serving(s, e)' <=> Serving(s, e))
        /\ \A e \in Devices : Serving(r, e)' => e = d
    BY <1>4 DEF Serving
  <1>8. d \notin overlapped' => \A s \in Requests : ~Serving(s, d)
    BY <1>1 DEF Underway, Serving
  <1>9. OneLive'
    BY <1>5 DEF OneLive
  <1>10. OneServed'
    <2> SUFFICES ASSUME NEW e \in Devices \ overlapped', NEW p \in Requests, NEW s \in Requests,
                        Serving(p, e)', req'[s].dev = e, LiveRefresh(s)' \/ Serving(s, e)'
                 PROVE  p = s
      BY DEF OneServed
    <2>1. CASE e = d
      BY <1>5, <1>7, <1>8, <2>1
    <2>2. CASE e # d
      <3>1. p # r /\ s # r /\ ~LiveRefresh(s)'
        BY <1>4, <1>5, <1>7, <2>2
      <3>2. e \notin overlapped /\ Serving(p, e) /\ Serving(s, e) /\ req[s].dev = e
        BY <1>1, <1>4, <1>7, <3>1
      <3> QED
        BY <1>0, <3>2 DEF OneServed
    <2> QED
      BY <2>1, <2>2
  <1>11. \A s \in Requests : Bearer(s, d) /\ req[s].kind # "refresh" => FALSE
    <2> SUFFICES ASSUME NEW s \in Requests, Bearer(s, d), req[s].kind # "refresh" PROVE FALSE
      OBVIOUS
    <2>1. mem.dev # d /\ (req[s].pc = "answered" => stored.dev # d) /\ req[s].pc \in {"answered", "remember"}
      BY <1>0, <1>2 DEF FirstBearer, Bearer, d
    <2> QED
      BY <1>1, <2>1 DEF d, Storing
  <1>12. FirstBearer'
    <2>1. mem'.dev = d
      BY <1>1 DEF d
    <2> QED
      BY <1>0, <1>1, <1>4, <1>6, <1>11, <2>1 DEF FirstBearer
  <1>13. StoredBearer'
    BY <1>0, <1>1, <1>4, <1>6 DEF StoredBearer
  <1>14. ASSUME NEW e \in Devices, Sound(e)', row'[e].state = "active" PROVE Matched(e)'
    <2>1. Matched(e) /\ row' = row
      <3>1. Sound(e)
        BY <1>1, <1>14 DEF Sound
      <3> QED
        BY <1>0, <1>1, <1>14, <3>1 DEF InMatch
    <2>2. BearerMatch(e)'
      BY <1>4, <1>6, <2>1 DEF Matched, BearerMatch
    <2>3. CASE e # d
      <3>0. mem'.dev # e
        BY <1>1, <2>3 DEF d
      <3>1. HeldMatch(e)' /\ MemMatch(e)'
        BY <1>1, <2>1, <3>0 DEF Matched, HeldMatch, MemMatch
      <3>2. ServedMatch(e)'
        BY <1>1, <1>4, <1>7, <2>1, <2>3, <3>0 DEF Matched, ServedMatch
      <3> QED
        BY <2>2, <3>1, <3>2 DEF Matched
    <2>4. CASE e = d
      <3>1. stored.dev = d => stored.tok = cred.tok
        <4>1. CASE cred = mem
          BY <1>5, <2>1, <2>4, <4>1 DEF d, Matched, MemMatch
        <4> QED
          BY <1>1, <4>1
      <3>2. cred.tok \in {row[d].cur, row[d].prev}
        BY <2>1, <2>4 DEF d, Matched, HeldMatch
      <3>3. HeldMatch(d)' /\ MemMatch(d)'
        BY <1>1, <2>1, <3>1, <3>2 DEF HeldMatch, MemMatch
      <3>4. \A s \in Requests : Serving(s, d)' => s = r
        BY <1>2, <1>7, <1>8, <1>14, <2>4 DEF Sound
      <3>5. ServedMatch(d)'
        BY <1>1, <1>4, <2>1, <3>1, <3>2, <3>4 DEF ServedMatch
      <3> QED
        BY <2>2, <2>4, <3>3, <3>5 DEF Matched
    <2> QED
      BY <2>3, <2>4
  <1>15. InMatch' /\ Forgiven'
    BY <1>0, <1>1, <1>14 DEF InMatch, Forgiven
  <1> QED
    BY <1>9, <1>10, <1>12, <1>13, <1>15 DEF ForgiveInv

\* restore() of a worker that is refreshing reads the storage.
LEMMA JoinStep ==
  ASSUME ForgiveInv, JoinRefresh
  PROVE  ForgiveInv'
  <1>0. OneLive /\ OneServed /\ FirstBearer /\ StoredBearer /\ InMatch /\ Forgiven
    BY DEF ForgiveInv
  <1>1. mem' = stored /\ UNCHANGED <<req, row, stored, overlapped, late, replayed>> /\ ~Storing
    BY DEF JoinRefresh, serverVars, historyVars
  <1>2. /\ \A r \in Requests, d \in Devices : (Serving(r, d)' <=> Serving(r, d)) /\ (Bearer(r, d)' <=> Bearer(r, d))
        /\ \A r \in Requests : LiveRefresh(r)' <=> LiveRefresh(r)
    BY <1>1 DEF Serving, Bearer, LiveRefresh
  <1>3. OneLive' /\ OneServed' /\ StoredBearer'
    BY <1>0, <1>1, <1>2 DEF OneLive, OneServed, StoredBearer
  <1>4. \A r \in Requests, d \in Devices : Bearer(r, d) => req[r].pc = "answered"
    BY <1>1 DEF Storing, Bearer
  <1>5. FirstBearer'
    BY <1>0, <1>1, <1>2, <1>4 DEF FirstBearer
  <1>6. ASSUME NEW d \in Devices, Sound(d)', row'[d].state = "active" PROVE Matched(d)'
    <2>1. Matched(d)
      BY <1>0, <1>1, <1>6 DEF InMatch, Sound
    <2>2. HeldMatch(d)' /\ MemMatch(d)'
      BY <1>1, <2>1 DEF Matched, HeldMatch, MemMatch
    <2>3. ServedMatch(d)' /\ BearerMatch(d)'
      BY <1>1, <1>2, <2>1 DEF Matched, ServedMatch, BearerMatch
    <2> QED
      BY <2>2, <2>3 DEF Matched
  <1>7. InMatch' /\ Forgiven'
    BY <1>0, <1>1, <1>6 DEF InMatch, Forgiven
  <1> QED
    BY <1>3, <1>5, <1>7 DEF ForgiveInv

\* A device that a token is on its way of is at the server with no refresh, and no
\* other token of it is.
LEMMA BearerAlone ==
  ASSUME OneLive, OneServed, FirstBearer, NEW r \in Requests, NEW d \in Devices, Bearer(r, d)
  PROVE  /\ \A s \in Requests : Bearer(s, d) => s = r
         /\ d \notin overlapped => \A s \in Requests : ~Serving(s, d)
  <1>1. CASE req[r].kind = "refresh"
    <2>1. LiveRefresh(r) /\ req[r].dev = d /\ ~Serving(r, d)
      BY <1>1 DEF Bearer, LiveRefresh, Serving
    <2>2. ASSUME NEW s \in Requests, Bearer(s, d) PROVE s = r
      <3>1. req[s].kind = "refresh"
        BY <1>1, <2>1, <2>2 DEF FirstBearer
      <3>2. LiveRefresh(s)
        BY <2>2, <3>1 DEF Bearer, LiveRefresh
      <3> QED
        BY <2>1, <3>2 DEF OneLive
    <2>3. d \notin overlapped => \A s \in Requests : ~Serving(s, d)
      BY <2>1 DEF OneServed
    <2> QED
      BY <2>2, <2>3
  <1>2. CASE req[r].kind # "refresh"
    BY <1>2 DEF FirstBearer, Serving
  <1> QED
    BY <1>1, <1>2

\* A token arrives and goes to storage.
LEMMA StoreStep ==
  ASSUME ForgiveInv, NEW r \in Requests, NEW d \in Devices, Bearer(r, d), req[r].pc = "answered",
         Becomes(r, req[r].kind, "remember", d, req[r].tok, "token", req[r].live),
         stored'.dev = d, stored'.tok = req[r].tok,
         UNCHANGED <<mem, row, overlapped, late, replayed>>
  PROVE  ForgiveInv'
  <1>0. OneLive /\ OneServed /\ FirstBearer /\ StoredBearer /\ InMatch /\ Forgiven
    BY DEF ForgiveInv
  <1>1. /\ \A s \in Requests : s # r => req'[s] = req[s]
        /\ req'[r].kind = req[r].kind /\ req'[r].dev = d /\ req'[r].pc = "remember" /\ req'[r].tok = req[r].tok
        /\ req[r].dev = d
    BY DEF Becomes, Bearer
  <1>2. /\ \A s \in Requests, e \in Devices : Serving(s, e)' <=> Serving(s, e)
        /\ \A s \in Requests : LiveRefresh(s)' <=> LiveRefresh(s)
    BY DEF Becomes, Serving, LiveRefresh
  <1>3. \A s \in Requests, e \in Devices : Bearer(s, e)' <=> Bearer(s, e)
    <2>1. \A e \in Devices : Bearer(r, e)' <=> Bearer(r, e)
      BY DEF Becomes, Bearer
    <2>2. \A s \in Requests, e \in Devices : s # r => (Bearer(s, e)' <=> Bearer(s, e))
      BY <1>1 DEF Bearer
    <2> QED
      BY <2>1, <2>2
  <1>4. \A s \in Requests : Bearer(s, d) => s = r
    BY <1>0, BearerAlone
  <1>5. OneLive' /\ OneServed'
    BY <1>0, <1>1, <1>2 DEF OneLive, OneServed
  <1>6. FirstBearer' /\ StoredBearer'
    BY <1>0, <1>1, <1>3, <1>4 DEF FirstBearer, StoredBearer
  <1>7. ASSUME NEW e \in Devices, Sound(e)', row'[e].state = "active" PROVE Matched(e)'
    <2>1. Matched(e) /\ e \notin overlapped
      BY <1>0, <1>7 DEF InMatch, Sound
    <2>2. BearerMatch(e)'
      BY <1>1, <1>3, <2>1 DEF Matched, BearerMatch
    <2>3. HeldMatch(e)'
      BY <2>1 DEF Matched, HeldMatch, BearerMatch
    <2>4. e = d => \A s \in Requests : ~Serving(s, e)
      BY <1>0, <2>1, BearerAlone
    <2>5. ServedMatch(e)'
      <3>1. \A s \in Requests : Serving(s, e)' => s # r /\ e # d /\ Serving(s, e)
        BY <1>2, <2>4 DEF Serving, Bearer
      <3> QED
        BY <1>1, <2>1, <3>1 DEF Matched, ServedMatch
    <2>6. MemMatch(e)'
      <3>1. CASE e = d /\ req[r].kind = "refresh"
        <4>1. Bearer(r, e)' /\ LiveRefresh(r)'
          BY <1>2, <1>3, <3>1 DEF Bearer, LiveRefresh
        <4> QED
          BY <1>1, <4>1 DEF MemMatch
      <3>2. CASE e = d /\ req[r].kind # "refresh"
        BY <1>0, <3>2 DEF FirstBearer, MemMatch
      <3>3. CASE e # d
        BY <3>3 DEF MemMatch
      <3> QED
        BY <3>1, <3>2, <3>3
    <2> QED
      BY <2>2, <2>3, <2>5, <2>6 DEF Matched
  <1>8. InMatch' /\ Forgiven'
    BY <1>0, <1>7 DEF InMatch, Forgiven
  <1> QED
    BY <1>5, <1>6, <1>8 DEF ForgiveInv

\* The stored token is the one in memory from now on.
LEMMA RememberStep ==
  ASSUME ForgiveInv, NEW r \in Requests, NEW d \in Devices, Bearer(r, d), req[r].pc = "remember",
         Becomes(r, "none", "idle", None, 0, "none", FALSE),
         mem'.dev = d, mem'.tok = req[r].tok,
         UNCHANGED <<stored, row, overlapped, late, replayed>>
  PROVE  ForgiveInv'
  <1>0. OneLive /\ OneServed /\ FirstBearer /\ StoredBearer /\ InMatch /\ Forgiven
    BY DEF ForgiveInv
  <1>1. /\ \A s \in Requests : s # r => req'[s] = req[s]
        /\ req'[r].kind = "none" /\ req'[r].answer = "none"
    BY DEF Becomes
  <1>2. /\ \A s \in Requests, e \in Devices : Serving(s, e)' => Serving(s, e) /\ s # r
        /\ \A s \in Requests : LiveRefresh(s)' => LiveRefresh(s) /\ s # r
        /\ \A s \in Requests, e \in Devices : Bearer(s, e)' => Bearer(s, e) /\ s # r
    BY <1>1 DEF Serving, LiveRefresh, Bearer
  <1>3. \A s \in Requests : Bearer(s, d) => s = r
    BY <1>0, BearerAlone
  <1>4. OneLive' /\ OneServed'
    BY <1>0, <1>1, <1>2 DEF OneLive, OneServed
  <1>5. FirstBearer' /\ StoredBearer'
    BY <1>0, <1>1, <1>2, <1>3 DEF FirstBearer, StoredBearer
  <1>6. ASSUME NEW e \in Devices, Sound(e)', row'[e].state = "active" PROVE Matched(e)'
    <2>1. Matched(e) /\ e \notin overlapped
      BY <1>0, <1>6 DEF InMatch, Sound
    <2>2. BearerMatch(e)'
      BY <1>1, <1>2, <2>1 DEF Matched, BearerMatch
    <2>3. HeldMatch(e)'
      BY <2>1 DEF Matched, HeldMatch, BearerMatch
    <2>4. e = d => \A s \in Requests : ~Serving(s, e)
      BY <1>0, <2>1, BearerAlone
    <2>5. ServedMatch(e)'
      BY <1>1, <1>2, <2>1, <2>4 DEF Matched, ServedMatch
    <2>6. MemMatch(e)'
      BY <1>0 DEF MemMatch, StoredBearer
    <2> QED
      BY <2>2, <2>3, <2>5, <2>6 DEF Matched
  <1>7. InMatch' /\ Forgiven'
    BY <1>0, <1>6 DEF InMatch, Forgiven
  <1> QED
    BY <1>4, <1>5, <1>7 DEF ForgiveInv

\* A step that touches one request, and leaves it nothing to say.
LEMMA FadeOne ==
  ASSUME ForgiveInv, NEW r \in Requests, \A s \in Requests : s # r => req'[s] = req[s], Faded(r),
         req[r].pc # "remember",
         mem' = mem \/ mem'.dev \notin Devices, stored' = stored \/ stored'.dev \notin Devices,
         \A d \in Devices : row'[d].state = "active" => row'[d] = row[d],
         UNCHANGED overlapped, late \subseteq late', replayed' \subseteq replayed \cup overlapped \cup late
  PROVE  ForgiveInv'
  <1>1. \A s \in Requests : Faded(s)
    BY DEF Faded
  <1>2. \A s \in Requests : req[s].pc = "remember" => req'[s] = req[s]
    OBVIOUS
  <1> QED
    BY <1>1, <1>2, FadeStep

\* A step that leaves the requests and the client alone.
LEMMA FadeNone ==
  ASSUME ForgiveInv, UNCHANGED <<req, mem, stored, historyVars>>,
         \A d \in Devices : row'[d].state = "active" => row'[d] = row[d]
  PROVE  ForgiveInv'
  <1>1. \A s \in Requests : Faded(s)
    BY DEF Faded
  <1> QED
    BY <1>1, FadeStep DEF historyVars

\* Pairing gives the client the current token, or the answer is lost.
LEMMA ForgivePairing ==
  ASSUME MadeInv, ForgiveInv, PairingStep
  PROVE  ForgiveInv'
  <1>1. CASE \E d \in Devices : StartPairing(d) \/ ExpireGrant(d) \/ (\E a \in BOOLEAN : Decide(d, a))
    <2>1. UNCHANGED <<req, mem, stored, historyVars, row>>
      BY <1>1 DEF StartPairing, ExpireGrant, Decide, clientVars
    <2> QED
      BY <2>1, FadeNone
  <1>2. ASSUME NEW r \in Requests, NEW d \in Devices, Poll(r, d) \/ Claim(r, d) PROVE ForgiveInv'
    <2>1. /\ Free(r) /\ UNCHANGED <<row, mem, stored, historyVars>>
          /\ Send(r, "exchange", d, NoToken) \/ Send(r, "claim", d, NoToken)
      BY <1>2 DEF Poll, Claim, clientVars, serverVars
    <2>2. \E k \in {"exchange", "claim"} : Becomes(r, k, "sent", d, NoToken, "none", TRUE)
      BY <2>1, SendFacts DEF MadeInv, NoToken
    <2>3. Faded(r) /\ \A s \in Requests : s # r => req'[s] = req[s]
      BY <2>2 DEF Becomes, Faded
    <2>4. req[r].pc # "remember"
      BY <2>1 DEF Free, NoRequest
    <2> QED
      BY <2>1, <2>3, <2>4, FadeOne DEF historyVars
  <1> QED
    BY <1>1, <1>2 DEF PairingStep

\* The exchange and the claim.
LEMMA ForgiveExchange ==
  ASSUME MadeInv, ForgiveInv, NEW r \in Requests,
         Exchange(r) \/ ClaimServed(r) \/ (\E ok \in BOOLEAN : Consume(r, ok))
  PROVE  ForgiveInv'
  <1> DEFINE d == req[r].dev
  <1>0. /\ TokenTypes /\ NoToken \in Nat /\ d \in Devices /\ req[r].kind \in {"exchange", "claim"}
        /\ req[r].pc \in {"sent", "consume"}
        /\ UNCHANGED <<mem, stored, overlapped, late, replayed>>
    BY DEF MadeInv, NoToken, Exchange, ClaimServed, Consume, At, Shapes, clientVars, historyVars
  <1>1. CASE \/ Goes(r, "consume") /\ row' = row
             \/ (\E a \in {"pending", "denied"} : Answers(r, a, NoToken)) /\ row' = row
    <2>1. \/ Becomes(r, req[r].kind, "consume", d, req[r].tok, req[r].answer, req[r].live)
          \/ \E a \in {"pending", "denied"} : Becomes(r, req[r].kind, "answered", d, NoToken, a, req[r].live)
      BY <1>0, <1>1, GoesFacts, AnswersFacts
    <2>2. req[r].answer # "token"
      BY <1>0 DEF MadeInv, Shapes
    <2>3. Faded(r) /\ \A s \in Requests : s # r => req'[s] = req[s]
      BY <1>0, <2>1, <2>2 DEF Becomes, Faded
    <2> QED
      BY <1>0, <1>1, <2>3, FadeOne
  <1>2. CASE Create(r, d) /\ created[d] = 0
    <2>1. Answers(r, "token", 1)
      BY <1>2 DEF Create
    <2>2. Becomes(r, req[r].kind, "answered", d, 1, "token", req[r].live)
      BY <1>0, <2>1, AnswersFacts
    <2>3. row'[d].cur = 1 /\ \A e \in Devices : e # d => row'[e] = row[e]
      BY <1>0, <1>2, CreateFacts
    <2> QED
      BY <1>0, <1>2, <2>2, <2>3, FirstTokenStep DEF MadeInv
  <1>3. CASE Exchange(r)
    BY <1>1, <1>3 DEF Exchange, serverVars
  <1>4. CASE ClaimServed(r)
    <2>1. created[d] = 0
      BY <1>4 DEF ClaimServed, MadeInv, OpenClaims
    <2> QED
      BY <1>2, <1>4, <2>1 DEF ClaimServed
  <1>5. ASSUME NEW ok \in BOOLEAN, Consume(r, ok) PROVE ForgiveInv'
    <2>1. CASE CanConsume(d) /\ ok
      <3>1. Create(r, d) /\ created[d] = 0
        BY <1>0, <1>5, <2>1 DEF Consume, CanConsume, MadeInv, OneMade
      <3> QED
        BY <1>2, <3>1
    <2>2. CASE ~(CanConsume(d) /\ ok)
      <3>1. Answers(r, "denied", NoToken) /\ row' = row
        BY <1>5, <2>2 DEF Consume, serverVars
      <3> QED
        BY <1>1, <3>1
    <2> QED
      BY <2>1, <2>2
  <1> QED
    BY <1>3, <1>4, <1>5

\* The server reads the device's row.
LEMMA ForgiveRead ==
  ASSUME MadeInv, ForgiveInv, NEW r \in Requests, ReadDevice(r)
  PROVE  ForgiveInv'
  <1> DEFINE d == req[r].dev
             t == req[r].tok
  <1>0. /\ TokenTypes /\ NoToken \in Nat /\ d \in Devices /\ req[r].kind = "refresh" /\ req[r].pc = "sent"
        /\ UNCHANGED <<row, mem, stored, overlapped, replayed>> /\ late \subseteq late'
    BY DEF MadeInv, NoToken, ReadDevice, At, Shapes, clientVars, serverVars
  <1>1. CASE Answers(r, "denied", NoToken)
    <2>1. Becomes(r, "refresh", "answered", d, NoToken, "denied", req[r].live)
      BY <1>0, <1>1, AnswersFacts
    <2>2. Faded(r) /\ \A s \in Requests : s # r => req'[s] = req[s]
      BY <1>0, <2>1 DEF Becomes, Faded
    <2> QED
      BY <1>0, <2>2, FadeOne
  <1>2. ASSUME NEW pc \in {"rotate", "restore", "revoke"}, Goes(r, pc),
               d \notin overlapped' \cup late' /\ row[d].state = "active" =>
                 (pc = "rotate" /\ t = row[d].cur) \/ (pc = "restore" /\ t = row[d].prev)
        PROVE  ForgiveInv'
    <2>1. Becomes(r, "refresh", pc, d, t, req[r].answer, req[r].live)
      BY <1>0, <1>2, GoesFacts
    <2>2. Serving(r, d)
      BY <1>0 DEF Serving
    <2> QED
      BY <1>0, <1>2, <2>1, <2>2, MoveStep
  <1>3. d \notin overlapped' \cup late' /\ row[d].state = "active" => t \in {row[d].cur, row[d].prev}
    <2>1. d \notin overlapped' \cup late' => Sound(d)
      BY <1>0 DEF Sound
    <2>2. Serving(r, d)
      BY <1>0 DEF Serving
    <2> QED
      BY <1>0, <2>1, <2>2 DEF ForgiveInv, InMatch, Matched, ServedMatch
  <1>4. CASE row[d].state # "active"
    BY <1>1, <1>4 DEF ReadDevice
  <1>5. CASE row[d].state = "active" /\ t = row[d].cur
    <2>1. Goes(r, "rotate")
      BY <1>5 DEF ReadDevice
    <2> QED
      BY <1>2, <1>5, <2>1
  <1>6. CASE row[d].state = "active" /\ t # row[d].cur /\ t = row[d].prev
    <2>1. Goes(r, "restore")
      BY <1>6 DEF ReadDevice
    <2> QED
      BY <1>2, <1>6, <2>1
  <1>7. CASE row[d].state = "active" /\ t # row[d].cur /\ t # row[d].prev
    <2>1. Goes(r, "revoke")
      BY <1>7 DEF ReadDevice
    <2> QED
      BY <1>2, <1>3, <1>7, <2>1
  <1> QED
    BY <1>4, <1>5, <1>6, <1>7

\* The two conditional updates, and what follows when they fail.
LEMMA ForgiveUpdate ==
  ASSUME MadeInv, ForgiveInv, NEW r \in Requests, Rotate(r) \/ Restore(r)
  PROVE  ForgiveInv'
  <1> DEFINE d == req[r].dev
             t == req[r].tok
  <1>0. /\ TokenTypes /\ d \in Devices /\ req[r].kind = "refresh" /\ req[r].pc \in {"rotate", "restore"}
        /\ UNCHANGED <<mem, stored, overlapped, replayed>> /\ late \subseteq late' /\ t \in Nat
    BY DEF MadeInv, TokenTypes, Reqs, Rotate, Restore, At, Shapes, clientVars, historyVars
  <1>1. Serving(r, d)
    BY <1>0 DEF Serving
  <1>2. d \notin overlapped' \cup late' /\ row[d].state = "active" =>
          (req[r].pc = "rotate" => t = row[d].cur) /\ (req[r].pc = "restore" => t = row[d].prev)
    <2>1. d \notin overlapped' \cup late' => Sound(d)
      BY <1>0 DEF Sound
    <2> QED
      BY <1>0, <1>1, <2>1 DEF ForgiveInv, InMatch, Matched, ServedMatch
  <1>3. CASE Goes(r, "revoke") /\ row' = row /\ ~(d \notin overlapped' \cup late' /\ row[d].state = "active")
    <2>1. Becomes(r, "refresh", "revoke", d, t, req[r].answer, req[r].live)
      BY <1>0, <1>3, GoesFacts
    <2> QED
      BY <1>0, <1>1, <1>3, <2>1, MoveStep
  <1>4. CASE Rotate(r)
    <2>1. CASE CanRotate(d, t)
      <3>1. /\ row' = [row EXCEPT ![d].cur = minted[d] + 1, ![d].prev = t, ![d].at = now]
            /\ Answers(r, "token", minted[d] + 1) /\ UNCHANGED late /\ row[d].state = "active"
        BY <1>4, <2>1 DEF Rotate, CanRotate, historyVars
      <3>2. minted[d] + 1 \in Nat
        BY <1>0 DEF TokenTypes
      <3>3. Becomes(r, "refresh", "answered", d, minted[d] + 1, "token", req[r].live)
        BY <1>0, <3>1, <3>2, AnswersFacts
      <3>4. /\ row'[d].cur = minted[d] + 1 /\ row'[d].prev = t
            /\ \A e \in Devices : e # d => row'[e] = row[e]
        BY <1>0, <3>1 DEF TokenTypes, Rows
      <3> QED
        BY <1>0, <1>1, <3>1, <3>2, <3>3, <3>4, IssueStep
    <2>2. CASE ~CanRotate(d, t)
      <3>1. Goes(r, "revoke") /\ row' = row /\ req[r].pc = "rotate"
        BY <1>4, <2>2 DEF Rotate, At
      <3> QED
        BY <1>2, <1>3, <2>2, <3>1 DEF CanRotate
    <2> QED
      BY <2>1, <2>2
  <1>5. CASE Restore(r)
    <2>1. CASE CanRestore(d, t)
      <3>1. /\ row' = [row EXCEPT ![d].cur = t, ![d].prev = NoToken, ![d].at = 0]
            /\ Answers(r, "token", t) /\ UNCHANGED late /\ row[d].state = "active"
        BY <1>5, <2>1 DEF Restore, CanRestore
      <3>2. Becomes(r, "refresh", "answered", d, t, "token", req[r].live)
        BY <1>0, <3>1, AnswersFacts
      <3>3. row'[d].cur = t /\ \A e \in Devices : e # d => row'[e] = row[e]
        BY <1>0, <3>1 DEF TokenTypes, Rows
      <3> QED
        BY <1>0, <1>1, <3>1, <3>2, <3>3, IssueStep
    <2>2. CASE ~CanRestore(d, t)
      <3>1. /\ Goes(r, "revoke") /\ row' = row /\ req[r].pc = "restore"
            /\ late' = IF row[d].at + Grace < now THEN late \cup {d} ELSE late
        BY <1>5, <2>2 DEF Restore, At
      <3>2. row[d].at \in Nat /\ Grace \in Nat /\ now \in Nat
        BY <1>0 DEF TokenTypes, Rows
      <3>3. d \notin overlapped' \cup late' => row[d].at >= now - Grace
        BY <3>1, <3>2 DEF Sound
      <3> QED
        BY <1>2, <1>3, <2>2, <3>1, <3>3 DEF CanRestore
    <2> QED
      BY <2>1, <2>2
  <1> QED
    BY <1>4, <1>5

\* A device is revoked: after a replay, which a sound one does not show, or by the user.
LEMMA ForgiveRevoke ==
  ASSUME MadeInv, ForgiveInv, (\E r \in Requests : RevokeFamily(r)) \/ (\E d \in Devices : RevokeDevice(d))
  PROVE  ForgiveInv'
  <1>1. ASSUME NEW r \in Requests, RevokeFamily(r) PROVE ForgiveInv'
    <2> DEFINE d == req[r].dev
    <2>0. /\ TokenTypes /\ NoToken \in Nat /\ d \in Devices /\ req[r].kind = "refresh" /\ req[r].pc = "revoke"
          /\ UNCHANGED <<mem, stored, overlapped, late>>
          /\ row' = [row EXCEPT ![d].state = "revoked"] /\ Answers(r, "denied", NoToken)
          /\ replayed' = IF row[d].state = "active" THEN replayed \cup {d} ELSE replayed
      BY <1>1 DEF MadeInv, NoToken, RevokeFamily, At, Shapes, clientVars
    <2>1. Becomes(r, "refresh", "answered", d, NoToken, "denied", req[r].live)
      BY <2>0, AnswersFacts
    <2>2. Faded(r) /\ \A s \in Requests : s # r => req'[s] = req[s]
      BY <2>0, <2>1 DEF Becomes, Faded
    <2>3. \A e \in Devices : row'[e].state = "active" => row'[e] = row[e]
      BY <2>0 DEF TokenTypes, Rows
    <2>4. row[d].state = "active" => ~Sound(d)
      <3>1. Serving(r, d)
        BY <2>0 DEF Serving
      <3> QED
        BY <2>0, <3>1 DEF ForgiveInv, InMatch, Matched, ServedMatch
    <2>5. replayed' \subseteq replayed \cup overlapped \cup late
      BY <2>0, <2>4 DEF Sound
    <2> QED
      BY <2>0, <2>2, <2>3, <2>5, FadeOne
  <1>2. ASSUME NEW d \in Devices, RevokeDevice(d) PROVE ForgiveInv'
    <2>1. UNCHANGED <<req, mem, stored, historyVars>> /\ row' = [row EXCEPT ![d].state = "revoked"]
      BY <1>2 DEF RevokeDevice, clientVars
    <2>2. \A e \in Devices : row'[e].state = "active" => row'[e] = row[e]
      BY <2>1 DEF MadeInv, TokenTypes, Rows
    <2> QED
      BY <2>1, <2>2, FadeNone
  <1> QED
    BY <1>1, <1>2

\* What the client stores and forgets stays within the grace.
LEMMA ForgiveClient ==
  ASSUME MadeInv, ForgiveInv, ClientStep
  PROVE  ForgiveInv'
  <1>0. TokenTypes /\ NoCred.dev \notin Devices
    BY DEF MadeInv, TokenTypes, NoCred
  <1>1. ASSUME NEW r \in Requests, Deliver(r) PROVE ForgiveInv'
    <2> DEFINE d == req[r].dev
    <2>0. req[r].live /\ req[r].pc = "answered" /\ d \in Devices /\ UNCHANGED <<row, overlapped, late, replayed>>
      BY <1>1 DEF Deliver, MadeInv, Shapes, serverVars, historyVars
    <2>1. CASE req[r].answer = "token"
      <3>1. stored' = [dev |-> d, tok |-> req[r].tok] /\ Goes(r, "remember") /\ mem' = mem
        BY <1>1, <2>1 DEF Deliver
      <3>2. Becomes(r, req[r].kind, "remember", d, req[r].tok, "token", req[r].live)
        BY <1>0, <2>1, <3>1, GoesFacts
      <3>3. Bearer(r, d)
        BY <2>0, <2>1 DEF Bearer
      <3>4. stored'.dev = d /\ stored'.tok = req[r].tok
        BY <3>1
      <3> QED
        BY <2>0, <3>1, <3>2, <3>3, <3>4, StoreStep
    <2>2. CASE req[r].answer # "token"
      <3>1. /\ Done(r) /\ mem' \in {mem, NoCred} /\ stored' \in {stored, NoCred}
        BY <1>1, <2>2 DEF Deliver
      <3>2. Becomes(r, "none", "idle", None, 0, "none", FALSE)
        BY <1>0, <3>1, DoneFacts
      <3>3. Faded(r) /\ \A s \in Requests : s # r => req'[s] = req[s]
        BY <3>2 DEF Becomes, Faded
      <3> QED
        BY <1>0, <2>0, <3>1, <3>3, FadeOne
    <2> QED
      BY <2>1, <2>2
  <1>2. ASSUME NEW r \in Requests, Remember(r) PROVE ForgiveInv'
    <2> DEFINE d == req[r].dev
    <2>1. /\ d \in Devices /\ Bearer(r, d) /\ req[r].pc = "remember" /\ Done(r)
          /\ mem' = [dev |-> d, tok |-> req[r].tok] /\ UNCHANGED <<stored, row, overlapped, late, replayed>>
      BY <1>2 DEF Remember, MadeInv, Shapes, Bearer, serverVars, historyVars
    <2>2. Becomes(r, "none", "idle", None, 0, "none", FALSE)
      BY <1>0, <2>1, DoneFacts
    <2>3. mem'.dev = d /\ mem'.tok = req[r].tok
      BY <2>1
    <2> QED
      BY <2>1, <2>2, <2>3, RememberStep
  <1>3. ASSUME NEW r \in Requests, LoseConnection(r) PROVE ForgiveInv'
    <2>1. req[r].pc # "remember" /\ UNCHANGED <<mem, stored, row, overlapped, late, replayed>>
      BY <1>3 DEF LoseConnection, clientVars, serverVars, historyVars
    <2>2. Becomes(r, req[r].kind, req[r].pc, req[r].dev, req[r].tok, req[r].answer, FALSE)
      BY <1>0, <1>3, LoseFacts
    <2>3. Faded(r) /\ \A s \in Requests : s # r => req'[s] = req[s]
      BY <2>2 DEF Becomes, Faded
    <2> QED
      BY <2>1, <2>3, FadeOne
  <1>4. ASSUME NEW r \in Requests, Vanish(r) PROVE ForgiveInv'
    <2>1. req[r].pc # "remember" /\ Done(r) /\ UNCHANGED <<mem, stored, row, overlapped, late, replayed>>
      BY <1>4 DEF Vanish, clientVars, serverVars, historyVars
    <2>2. Becomes(r, "none", "idle", None, 0, "none", FALSE)
      BY <1>0, <2>1, DoneFacts
    <2>3. Faded(r) /\ \A s \in Requests : s # r => req'[s] = req[s]
      BY <2>2 DEF Becomes, Faded
    <2> QED
      BY <2>1, <2>3, FadeOne
  <1>5. CASE WorkerKilled
    <2>1. mem' = NoCred /\ UNCHANGED <<stored, row, overlapped, late, replayed>>
      BY <1>5 DEF WorkerKilled, serverVars, historyVars
    <2>2. \A r \in Requests : Faded(r)
      BY <1>0, <1>5, KilledFacts DEF Faded, NoRequest
    <2> QED
      BY <1>0, <2>1, <2>2, FadeStep
  <1> QED
    BY <1>1, <1>2, <1>3, <1>4, <1>5, RefreshStep, JoinStep DEF ClientStep, StartRefresh

\* The invariant of LossesAreForgiven is inductive.
LEMMA ForgiveStep == MadeInv /\ ForgiveInv /\ [Next]_vars => ForgiveInv'
  <1> SUFFICES ASSUME MadeInv, ForgiveInv, [Next]_vars PROVE ForgiveInv'
    OBVIOUS
  <1>1. CASE Tick \/ UNCHANGED vars
    <2>1. UNCHANGED <<req, mem, stored, historyVars, row>>
      BY <1>1 DEF Tick, vars, serverVars, clientVars, historyVars
    <2> QED
      BY <2>1, FadeNone
  <1>2. ASSUME NEW r \in Requests, Serve(r) PROVE ForgiveInv'
    BY <1>2, ForgiveExchange, ForgiveRead, ForgiveUpdate, ForgiveRevoke DEF Serve
  <1> QED
    BY <1>1, <1>2, ForgivePairing, ForgiveClient, ForgiveRevoke DEF Next

\* Over any number of lost answers, lost connections, killed workers and retries, with
\* any number of devices and requests: replay detection revokes a device only if two of
\* its refreshes were at the server at once, or its retry came after the grace window.
THEOREM LossesAreForgiven == TokenAssumption /\ Spec => []LostAnswersAreForgiven
  <1> SUFFICES ASSUME TokenAssumption PROVE Spec => []LostAnswersAreForgiven
    OBVIOUS
  <1>1. Init => MadeInv
    BY MadeInit
  <1>2. Init => ForgiveInv
    BY DEF Init, ForgiveInv, OneLive, OneServed, FirstBearer, StoredBearer, InMatch, Forgiven,
           LiveRefresh, Serving, Bearer, NoRequest, NoRow
  <1>3. ForgiveInv => LostAnswersAreForgiven
    BY DEF ForgiveInv, Forgiven, LostAnswersAreForgiven
  <1> QED
    BY <1>1, <1>2, <1>3, MadeStep, ForgiveStep, PTL DEF Spec

-----------------------------------------------------------------------------
(* The controlled tab *)

\* The debugger DebuggerFacade believes in is always one Chrome has attached: a tab that
\* goes, a dismissed debugging bar, a failed attach and a lost socket each reset the
\* facade with the debugger, in any order.
THEOREM DebuggerIsReal == Tab!Spec => []FacadeIsAttached
  <1> USE DEF FacadeIsAttached, Tab!FacadeIsAttached
  <1>1. Tab!Init => FacadeIsAttached
    BY DEF Tab!Init
  <1>2. FacadeIsAttached /\ [Tab!Next]_Tab!vars => FacadeIsAttached'
    <2> SUFFICES ASSUME FacadeIsAttached, [Tab!Next]_Tab!vars PROVE FacadeIsAttached'
      OBVIOUS
    <2>1. CASE UNCHANGED <<facade, attached>>
      BY <2>1
    <2>2. CASE Tab!Detach
      BY <2>2 DEF Tab!Detach
    <2>3. ASSUME NEW t \in Tabs, Tab!Gone(t) PROVE FacadeIsAttached'
      BY <2>3 DEF Tab!Gone
    <2>4. ASSUME NEW h \in Handlers, Tab!AttachDone(h) PROVE FacadeIsAttached'
      BY <2>4 DEF Tab!AttachDone, Tab!debugVars
    <2>5. CASE Tab!PanelStep
      BY <2>1, <2>5 DEF Tab!PanelStep, Tab!Open, Tab!Reopen, Tab!Stop, Tab!debugVars
    <2>6. ASSUME NEW h \in Handlers, Tab!Resume(h) PROVE FacadeIsAttached'
      BY <2>1, <2>2, <2>4, <2>6
        DEF Tab!Resume, Tab!LookupDone, Tab!LookupFails, Tab!OpenAnswered, Tab!OpenRejected,
            Tab!CloseAnswered, Tab!EnableDone, Tab!debugVars
    <2>7. CASE Tab!ServerStep
      BY <2>1, <2>7 DEF Tab!ServerStep, Tab!ServerOpens, Tab!ServerCloses, Tab!debugVars
    <2>8. CASE Tab!EventStep
      BY <2>1, <2>2, <2>3, <2>8
        DEF Tab!EventStep, Tab!Activated, Tab!Removed, Tab!Replaced, Tab!Updated, Tab!Attach,
            Tab!ChromeDetaches, Tab!Disconnect, Tab!Reconnect, Tab!debugVars
    <2>9. CASE UNCHANGED Tab!vars
      BY <2>1, <2>9 DEF Tab!vars
    <2> QED
      BY <2>5, <2>6, <2>7, <2>8, <2>9 DEF Tab!Next
  <1> QED
    BY <1>1, <1>2, PTL DEF Tab!Spec

\* A session, a message or the server's session, as a session id and a tab.
Names(x) == [s |-> x.s, tab |-> x.tab]

Works == [pc : Tab!Places, ses : Tab!Session \cup {Tab!NoSession}, next : Tabs \cup {None},
          ack : {"none", "ok", "error"}]

TabTypes ==
  /\ session \in Tab!Session \cup {Tab!NoSession}
  /\ work \in [Handlers -> Works]
  /\ wire \in Seq(Tab!Message)
  /\ remote \in [s : Sessions, tab : Tabs] \cup {Tab!NoRemote}
  /\ \A h \in Handlers : work[h].pc # "idle" => work[h].ses \in Tab!Session

\* The handler waits for the answer to a message.
Waiting(h) == work[h].pc \in {"opening", "updating", "closing"} /\ work[h].ack = "none"

\* Every message on the wire has a handler of its own that waits for its answer, and
\* an extension that is offline has sent nothing the server still holds.
Awaited ==
  /\ \A i \in 1..Len(wire) : Waiting(wire[i].from)
  /\ \A i, j \in 1..Len(wire) : wire[i].from = wire[j].from => i = j
  /\ ~connected => wire = <<>> /\ remote = Tab!NoRemote

\* What the server will do with two messages that follow each other, with the first
\* one, and what the last one says of the open session: opens and closes of one
\* session alternate with nothing of another between them.
InOrder ==
  \A i \in 1..(Len(wire) - 1) :
    /\ wire[i].kind = "open" => Names(wire[i + 1]) = Names(wire[i])
    /\ wire[i].kind = "close" => wire[i + 1].kind = "open"
ServerIsReady ==
  /\ wire = <<>> => remote \in {Tab!NoRemote, Names(session)}
  /\ wire # <<>> => remote \in {Tab!NoRemote, Names(wire[1])}
LastIsOurs ==
  wire # <<>> => /\ wire[Len(wire)].kind = "open" => Names(wire[Len(wire)]) = Names(session)
                 /\ wire[Len(wire)].kind = "close" => session = Tab!NoSession
NoneRefused == \A h \in Handlers : work[h].ack # "error"
Agrees == InOrder /\ ServerIsReady /\ LastIsOurs /\ NoneRefused

TabInv == TabTypes /\ Awaited /\ (~raced => Agrees)

-----------------------------------------------------------------------------
\* The fields of a session and of the absence of one.
LEMMA SessionFacts ==
  ASSUME Tab!TabAssumption
  PROVE  /\ \A x \in Tab!Session : x.s \in Sessions /\ x.tab \in Tabs /\ x # Tab!NoSession /\ Names(x) # Tab!NoRemote
         /\ Tab!NoSession.s = None /\ Tab!NoSession.tab = None
         /\ Names(Tab!NoSession) = Tab!NoRemote
         /\ None \notin Sessions /\ None \notin Tabs
  BY DEF Tab!TabAssumption, Tab!Session, Tab!NoSession, Tab!NoRemote, Names

\* A handler that goes to wait, or ends, and what an answer changes.
LEMMA WaitsFacts ==
  ASSUME work \in [Handlers -> Works], NEW h \in Handlers, NEW pc \in Tab!Places,
         NEW ses \in Tab!Session \cup {Tab!NoSession}, NEW next \in Tabs \cup {None}, Tab!Waits(h, pc, ses, next)
  PROVE  /\ work' \in [Handlers -> Works]
         /\ \A g \in Handlers \ {h} : work'[g] = work[g]
         /\ work'[h].pc = pc /\ work'[h].ses = ses /\ work'[h].ack = "none"
  BY DEF Works, Tab!Waits

\* What Ends does to a handler.
LEMMA EndsFacts ==
  ASSUME work \in [Handlers -> Works], NEW h \in Handlers, Tab!Ends(h)
  PROVE  /\ work' \in [Handlers -> Works]
         /\ \A g \in Handlers \ {h} : work'[g] = work[g]
         /\ work'[h].pc = "idle" /\ work'[h].ack = "none"
  BY DEF Works, Tab!Ends, Tab!Idle, Tab!Places

\* What an acknowledgement does to a handler.
LEMMA AnswerFacts ==
  ASSUME work \in [Handlers -> Works], NEW h \in Handlers, NEW ack \in {"none", "ok", "error"},
         work' = [work EXCEPT ![h].ack = ack]
  PROVE  /\ work' \in [Handlers -> Works]
         /\ \A g \in Handlers \ {h} : work'[g] = work[g]
         /\ work'[h].pc = work[h].pc /\ work'[h].ses = work[h].ses /\ work'[h].ack = ack
  BY DEF Works

\* A message on the wire.
LEMMA SendsFacts ==
  ASSUME wire \in Seq(Tab!Message), NEW h \in Handlers, NEW kind \in {"open", "close"},
         NEW ses \in Tab!Session, Tab!Sends(h, kind, ses)
  PROVE  /\ wire' \in Seq(Tab!Message) /\ Len(wire') = Len(wire) + 1
         /\ \A i \in 1..Len(wire) : wire'[i] = wire[i]
         /\ wire'[Len(wire) + 1].kind = kind /\ wire'[Len(wire) + 1].from = h
         /\ Names(wire'[Len(wire) + 1]) = Names(ses)
         /\ wire' # <<>>
  <1> DEFINE m == [kind |-> kind, s |-> ses.s, tab |-> ses.tab, from |-> h]
  <1>1. m \in Tab!Message /\ m.kind = kind /\ m.from = h /\ Names(m) = Names(ses)
    BY DEF Tab!Message, Tab!Session, Names
  <1>2. wire' = Append(wire, m)
    BY DEF Tab!Sends
  <1> HIDE DEF m
  <1> QED
    BY <1>1, <1>2, AppendProperties

\* The messages on the wire.
LEMMA WireFacts ==
  ASSUME Tab!TabAssumption, wire \in Seq(Tab!Message)
  PROVE  /\ Len(wire) \in Nat /\ (wire = <<>> <=> Len(wire) = 0)
         /\ \A i \in 1..Len(wire) :
              /\ wire[i].from \in Handlers /\ wire[i].kind \in {"open", "close"}
              /\ wire[i].s \in Sessions /\ Names(wire[i]) # Tab!NoRemote
  <1>1. \A i \in 1..Len(wire) : wire[i] \in Tab!Message
    BY ElementOfSeq
  <1>2. \A m \in Tab!Message : /\ m.from \in Handlers /\ m.kind \in {"open", "close"}
                               /\ m.s \in Sessions /\ Names(m) # Tab!NoRemote
    BY DEF Tab!TabAssumption, Tab!Message, Tab!NoRemote, Names
  <1> QED
    BY <1>1, <1>2, EmptySeq, LenProperties

\* What is left of the messages once the server took the first.
LEMMA TailFacts ==
  ASSUME wire \in Seq(Tab!Message), wire # <<>>, wire' = Tail(wire)
  PROVE  /\ wire' \in Seq(Tab!Message) /\ Len(wire') = Len(wire) - 1 /\ Len(wire) \in Nat \ {0}
         /\ \A i \in 1..Len(wire') : wire'[i] = wire[i + 1] /\ i + 1 \in 1..Len(wire)
         /\ wire' = <<>> <=> Len(wire) = 1
         /\ Head(wire) = wire[1] /\ wire[1] \in Tab!Message
  <1>1. Len(wire) \in Nat /\ Len(wire) # 0
    BY EmptySeq, LenProperties
  <1>2. /\ wire' \in Seq(Tab!Message) /\ Len(wire') = Len(wire) - 1
        /\ \A i \in 1..Len(wire') : wire'[i] = wire[i + 1]
    BY <1>1, HeadTailProperties
  <1>3. wire' = <<>> <=> Len(wire') = 0
    BY <1>2, EmptySeq
  <1>4. Head(wire) = wire[1] /\ wire[1] \in Tab!Message
    BY <1>1, HeadTailProperties, ElementOfSeq
  <1> QED
    BY <1>1, <1>2, <1>3, <1>4

-----------------------------------------------------------------------------
\* A step that neither sends, nor moves a session or a waiting handler.
LEMMA QuietStep ==
  ASSUME Tab!TabAssumption, TabInv, UNCHANGED <<session, wire, remote>>, raced \in BOOLEAN, raced' = raced,
         work' \in [Handlers -> Works],
         \A h \in Handlers : work'[h].pc # "idle" => work'[h].ses \in Tab!Session,
         \A h \in Handlers : Waiting(h) => work'[h] = work[h],
         \A h \in Handlers : work'[h].ack = "error" => work[h].ack = "error",
         connected' \/ ~connected
  PROVE  TabInv'
  <1>1. TabTypes'
    BY DEF TabInv, TabTypes
  <1>2. \A i \in 1..Len(wire) : wire[i].from \in Handlers
    BY WireFacts DEF TabInv, TabTypes
  <1>3. Awaited'
    BY <1>2 DEF TabInv, Awaited, Waiting
  <1>4. ~raced => Agrees'
    <2> SUFFICES ASSUME ~raced PROVE Agrees'
      OBVIOUS
    <2>1. NoneRefused'
      BY DEF TabInv, Agrees, NoneRefused
    <2>2. InOrder' /\ ServerIsReady' /\ LastIsOurs'
      BY Zenon DEF TabInv, Agrees, InOrder, ServerIsReady, LastIsOurs, Names
    <2> QED
      BY <2>1, <2>2 DEF Agrees
  <1> QED
    BY <1>1, <1>3, <1>4, Zenon DEF TabInv

\* A handler that waits for nothing sends an open or a close of the session x: of the
\* open one if there is one, or nothing is claimed afterwards.
LEMMA SendStep ==
  ASSUME Tab!TabAssumption, TabInv, NEW h \in Handlers, ~Waiting(h), NEW x \in Tab!Session,
         NEW kind \in {"open", "close"}, Tab!Sends(h, kind, x), Waiting(h)',
         work' \in [Handlers -> Works], work'[h].ses = x,
         \A g \in Handlers \ {h} : work'[g] = work[g],
         session' \in {x, Tab!NoSession}, connected, UNCHANGED <<connected, remote>>,
         ~raced' => /\ ~raced /\ (session = Tab!NoSession \/ Names(x) = Names(session))
                    /\ kind = "open" => session' = x
                    /\ kind = "close" => session # Tab!NoSession /\ session' = Tab!NoSession
  PROVE  TabInv'
  <1>1. /\ work \in [Handlers -> Works] /\ wire \in Seq(Tab!Message)
        /\ Len(wire) \in Nat /\ (wire = <<>> <=> Len(wire) = 0)
    BY WireFacts DEF TabInv, TabTypes
  <1>2. \A i \in 1..Len(wire) : wire[i].from \in Handlers /\ wire[i].from # h
    BY <1>1, WireFacts DEF TabInv, Awaited
  <1>3. /\ wire' \in Seq(Tab!Message) /\ Len(wire') = Len(wire) + 1
        /\ \A i \in 1..Len(wire) : wire'[i] = wire[i]
        /\ wire'[Len(wire) + 1].kind = kind /\ wire'[Len(wire) + 1].from = h
        /\ Names(wire'[Len(wire) + 1]) = Names(x)
        /\ wire' # <<>>
    BY <1>1, SendsFacts
  <1>4. TabTypes'
    BY <1>3 DEF TabInv, TabTypes
  <1>5. Awaited'
    BY <1>1, <1>2, <1>3 DEF TabInv, Awaited, Waiting
  <1>6. ASSUME ~raced' PROVE Agrees'
    <2>1. Agrees
      BY <1>6 DEF TabInv
    <2>2. ASSUME wire # <<>>
          PROVE  /\ wire[Len(wire)].kind = "open" => Names(wire[Len(wire)]) = Names(x)
                 /\ wire[Len(wire)].kind = "close" => kind = "open"
      <3>1. Len(wire) \in 1..Len(wire) /\ Names(wire[Len(wire)]) # Tab!NoRemote
        BY <1>1, <2>2, WireFacts
      <3>2. wire[Len(wire)].kind = "open" => Names(wire[Len(wire)]) = Names(session)
        BY <2>1, <2>2, Zenon DEF Agrees, LastIsOurs
      <3>3. wire[Len(wire)].kind = "close" => session = Tab!NoSession
        BY <2>1, <2>2, Zenon DEF Agrees, LastIsOurs
      <3> QED
        BY <1>6, <3>1, <3>2, <3>3, SessionFacts
    <2>3. InOrder'
      <3>1. 1..(Len(wire') - 1) = 1..Len(wire)
        BY <1>1, <1>3
      <3>2. ASSUME NEW i \in 1..Len(wire)
            PROVE  /\ wire'[i].kind = "open" => Names(wire'[i + 1]) = Names(wire'[i])
                   /\ wire'[i].kind = "close" => wire'[i + 1].kind = "open"
        <4>1. CASE i = Len(wire)
          BY <1>1, <1>3, <2>2, <4>1
        <4>2. CASE i # Len(wire)
          <5>1. i \in 1..(Len(wire) - 1) /\ i + 1 \in 1..Len(wire)
            BY <1>1, <4>2
          <5>2. wire'[i] = wire[i] /\ wire'[i + 1] = wire[i + 1]
            BY <1>3, <5>1
          <5> QED
            BY <2>1, <5>1, <5>2 DEF Agrees, InOrder
        <4> QED
          BY <4>1, <4>2
      <3> QED
        BY <3>1, <3>2, Zenon DEF InOrder, Names
    <2>4. ServerIsReady'
      <3>1. CASE wire = <<>>
        <4>1. Names(wire'[1]) = Names(x)
          BY <1>1, <1>3, <3>1
        <4>2. remote \in {Tab!NoRemote, Names(x)}
          BY <1>6, <2>1, <3>1, SessionFacts DEF Agrees, ServerIsReady
        <4> QED
          BY <1>3, <4>1, <4>2 DEF ServerIsReady, Names
      <3>2. CASE wire # <<>>
        <4>1. wire'[1] = wire[1]
          BY <1>1, <1>3, <3>2
        <4> QED
          BY <1>3, <2>1, <3>2, <4>1 DEF Agrees, ServerIsReady, Names
      <3> QED
        BY <3>1, <3>2
    <2>5. LastIsOurs'
      BY <1>3, <1>6 DEF LastIsOurs, Names
    <2>6. NoneRefused'
      BY <2>1 DEF Agrees, NoneRefused, Waiting
    <2> QED
      BY <2>3, <2>4, <2>5, <2>6 DEF Agrees
  <1> QED
    BY <1>4, <1>5, <1>6, Zenon DEF TabInv

\* Offline the server holds nothing of ours, whatever becomes of the session.
LEMMA OfflineStep ==
  ASSUME Tab!TabAssumption, TabInv, wire' = <<>>, remote' = Tab!NoRemote,
         work' \in [Handlers -> Works],
         \A h \in Handlers : work'[h].pc # "idle" => work'[h].ses \in Tab!Session,
         session' \in Tab!Session \cup {Tab!NoSession},
         ~raced' => ~raced,
         \A h \in Handlers : work'[h].ack = "error" => work[h].ack = "error"
  PROVE  TabInv'
  <1>1. Len(wire') = 0
    BY EmptySeq
  <1>2. TabTypes'
    BY DEF TabInv, TabTypes
  <1>3. Awaited'
    BY <1>1 DEF Awaited
  <1>4. InOrder'
    BY <1>1 DEF InOrder
  <1>5. ~raced' => NoneRefused'
    BY DEF TabInv, Agrees, NoneRefused
  <1> QED
    BY <1>2, <1>3, <1>4, <1>5, Zenon DEF TabInv, Agrees, ServerIsReady, LastIsOurs

\* A handler announces the session x: online or offline.
LEMMA AnnounceStep ==
  ASSUME Tab!TabAssumption, TabInv, NEW h \in Handlers, ~Waiting(h), NEW x \in Tab!Session,
         NEW pc \in {"opening", "updating"}, session' = x, Tab!AnnounceOpen(h, pc, x),
         UNCHANGED <<connected, remote>>,
         ~raced' => ~raced /\ (session = Tab!NoSession \/ Names(x) = Names(session))
  PROVE  TabInv'
  <1>1. work \in [Handlers -> Works]
    BY DEF TabInv, TabTypes
  <1>2. CASE ~connected
    <2>1. wire' = <<>> /\ Tab!Ends(h) /\ remote' = Tab!NoRemote
      BY <1>2 DEF Tab!AnnounceOpen, TabInv, Awaited
    <2>2. \A g \in Handlers : work'[g].pc # "idle" => work'[g].ses \in Tab!Session
      BY <1>1, <2>1, EndsFacts DEF TabInv, TabTypes
    <2> QED
      BY <1>1, <2>1, <2>2, EndsFacts, OfflineStep
  <1>3. CASE connected
    <2>1. Tab!Sends(h, "open", x) /\ Tab!Waits(h, pc, x, None)
      BY <1>3 DEF Tab!AnnounceOpen
    <2>2. /\ work' \in [Handlers -> Works]
          /\ \A g \in Handlers \ {h} : work'[g] = work[g]
          /\ work'[h].ses = x /\ Waiting(h)'
      BY <1>1, <2>1, WaitsFacts DEF Tab!Places, Waiting
    <2> QED
      BY <1>3, <2>1, <2>2, SendStep
  <1> QED
    BY <1>2, <1>3

\* An idle handler closes the open session.
LEMMA CloseStep ==
  ASSUME Tab!TabAssumption, TabInv, NEW h \in Handlers, work[h].pc = "idle", session # Tab!NoSession,
         NEW next \in Tabs \cup {None}, Tab!StartClose(h, next),
         UNCHANGED <<connected, remote, raced>>
  PROVE  TabInv'
  <1>1. /\ work \in [Handlers -> Works] /\ session \in Tab!Session
        /\ session' = Tab!NoSession /\ ~Waiting(h)
    BY DEF TabInv, TabTypes, Tab!StartClose, Waiting
  <1>2. /\ work' \in [Handlers -> Works]
        /\ \A g \in Handlers \ {h} : work'[g] = work[g]
        /\ work'[h].pc = "closing" /\ work'[h].ses = session
        /\ work'[h].ack \in {"none", "ok"} /\ (connected => work'[h].ack = "none")
    BY <1>1 DEF Works, Tab!StartClose, Tab!Places
  <1>3. CASE ~connected
    <2>1. wire' = <<>> /\ remote' = Tab!NoRemote
      BY <1>3 DEF Tab!StartClose, TabInv, Awaited
    <2>2. /\ \A g \in Handlers : work'[g].pc # "idle" => work'[g].ses \in Tab!Session
          /\ \A g \in Handlers : work'[g].ack = "error" => work[g].ack = "error"
      BY <1>1, <1>2 DEF TabInv, TabTypes
    <2> QED
      BY <1>1, <1>2, <2>1, <2>2, OfflineStep
  <1>4. CASE connected
    <2>1. Tab!Sends(h, "close", session) /\ Waiting(h)'
      BY <1>2, <1>4 DEF Tab!StartClose, Waiting
    <2> QED
      BY <1>1, <1>2, <1>4, <2>1, SendStep
  <1> QED
    BY <1>3, <1>4

\* The server takes the first message and answers its handler.
LEMMA ServerTakes ==
  ASSUME Tab!TabAssumption, TabInv, wire # <<>>, wire' = Tail(wire), NEW ack \in {"ok", "error"},
         Tab!Answer(ack), UNCHANGED <<session, connected>>, raced \in BOOLEAN, raced' = raced,
         remote' \in [s : Sessions, tab : Tabs] \cup {Tab!NoRemote},
         connected,
         ~raced => /\ ack = "ok"
                   /\ wire[1].kind = "open" => remote' = Names(wire[1])
                   /\ wire[1].kind = "close" => remote' = Tab!NoRemote
  PROVE  TabInv'
  <1>1. /\ work \in [Handlers -> Works] /\ wire \in Seq(Tab!Message)
        /\ wire[1].from \in Handlers /\ wire[1].kind \in {"open", "close"} /\ 1 \in 1..Len(wire)
    BY WireFacts DEF TabInv, TabTypes
  <1>2. /\ wire' \in Seq(Tab!Message) /\ Len(wire') = Len(wire) - 1 /\ Len(wire) \in Nat \ {0}
        /\ \A i \in 1..Len(wire') : wire'[i] = wire[i + 1] /\ i + 1 \in 1..Len(wire)
        /\ wire' = <<>> <=> Len(wire) = 1
        /\ Head(wire) = wire[1]
    BY <1>1, TailFacts
  <1>3. /\ work' \in [Handlers -> Works]
        /\ \A g \in Handlers \ {wire[1].from} : work'[g] = work[g]
        /\ work'[wire[1].from].pc = work[wire[1].from].pc
        /\ work'[wire[1].from].ses = work[wire[1].from].ses /\ work'[wire[1].from].ack = ack
    BY <1>1, <1>2, AnswerFacts DEF Tab!Answer
  <1>4. TabTypes'
    BY <1>2, <1>3 DEF TabInv, TabTypes
  <1>5. Awaited'
    <2>1. \A i \in 1..Len(wire') : wire'[i].from \in Handlers \ {wire[1].from}
      BY <1>1, <1>2, WireFacts DEF TabInv, Awaited
    <2>2. \A i \in 1..Len(wire') : /\ work'[wire'[i].from].pc \in {"opening", "updating", "closing"}
                                   /\ work'[wire'[i].from].ack = "none"
      BY <1>2, <1>3, <2>1 DEF TabInv, Awaited, Waiting
    <2>3. \A i, j \in 1..Len(wire') : wire'[i].from = wire'[j].from => i = j
      BY <1>2 DEF TabInv, Awaited
    <2> QED
      BY <2>2, <2>3 DEF Awaited, Waiting
  <1>6. ASSUME ~raced PROVE Agrees'
    <2>1. Agrees
      BY <1>6 DEF TabInv
    <2>2. InOrder'
      <3>1. ASSUME NEW i \in 1..(Len(wire') - 1)
            PROVE  /\ wire'[i].kind = "open" => Names(wire'[i + 1]) = Names(wire'[i])
                   /\ wire'[i].kind = "close" => wire'[i + 1].kind = "open"
        <4>1. /\ i + 1 \in 1..(Len(wire) - 1) /\ i \in 1..Len(wire') /\ i + 1 \in 1..Len(wire')
              /\ wire'[i] = wire[i + 1] /\ wire'[i + 1] = wire[(i + 1) + 1]
          BY <1>2
        <4> QED
          BY <2>1, <4>1 DEF Agrees, InOrder
      <3> QED
        BY <3>1, Zenon DEF InOrder, Names
    <2>3. CASE Len(wire) = 1
      <3>1. wire' = <<>>
        BY <1>2, <2>3
      <3>2. remote' \in {Tab!NoRemote, Names(session)}
        BY <1>1, <1>6, <2>1, <2>3 DEF Agrees, LastIsOurs
      <3>3. NoneRefused'
        BY <1>3, <1>6, <2>1 DEF Agrees, NoneRefused
      <3> QED
        BY <2>2, <3>1, <3>2, <3>3 DEF Agrees, ServerIsReady, LastIsOurs, Names
    <2>4. CASE Len(wire) # 1
      <3>1. /\ wire' # <<>> /\ wire'[1] = wire[2] /\ wire'[Len(wire')] = wire[Len(wire)]
            /\ 1 \in 1..(Len(wire) - 1)
        BY <1>2, <2>4
      <3>2. wire[1].kind = "open" => Names(wire'[1]) = Names(wire[1])
        <4>1. wire[1].kind = "open" => Names(wire[1 + 1]) = Names(wire[1])
          BY <2>1, <3>1, Zenon DEF Agrees, InOrder
        <4> QED
          BY <3>1, <4>1
      <3>3. ServerIsReady'
        BY <1>1, <1>6, <3>1, <3>2 DEF ServerIsReady, Names
      <3>4. NoneRefused'
        BY <1>3, <1>6, <2>1 DEF Agrees, NoneRefused
      <3>5. LastIsOurs'
        BY <2>1, <3>1 DEF Agrees, LastIsOurs, Names
      <3> QED
        BY <2>2, <3>3, <3>4, <3>5 DEF Agrees
    <2> QED
      BY <2>3, <2>4
  <1> QED
    BY <1>4, <1>5, <1>6, Zenon DEF TabInv

-----------------------------------------------------------------------------
\* A handler that does not wait for the server moves to another place, or ends.
LEMMA HandlerStep ==
  ASSUME Tab!TabAssumption, TabInv, raced \in BOOLEAN, NEW h \in Handlers, ~Waiting(h),
         UNCHANGED <<session, wire, remote, connected, raced>>,
         work' \in [Handlers -> Works],
         \A g \in Handlers \ {h} : work'[g] = work[g],
         work'[h].ack = "none", work'[h].pc # "idle" => work'[h].ses \in Tab!Session
  PROVE  TabInv'
  <1>1. /\ \A g \in Handlers : work'[g].pc # "idle" => work'[g].ses \in Tab!Session
        /\ \A g \in Handlers : Waiting(g) => work'[g] = work[g]
        /\ \A g \in Handlers : work'[g].ack = "error" => work[g].ack = "error"
    BY DEF TabInv, TabTypes
  <1> QED
    BY <1>1, QuietStep

\* A handler that moves on and sends nothing keeps the invariant.
LEMMA MovesStep ==
  ASSUME Tab!TabAssumption, TabInv, raced \in BOOLEAN, NEW h \in Handlers, ~Waiting(h),
         UNCHANGED <<session, wire, remote, connected, raced>>,
         \/ Tab!Ends(h)
         \/ \E pc \in Tab!Places, ses \in Tab!Session : Tab!Waits(h, pc, ses, None)
  PROVE  TabInv'
  <1>1. work \in [Handlers -> Works]
    BY DEF TabInv, TabTypes
  <1>2. CASE Tab!Ends(h)
    BY <1>1, <1>2, EndsFacts, HandlerStep
  <1>3. ASSUME NEW pc \in Tab!Places, NEW ses \in Tab!Session, Tab!Waits(h, pc, ses, None) PROVE TabInv'
    BY <1>1, <1>3, WaitsFacts, HandlerStep
  <1> QED
    BY <1>2, <1>3

\* The invariant of ServerAgrees is inductive.
LEMMA TabStep ==
  ASSUME Tab!TabAssumption, TabInv, raced \in BOOLEAN, [Tab!Next]_Tab!vars
  PROVE  TabInv' /\ raced' \in BOOLEAN
  <1> USE DEF Tab!At, Tab!tabVars, Tab!networkVars, Tab!debugVars
  <1>1. /\ session \in Tab!Session \cup {Tab!NoSession} /\ work \in [Handlers -> Works]
        /\ wire \in Seq(Tab!Message) /\ remote \in [s : Sessions, tab : Tabs] \cup {Tab!NoRemote}
        /\ \A h \in Handlers : work[h].pc # "idle" => work[h].ses \in Tab!Session
    BY DEF TabInv, TabTypes
  <1>2. CASE UNCHANGED Tab!vars
    <2>1. /\ UNCHANGED <<session, wire, remote, work, connected, raced>>
      BY <1>2 DEF Tab!vars
    <2> QED
      BY <1>1, <2>1, QuietStep
  <1>3. ASSUME NEW h \in Handlers, NEW s \in Sessions, NEW t \in Tabs, NEW follow \in BOOLEAN,
               Tab!Open(h, s, t, follow) PROVE TabInv' /\ raced' \in BOOLEAN
    <2>1. [s |-> s, tab |-> t, follow |-> follow] \in Tab!Session /\ "lookup" \in Tab!Places
      BY DEF Tab!Session, Tab!Places
    <2> QED
      BY <1>3, <2>1, MovesStep DEF Tab!Open, Waiting
  <1>4. ASSUME NEW h \in Handlers, NEW follow \in BOOLEAN, Tab!Reopen(h, follow)
        PROVE TabInv' /\ raced' \in BOOLEAN
    <2>1. session' \in Tab!Session /\ Names(session') = Names(session)
      BY <1>1, <1>4 DEF Tab!Reopen, Tab!Session, Names
    <2> QED
      BY <1>4, <2>1, AnnounceStep DEF Tab!Reopen, Waiting
  <1>5. ASSUME NEW h \in Handlers, Tab!Stop(h) PROVE TabInv' /\ raced' \in BOOLEAN
    BY <1>5, CloseStep DEF Tab!Stop
  <1>6. ASSUME NEW h \in Handlers, Tab!LookupDone(h) PROVE TabInv' /\ raced' \in BOOLEAN
    <2>1. raced' \in BOOLEAN /\ (~raced' => ~raced /\ session = Tab!NoSession)
      BY <1>6, Zenon DEF Tab!LookupDone
    <2> QED
      BY <1>1, <1>6, <2>1, AnnounceStep DEF Tab!LookupDone, Waiting
  <1>7. ASSUME NEW h \in Handlers, Tab!LookupFails(h) PROVE TabInv' /\ raced' \in BOOLEAN
    BY <1>7, MovesStep DEF Tab!LookupFails, Waiting
  <1>8. ASSUME NEW h \in Handlers, Tab!OpenAnswered(h) PROVE TabInv' /\ raced' \in BOOLEAN
    BY <1>8, MovesStep DEF Tab!OpenAnswered, Waiting
  <1>9. ASSUME NEW h \in Handlers, Tab!OpenRejected(h) PROVE TabInv' /\ raced' \in BOOLEAN
    <2>1. raced /\ raced' /\ raced' \in BOOLEAN
      BY <1>9, Zenon DEF Tab!OpenRejected, TabInv, Agrees, NoneRefused
    <2>2. /\ work' \in [Handlers -> Works] /\ \A g \in Handlers \ {h} : work'[g] = work[g]
          /\ work'[h].pc = "idle" /\ UNCHANGED <<wire, remote, connected>>
          /\ session' = Tab!NoSession
      BY <1>1, <1>9, EndsFacts DEF Tab!OpenRejected
    <2>3. TabTypes'
      BY <1>1, <2>2 DEF TabTypes
    <2>4. \A i \in 1..Len(wire) : wire[i].from \in Handlers /\ wire[i].from # h
      BY <1>1, <1>9, WireFacts DEF Tab!OpenRejected, TabInv, Awaited, Waiting
    <2>5. Awaited'
      BY <2>2, <2>4 DEF TabInv, Awaited, Waiting
    <2> QED
      BY <2>1, <2>3, <2>5, Zenon DEF TabInv
  <1>10. ASSUME NEW h \in Handlers, NEW ok \in BOOLEAN, Tab!CloseAnswered(h, ok)
         PROVE TabInv' /\ raced' \in BOOLEAN
    <2>1. /\ work[h].pc = "closing" /\ work[h].ack = "ok" /\ work[h].next \in Tabs \cup {None}
          /\ work[h].ses \in Tab!Session /\ "lookup" \in Tab!Places
      BY <1>1, <1>10 DEF Tab!CloseAnswered, Works, Tab!Places
    <2>2. work[h].next # None => [work[h].ses EXCEPT !.tab = work[h].next] \in Tab!Session
      BY <2>1 DEF Tab!Session
    <2> QED
      BY <1>10, <2>1, <2>2, MovesStep DEF Tab!CloseAnswered, Waiting
  <1>11. ASSUME NEW h \in Handlers, Tab!AttachDone(h) PROVE TabInv' /\ raced' \in BOOLEAN
    <2>1. work[h].ses \in Tab!Session /\ "enabling" \in Tab!Places /\ ~Waiting(h)
      BY <1>1, <1>11 DEF Tab!AttachDone, Tab!Places, Waiting
    <2>2. Tab!Ends(h) \/ Tab!Waits(h, "enabling", work[h].ses, None)
      BY <1>11 DEF Tab!AttachDone
    <2> QED
      BY <1>11, <2>1, <2>2, MovesStep DEF Tab!AttachDone
  <1>12. ASSUME NEW h \in Handlers, NEW ok \in BOOLEAN, Tab!EnableDone(h, ok)
         PROVE TabInv' /\ raced' \in BOOLEAN
    BY <1>12, MovesStep DEF Tab!EnableDone, Waiting
  <1>13. ASSUME NEW h \in Handlers, NEW t \in Tabs, Tab!Activated(h, t)
         PROVE TabInv' /\ raced' \in BOOLEAN
    BY <1>13, CloseStep DEF Tab!Activated
  <1>14. ASSUME NEW h \in Handlers, NEW t \in Tabs, Tab!Removed(h, t)
         PROVE TabInv' /\ raced' \in BOOLEAN
    <2>1. session.tab = t => session # Tab!NoSession
      BY SessionFacts
    <2>2. CASE session.tab = t
      BY <1>14, <2>1, <2>2, CloseStep DEF Tab!Removed
    <2>3. CASE session.tab # t
      BY <1>1, <1>14, <2>3, QuietStep DEF Tab!Removed
    <2> QED
      BY <2>2, <2>3
  <1>15. ASSUME NEW h \in Handlers, NEW new \in Tabs, NEW old \in Tabs, Tab!Replaced(h, new, old)
         PROVE TabInv' /\ raced' \in BOOLEAN
    <2>1. session.tab = old => session # Tab!NoSession
      BY SessionFacts
    <2>2. CASE session.tab = old
      BY <1>15, <2>1, <2>2, CloseStep DEF Tab!Replaced
    <2>3. CASE session.tab # old
      BY <1>1, <1>15, <2>3, QuietStep DEF Tab!Replaced
    <2> QED
      BY <2>2, <2>3
  <1>16. ASSUME NEW h \in Handlers, NEW allowed \in BOOLEAN, Tab!Updated(h, allowed)
         PROVE TabInv' /\ raced' \in BOOLEAN
    <2>1. CASE allowed
      BY <1>1, <1>16, <2>1, AnnounceStep DEF Tab!Updated, Waiting
    <2>2. CASE ~allowed
      BY <1>16, <2>2, CloseStep DEF Tab!Updated
    <2> QED
      BY <2>1, <2>2
  <1>17. ASSUME NEW h \in Handlers, Tab!Attach(h) PROVE TabInv' /\ raced' \in BOOLEAN
    <2>1. session \in Tab!Session /\ "attaching" \in Tab!Places
      BY <1>1, <1>17 DEF Tab!Attach, Tab!Places
    <2> QED
      BY <1>17, <2>1, MovesStep DEF Tab!Attach, Waiting
  <1>18. ASSUME NEW t \in Tabs, Tab!ChromeDetaches(t) PROVE TabInv' /\ raced' \in BOOLEAN
    BY <1>1, <1>18, QuietStep DEF Tab!ChromeDetaches
  <1>19. ASSUME Tab!Disconnect PROVE TabInv' /\ raced' \in BOOLEAN
    <2>1. raced' \in BOOLEAN /\ (~raced' => ~raced)
      BY <1>19, Zenon DEF Tab!Disconnect
    <2>2. \A h \in Handlers : work'[h] = Tab!Idle \/ work'[h] = work[h]
      BY <1>19 DEF Tab!Disconnect
    <2>3. Tab!Idle \in Works /\ Tab!Idle.pc = "idle" /\ Tab!Idle.ack = "none"
      BY DEF Works, Tab!Idle, Tab!Places
    <2>4. work' \in [Handlers -> Works]
      BY <1>1, <1>19, <2>3 DEF Tab!Disconnect
    <2>5. /\ wire' = <<>> /\ remote' = Tab!NoRemote
          /\ session' \in Tab!Session \cup {Tab!NoSession}
      BY <1>1, <1>19 DEF Tab!Disconnect
    <2>6. /\ \A h \in Handlers : work'[h].pc # "idle" => work'[h].ses \in Tab!Session
          /\ \A h \in Handlers : work'[h].ack = "error" => work[h].ack = "error"
      BY <1>1, <2>2, <2>3
    <2> QED
      BY <2>1, <2>4, <2>5, <2>6, OfflineStep
  <1>20. ASSUME Tab!Reconnect PROVE TabInv' /\ raced' \in BOOLEAN
    BY <1>1, <1>20, QuietStep DEF Tab!Reconnect
  <1>21. ASSUME Tab!ServerOpens PROVE TabInv' /\ raced' \in BOOLEAN
    <2> DEFINE this == [s |-> wire[1].s, tab |-> wire[1].tab]
    <2>1. /\ wire # <<>> /\ wire' = Tail(wire) /\ Head(wire) = wire[1] /\ wire[1] \in Tab!Message
          /\ wire[1].kind = "open" /\ UNCHANGED <<session, connected, raced>>
      BY <1>1, <1>21, TailFacts DEF Tab!ServerOpens
    <2>2. this \in [s : Sessions, tab : Tabs] /\ this = Names(wire[1])
      BY <2>1 DEF Tab!Message, Names
    <2>3. connected
      BY <2>1 DEF TabInv, Awaited
    <2>4. ~raced => remote \in {Tab!NoRemote, this}
      BY <2>1, <2>2 DEF TabInv, Agrees, ServerIsReady
    <2>5. CASE remote \in {Tab!NoRemote, this}
      <3>1. remote' = this /\ Tab!Answer("ok")
        BY <1>21, <2>1, <2>5 DEF Tab!ServerOpens
      <3> QED
        BY <2>1, <2>2, <2>3, <3>1, ServerTakes
    <2>6. CASE remote \notin {Tab!NoRemote, this}
      <3>1. remote' = remote /\ Tab!Answer("error")
        BY <1>21, <2>1, <2>6 DEF Tab!ServerOpens
      <3> QED
        BY <1>1, <2>1, <2>3, <2>4, <2>6, <3>1, ServerTakes
    <2> QED
      BY <2>5, <2>6
  <1>22. ASSUME Tab!ServerCloses PROVE TabInv' /\ raced' \in BOOLEAN
    <2>1. /\ wire # <<>> /\ wire' = Tail(wire) /\ Head(wire) = wire[1] /\ wire[1] \in Tab!Message
          /\ wire[1].kind = "close" /\ UNCHANGED <<session, connected, raced>> /\ Tab!Answer("ok")
      BY <1>1, <1>22, TailFacts DEF Tab!ServerCloses
    <2>2. connected
      BY <2>1 DEF TabInv, Awaited
    <2>3. remote' = IF remote.s = wire[1].s THEN Tab!NoRemote ELSE remote
      BY <1>22, <2>1 DEF Tab!ServerCloses
    <2>4. ~raced => remote \in {Tab!NoRemote, Names(wire[1])}
      BY <2>1 DEF TabInv, Agrees, ServerIsReady
    <2>5. ~raced => remote' = Tab!NoRemote
      BY <2>3, <2>4 DEF Names
    <2> QED
      BY <1>1, <2>1, <2>2, <2>3, <2>5, ServerTakes
  <1>23. CASE Tab!PanelStep
    BY <1>3, <1>4, <1>5, <1>23 DEF Tab!PanelStep
  <1>24. ASSUME NEW h \in Handlers, Tab!Resume(h) PROVE TabInv' /\ raced' \in BOOLEAN
    BY <1>6, <1>7, <1>8, <1>9, <1>10, <1>11, <1>12, <1>24 DEF Tab!Resume
  <1>25. CASE Tab!EventStep
    BY <1>13, <1>14, <1>15, <1>16, <1>17, <1>18, <1>19, <1>20, <1>25 DEF Tab!EventStep
  <1> QED
    BY <1>2, <1>21, <1>22, <1>23, <1>24, <1>25 DEF Tab!Next, Tab!ServerStep

\* When no handler is at work, the server holds this extension's session with its tab,
\* or none, unless a handler overwrote or cleared the session of another open: for any
\* number of tabs, sessions and handlers in flight.
THEOREM ServerAgrees == Tab!TabAssumption /\ Tab!Spec => []ServerHoldsOurs
  <1> SUFFICES ASSUME Tab!TabAssumption PROVE Tab!Spec => []ServerHoldsOurs
    OBVIOUS
  <1>1. Tab!Init => TabInv /\ raced \in BOOLEAN
    <2> SUFFICES ASSUME Tab!Init PROVE TabInv /\ raced \in BOOLEAN
      OBVIOUS
    <2>1. Tab!Idle \in Works /\ Tab!Idle.pc = "idle" /\ Tab!Idle.ack = "none"
      BY DEF Works, Tab!Idle, Tab!Places
    <2>2. TabTypes
      BY <2>1 DEF Tab!Init, TabTypes
    <2>3. Len(wire) = 0 /\ wire = <<>> /\ remote = Tab!NoRemote /\ connected /\ raced = FALSE
      BY EmptySeq DEF Tab!Init
    <2>4. NoneRefused
      BY <2>1 DEF Tab!Init, NoneRefused
    <2> QED
      <3>1. Awaited
        BY <2>3 DEF Awaited
      <3>2. InOrder
        BY <2>3 DEF InOrder
      <3> QED
        BY <2>2, <2>3, <2>4, <3>1, <3>2, Zenon DEF TabInv, Agrees, ServerIsReady, LastIsOurs
  <1>2. TabInv /\ raced \in BOOLEAN /\ [Tab!Next]_Tab!vars => TabInv' /\ (raced \in BOOLEAN)'
    BY TabStep
  <1>3. TabInv => ServerHoldsOurs
    <2> SUFFICES ASSUME TabInv, Tab!Quiet, ~raced
                 PROVE  remote \in {Tab!NoRemote, [s |-> session.s, tab |-> session.tab]}
      BY DEF ServerHoldsOurs, Tab!ServerHoldsOurs
    <2>1. wire = <<>>
      <3>1. Len(wire) \in Nat /\ (wire = <<>> <=> Len(wire) = 0)
        BY WireFacts DEF TabInv, TabTypes
      <3>2. ASSUME Len(wire) # 0 PROVE FALSE
        <4>1. 1 \in 1..Len(wire)
          BY <3>1, <3>2
        <4>2. wire[1].from \in Handlers /\ Waiting(wire[1].from)
          BY <4>1, WireFacts DEF TabInv, TabTypes, Awaited
        <4> QED
          BY <4>2 DEF Waiting, Tab!Quiet, Tab!At
      <3> QED
        BY <3>1, <3>2
    <2> QED
      BY <2>1 DEF TabInv, Agrees, ServerIsReady, Names
  <1> QED
    BY <1>1, <1>2, <1>3, PTL DEF Tab!Spec

-----------------------------------------------------------------------------
(* The schedules *)

\* The occurrences of the rule, and the first of them after a time.
Grid(v) == \E k \in Nat : v = 1 + k * Interval
IsNext(v, t) == Grid(v) /\ t < v /\ v <= t + Interval

Maybe == Int \cup {NoTime}
PlanRows == [live : BOOLEAN, active : BOOLEAN, mine : BOOLEAN, next : Maybe, last : Maybe]
SyncPcs == {"idle", "asked", "listed", "running", "clearing", "ending"}
RunPcs == {"idle", "fetching", "replaying", "sent", "recorded", "refused"}

Runs == [pc : RunPcs, by : Slots \cup {NoSlot}, seen : Maybe, last : Maybe, next : Maybe]

PlanTypes ==
  /\ clock \in Nat /\ plan \in PlanRows /\ alarm \in Maybe
  /\ maps \in [Slots -> Maybe] /\ current \in Slots
  /\ sync \in [Slots -> [pc : SyncPcs, row : PlanRows \cup {NoTime}]]
  /\ run \in [pc : RunPcs, by : Slots \cup {NoSlot}, seen : Maybe, last : Maybe, next : Maybe]
  /\ posts \subseteq [last : Nat, next : Int]

\* The row is the owner's, and its next run the first occurrence after the last run.
Since(r) == IF r.last = NoTime THEN 0 ELSE r.last

RowFollows ==
  /\ plan.live /\ plan.active /\ plan.mine
  /\ Since(plan) \in Nat /\ Since(plan) <= clock /\ IsNext(plan.next, Since(plan))

\* A time the manager got from the row, now or earlier.
Known(v, next) == Grid(v) /\ v <= next

AlarmIsKnown == alarm # NoTime => Known(alarm, plan.next)

\* A map that holds a coming time has its alarm; a call of sync that is past the
\* loop's body has filled its map.
MapsAreArmed ==
  \A s \in Slots : maps[s] # NoTime =>
    Known(maps[s], plan.next) /\ (maps[s] > clock => alarm = maps[s])

SyncsHaveRow ==
  \A s \in Slots :
    /\ sync[s].pc = "listed" => Plan!Runnable(sync[s].row) /\ Known(sync[s].row.next, plan.next)
    /\ sync[s].pc \in {"running", "clearing", "ending"} => maps[s] # NoTime

\* A run is of an occurrence that is due, its completion names the first one after
\* the time it was sent, and one sent by a killed worker was sent earlier.
RunIsDue ==
  /\ run.pc # "idle" => Grid(run.seen) /\ run.seen <= clock
  /\ run.pc \in {"sent", "recorded"} =>
       /\ run.last \in Nat /\ run.last <= clock /\ IsNext(run.next, run.last)
       /\ \A p \in posts : p.last <= run.last
  /\ run.pc = "recorded" => plan.next = run.next /\ plan.last = run.last

\* The call of sync that started the run waits for it.
RunIsAwaited == run.pc # "idle" /\ run.by \in Slots => sync[run.by].pc = "running"

PostsAreOld == \A p \in posts : IsNext(p.next, p.last) /\ p.last <= clock

Untouched ==
  /\ PlanTypes /\ RowFollows /\ AlarmIsKnown /\ MapsAreArmed
  /\ SyncsHaveRow /\ RunIsDue /\ RunIsAwaited /\ PostsAreOld

PlanInv == edits \in Nat /\ (edits = 0 => Untouched)

-----------------------------------------------------------------------------
\* Occurrences of the grid are at least an interval apart.
LEMMA GridOrder ==
  ASSUME NEW n \in Nat \ {0}, NEW j \in Nat, NEW k \in Nat, j > k
  PROVE  1 + j * n >= 1 + k * n + n
  <1>1. j >= k + 1 /\ j * n \in Int /\ k * n \in Int
    OBVIOUS
  <1>2. \E d \in Nat : j = k + 1 + d
    <2>1. j - (k + 1) \in Nat /\ j = k + 1 + (j - (k + 1))
      BY <1>1
    <2> QED
      BY <2>1
  <1>3. PICK d \in Nat : j = k + 1 + d
    BY <1>2
  <1>4. j * n = k * n + n + d * n /\ d * n \in Nat
    BY <1>3
  <1> QED
    BY <1>1, <1>4

\* The first occurrence after a time moves with the time.
LEMMA NextMoves ==
  ASSUME Plan!BoundsAssumption, NEW t \in Int, NEW u \in Int, t <= u,
         NEW v, IsNext(v, t), NEW w, IsNext(w, u)
  PROVE  v \in Int /\ w \in Int /\ v <= w
  <1>1. Interval \in Nat \ {0}
    BY DEF Plan!BoundsAssumption
  <1>2. PICK j \in Nat : v = 1 + j * Interval
    BY DEF IsNext, Grid
  <1>3. PICK k \in Nat : w = 1 + k * Interval
    BY DEF IsNext, Grid
  <1>4. v \in Int /\ w \in Int
    BY <1>1, <1>2, <1>3
  <1>5. ASSUME j > k
        PROVE  v >= w + Interval
    BY <1>1, <1>2, <1>3, <1>5, GridOrder
  <1>6. ASSUME k > j
        PROVE  w >= v + Interval
    BY <1>1, <1>2, <1>3, <1>6, GridOrder
  <1>7. CASE j > k
    BY <1>1, <1>4, <1>5, <1>7 DEF IsNext
  <1>8. CASE k > j
    BY <1>1, <1>4, <1>6, <1>8 DEF IsNext
  <1>9. CASE j = k
    BY <1>2, <1>3, <1>4, <1>9
  <1> QED
    BY <1>7, <1>8, <1>9

\* Of the known times only the row's own can be to come.
LEMMA KnownIsNext ==
  ASSUME Plan!BoundsAssumption, Untouched, NEW v, Known(v, plan.next)
  PROVE  v \in Int /\ plan.next \in Int /\ (v > clock => v = plan.next)
  <1>1. Interval \in Nat \ {0}
    BY DEF Plan!BoundsAssumption
  <1>2. v \in Int
    BY <1>1 DEF Known, Grid
  <1>3. plan.next \in Int /\ IsNext(plan.next, Since(plan)) /\ Since(plan) \in Nat /\ Since(plan) <= clock /\ clock \in Nat
    BY <1>1 DEF Untouched, PlanTypes, RowFollows, IsNext, Grid
  <1>4. ASSUME v > clock
        PROVE  v = plan.next
    <2>1. IsNext(v, Since(plan))
      BY <1>1, <1>2, <1>3, <1>4 DEF IsNext, Known
    <2> QED
      BY <1>2, <1>3, <2>1, NextMoves
  <1> QED
    BY <1>2, <1>3, <1>4

\* What integer division bounds.
LEMMA QuotientFacts ==
  ASSUME NEW n \in Nat \ {0}, NEW a \in Nat
  PROVE  /\ (a \div n) \in Nat
         /\ n * (a \div n) <= a /\ a < n * ((a \div n) + 1)
  OBVIOUS

\* What the code computes is the first occurrence after the time.
LEMMA NextOccurrence ==
  ASSUME Plan!BoundsAssumption, NEW n, Grid(n), NEW a \in Nat, n <= a
  PROVE  IsNext(Plan!nextOccurrence(n, a), a)
  <1>1. Interval \in Nat \ {0}
    BY DEF Plan!BoundsAssumption
  <1>2. PICK k \in Nat : n = 1 + k * Interval
    BY DEF Grid
  <1>3. n \in Int /\ a - n \in Nat
    BY <1>1, <1>2
  <1> DEFINE q == (a - n) \div Interval
             v == n + Interval * (q + 1)
  <1>4. q \in Nat /\ Interval * q <= a - n /\ a - n < Interval * (q + 1)
    BY <1>1, <1>3, QuotientFacts
  <1>5. Plan!nextOccurrence(n, a) = v
    BY <1>3 DEF Plan!nextOccurrence
  <1> HIDE DEF q
  <1>6. Interval * (q + 1) = Interval * q + Interval /\ Interval * q \in Int
    BY <1>1, <1>4
  <1>7. a < v /\ v <= a + Interval
    BY <1>1, <1>3, <1>4, <1>6
  <1>8. v = 1 + (k + q + 1) * Interval
    BY <1>1, <1>2, <1>4
  <1>9. Grid(v)
    BY <1>4, <1>8 DEF Grid
  <1> QED
    BY <1>5, <1>7, <1>9 DEF IsNext
-----------------------------------------------------------------------------
\* A call of sync moves on without touching maps or alarms.
LEMMA SyncMoves ==
  ASSUME Untouched, NEW s \in Slots, NEW r, r \in [pc : SyncPcs, row : PlanRows \cup {NoTime}],
         sync' = [sync EXCEPT ![s] = r],
         r.pc = "listed" => Plan!Runnable(r.row) /\ Known(r.row.next, plan.next),
         r.pc \in {"running", "clearing", "ending"} => maps[s] # NoTime,
         sync[s].pc # "running", current' \in Slots, UNCHANGED <<clock, plan, alarm, maps, run, posts>>
  PROVE  Untouched'
  <1>1. sync'[s] = r /\ \A x \in Slots \ {s} : sync'[x] = sync[x]
    BY DEF Untouched, PlanTypes
  <1>2. PlanTypes'
    BY DEF Untouched, PlanTypes
  <1>3. RowFollows' /\ AlarmIsKnown' /\ MapsAreArmed' /\ RunIsDue' /\ PostsAreOld'
    BY DEF Untouched, RowFollows, Since, AlarmIsKnown, MapsAreArmed, RunIsDue, PostsAreOld
  <1>4. ASSUME NEW x \in Slots
        PROVE  /\ sync'[x].pc = "listed" => Plan!Runnable(sync'[x].row) /\ Known(sync'[x].row.next, plan'.next)
               /\ sync'[x].pc \in {"running", "clearing", "ending"} => maps'[x] # NoTime
    <2>1. CASE x = s
      BY <1>1, <2>1
    <2>2. CASE x # s
      BY <1>1, <2>2 DEF Untouched, SyncsHaveRow
    <2> QED
      BY <2>1, <2>2
  <1>5. SyncsHaveRow'
    BY <1>4 DEF SyncsHaveRow, Plan!Runnable
  <1>6. RunIsAwaited'
    BY <1>1 DEF Untouched, RunIsAwaited
  <1> QED
    BY <1>2, <1>3, <1>5, <1>6 DEF Untouched

\* A call of sync keeps its type when it moves on.
LEMMA SyncRecord ==
  ASSUME Untouched, NEW s \in Slots, NEW pc \in SyncPcs
  PROVE  /\ sync[s] \in [pc : SyncPcs, row : PlanRows \cup {NoTime}]
         /\ Plan!IdleSync \in [pc : SyncPcs, row : PlanRows \cup {NoTime}] /\ Plan!IdleSync.pc = "idle"
         /\ [sync EXCEPT ![s].pc = pc] = [sync EXCEPT ![s] = [pc |-> pc, row |-> sync[s].row]]
         /\ [pc |-> pc, row |-> sync[s].row] \in [pc : SyncPcs, row : PlanRows \cup {NoTime}]
  <1>1. sync[s] \in [pc : SyncPcs, row : PlanRows \cup {NoTime}]
    BY DEF Untouched, PlanTypes
  <1>2. Plan!IdleSync \in [pc : SyncPcs, row : PlanRows \cup {NoTime}] /\ Plan!IdleSync.pc = "idle"
    BY DEF Plan!IdleSync, SyncPcs
  <1>3. [sync[s] EXCEPT !.pc = pc] = [pc |-> pc, row |-> sync[s].row]
    BY <1>1
  <1>4. [sync EXCEPT ![s].pc = pc] = [sync EXCEPT ![s] = [sync[s] EXCEPT !.pc = pc]]
    BY DEF Untouched, PlanTypes
  <1> QED
    BY <1>1, <1>2, <1>3, <1>4

\* A sync that starts has an empty map and changes no alarm.
LEMMA StartSyncStep ==
  ASSUME Untouched, NEW s \in Slots, Plan!StartSync(s)
  PROVE  Untouched'
  <1> DEFINE r == [pc |-> "asked", row |-> sync[s].row]
  <1>1. /\ sync' = [sync EXCEPT ![s] = r] /\ r \in [pc : SyncPcs, row : PlanRows \cup {NoTime}]
        /\ maps' = [maps EXCEPT ![s] = NoTime] /\ r.pc = "asked" /\ sync[s].pc = "idle"
        /\ UNCHANGED <<clock, plan, alarm, current, run, posts>>
    BY SyncRecord DEF Plan!StartSync, SyncPcs
  <1> HIDE DEF r
  <1>2. sync'[s] = r /\ \A x \in Slots \ {s} : sync'[x] = sync[x] /\ maps'[x] = maps[x]
    BY <1>1 DEF Untouched, PlanTypes
  <1>3. maps' \in [Slots -> Maybe] /\ maps'[s] = NoTime
    BY <1>1 DEF Untouched, PlanTypes, Maybe
  <1>4. PlanTypes'
    BY <1>1, <1>3 DEF Untouched, PlanTypes
  <1>5. RowFollows' /\ AlarmIsKnown' /\ RunIsDue' /\ PostsAreOld'
    BY <1>1 DEF Untouched, RowFollows, Since, AlarmIsKnown, RunIsDue, PostsAreOld
  <1>6. MapsAreArmed'
    BY <1>1, <1>2, <1>3 DEF Untouched, MapsAreArmed
  <1>7. SyncsHaveRow'
    BY <1>1, <1>2, <1>3 DEF Untouched, SyncsHaveRow, Plan!Runnable
  <1>8. RunIsAwaited'
    BY <1>1, <1>2 DEF Untouched, RunIsAwaited
  <1> QED
    BY <1>4, <1>5, <1>6, <1>7, <1>8 DEF Untouched

\* The row names a coming occurrence of the grid.
LEMMA RowFacts ==
  ASSUME Plan!BoundsAssumption, Untouched
  PROVE  /\ plan.next \in Int /\ Grid(plan.next) /\ NoTime \notin Int /\ clock \in Nat
         /\ Plan!Runnable(plan) /\ Known(plan.next, plan.next)
  <1>1. IsNext(plan.next, Since(plan)) /\ plan.live /\ plan.active /\ plan.mine /\ clock \in Nat
    BY DEF Untouched, PlanTypes, RowFollows
  <1>2. plan.next \in Int /\ Grid(plan.next) /\ NoTime \notin Int
    BY <1>1 DEF IsNext, Grid, Plan!BoundsAssumption
  <1>3. plan.next <= plan.next
    BY <1>2
  <1>4. Plan!Runnable(plan)
    BY <1>1, <1>2 DEF Plan!Runnable
  <1> QED
    BY <1>1, <1>2, <1>3, <1>4 DEF Known

\* A list brings the row as it is, or the sync ends.
LEMMA ListStep ==
  ASSUME Plan!BoundsAssumption, Untouched, NEW s \in Slots, Plan!ListSchedules(s) \/ Plan!ListFails(s)
  PROVE  Untouched'
  <1>1. CASE Plan!ListSchedules(s)
    <2> DEFINE r == [pc |-> "listed", row |-> plan]
    <2>1. /\ sync' = [sync EXCEPT ![s] = r] /\ sync[s].pc = "asked"
          /\ UNCHANGED <<clock, plan, alarm, maps, current, run, posts>>
      BY <1>1 DEF Plan!ListSchedules
    <2>2. r \in [pc : SyncPcs, row : PlanRows \cup {NoTime}] /\ r.pc = "listed" /\ r.row = plan
      BY DEF Untouched, PlanTypes, SyncPcs
    <2>3. Plan!Runnable(plan) /\ Known(plan.next, plan.next)
      BY RowFacts
    <2> HIDE DEF r
    <2> QED
      BY <2>1, <2>2, <2>3, SyncMoves DEF Untouched, PlanTypes
  <1>2. CASE Plan!ListFails(s)
    BY <1>2, SyncMoves, SyncRecord DEF Plan!ListFails, Untouched, PlanTypes, SyncPcs
  <1> QED
    BY <1>1, <1>2

\* The loop's body: the row is runnable, so it is armed or caught up with.
LEMMA SyncArmsStep ==
  ASSUME Plan!BoundsAssumption, Untouched, NEW s \in Slots, sync[s].pc = "listed", Plan!SyncArms(s),
         UNCHANGED <<clock, plan, posts>>
  PROVE  Untouched'
  <1> DEFINE r == [pc |-> "clearing", row |-> sync[s].row]
             v == sync[s].row.next
  <1>1. /\ sync' = [sync EXCEPT ![s] = r] /\ r \in [pc : SyncPcs, row : PlanRows \cup {NoTime}]
        /\ maps' = [maps EXCEPT ![s] = v] /\ r.pc = "clearing" /\ alarm' = v /\ v > clock
        /\ UNCHANGED <<current, run>>
    BY SyncRecord DEF Plan!SyncArms, SyncPcs
  <1>2. Known(v, plan.next) /\ v \in Int /\ v = plan.next
    <2>1. Known(v, plan.next)
      BY DEF Untouched, SyncsHaveRow
    <2> QED
      BY <1>1, <2>1, KnownIsNext
  <1> HIDE DEF r, v
  <1>3. sync'[s] = r /\ \A x \in Slots \ {s} : sync'[x] = sync[x] /\ maps'[x] = maps[x]
    BY <1>1 DEF Untouched, PlanTypes
  <1>4. maps' \in [Slots -> Maybe] /\ maps'[s] = v /\ v # NoTime /\ v \in Maybe
    BY <1>1, <1>2, RowFacts DEF Untouched, PlanTypes, Maybe
  <1>5. PlanTypes'
    BY <1>1, <1>4 DEF Untouched, PlanTypes
  <1>6. RowFollows' /\ RunIsDue' /\ PostsAreOld'
    BY <1>1 DEF Untouched, RowFollows, Since, RunIsDue, PostsAreOld
  <1>7. AlarmIsKnown'
    BY <1>1, <1>2 DEF AlarmIsKnown
  <1>8. ASSUME NEW x \in Slots, maps'[x] # NoTime
        PROVE  Known(maps'[x], plan'.next) /\ (maps'[x] > clock' => alarm' = maps'[x])
    <2>1. CASE x = s
      BY <1>1, <1>2, <1>4, <2>1
    <2>2. CASE x # s
      <3>1. maps'[x] = maps[x] /\ Known(maps[x], plan.next)
        BY <1>3, <1>8, <2>2 DEF Untouched, MapsAreArmed
      <3>2. maps[x] > clock => maps[x] = plan.next
        BY <3>1, KnownIsNext
      <3> QED
        BY <1>1, <1>2, <3>1, <3>2
    <2> QED
      BY <2>1, <2>2
  <1>9. MapsAreArmed'
    BY <1>8 DEF MapsAreArmed
  <1>10. SyncsHaveRow'
    BY <1>1, <1>3, <1>4 DEF Untouched, SyncsHaveRow, Plan!Runnable
  <1>11. RunIsAwaited'
    BY <1>1, <1>3 DEF Untouched, RunIsAwaited
  <1> QED
    BY <1>5, <1>6, <1>7, <1>9, <1>10, <1>11 DEF Untouched

\* A run begins with a time that is due.
LEMMA Starts ==
  ASSUME Untouched, NEW m, NEW s, NEW by \in Slots \cup {NoSlot}, m[s] \in Int
  PROVE  /\ Plan!Started(m, s, by) \in [pc : RunPcs, by : Slots \cup {NoSlot}, seen : Maybe, last : Maybe, next : Maybe]
         /\ Plan!Started(m, s, by).pc = "fetching" /\ Plan!Started(m, s, by).seen = m[s]
         /\ Plan!Started(m, s, by).by = by
  BY DEF Plan!Started, Plan!IdleRun, RunPcs, Maybe

\* A sync arms the alarm for the coming occurrence or runs what is due.
LEMMA SyncCatchesUpStep ==
  ASSUME Plan!BoundsAssumption, Untouched, NEW s \in Slots, sync[s].pc = "listed", Plan!SyncCatchesUp(s),
         UNCHANGED <<clock, plan, posts>>
  PROVE  Untouched'
  <1> DEFINE v == sync[s].row.next
             m == [maps EXCEPT ![s] = v]
  <1>1. /\ maps' = m /\ UNCHANGED alarm /\ v <= clock
        /\ \/ sync' = [sync EXCEPT ![s].pc = "clearing"] /\ run' = run
           \/ sync' = [sync EXCEPT ![s].pc = "running"] /\ run' = Plan!Started(m, s, s)
        /\ current' = current \/ current' = s
    BY DEF Plan!SyncCatchesUp
  <1>2. Known(v, plan.next) /\ v \in Int /\ v # NoTime
    <2>1. Known(v, plan.next)
      BY DEF Untouched, SyncsHaveRow
    <2> QED
      BY <2>1, KnownIsNext, RowFacts
  <1> HIDE DEF v
  <1>3. /\ maps' \in [Slots -> Maybe] /\ maps'[s] = v /\ \A x \in Slots \ {s} : maps'[x] = maps[x]
        /\ m[s] = v
    BY <1>1, <1>2 DEF Untouched, PlanTypes, Maybe
  <1>4. PICK r \in [pc : SyncPcs, row : PlanRows \cup {NoTime}] :
          /\ sync' = [sync EXCEPT ![s] = r] /\ r.pc \in {"clearing", "running"}
          /\ run' = run \/ r.pc = "running"
    <2>1. PICK c \in {"clearing", "running"} :
            sync' = [sync EXCEPT ![s].pc = c] /\ (run' = run \/ c = "running")
      BY <1>1
    <2>2. c \in SyncPcs
      BY DEF SyncPcs
    <2> DEFINE d == [pc |-> c, row |-> sync[s].row]
    <2>3. /\ d \in [pc : SyncPcs, row : PlanRows \cup {NoTime}] /\ sync' = [sync EXCEPT ![s] = d]
          /\ d.pc \in {"clearing", "running"} /\ (run' = run \/ d.pc = "running")
      BY <2>1, <2>2, SyncRecord
    <2> HIDE DEF d
    <2> QED
      BY <2>3
  <1> HIDE DEF m
  <1>5. sync'[s] = r /\ \A x \in Slots \ {s} : sync'[x] = sync[x]
    BY <1>4 DEF Untouched, PlanTypes
  <1>6. /\ run' \in [pc : RunPcs, by : Slots \cup {NoSlot}, seen : Maybe, last : Maybe, next : Maybe]
        /\ run' = run \/ (run'.pc = "fetching" /\ run'.seen = v /\ run'.by = s)
    BY <1>1, <1>2, <1>3, Starts DEF Untouched, PlanTypes
  <1>7. PlanTypes'
    BY <1>1, <1>3, <1>4, <1>6 DEF Untouched, PlanTypes
  <1>8. RowFollows' /\ PostsAreOld' /\ AlarmIsKnown'
    BY <1>1 DEF Untouched, RowFollows, Since, PostsAreOld, AlarmIsKnown
  <1>9. MapsAreArmed'
    <2> SUFFICES ASSUME NEW x \in Slots, maps'[x] # NoTime
                 PROVE  Known(maps'[x], plan'.next) /\ (maps'[x] > clock' => alarm' = maps'[x])
      BY DEF MapsAreArmed
    <2>1. CASE x = s
      BY <1>1, <1>2, <1>3, <2>1, RowFacts
    <2>2. CASE x # s
      BY <1>1, <1>3, <2>2 DEF Untouched, MapsAreArmed
    <2> QED
      BY <2>1, <2>2
  <1>10. SyncsHaveRow'
    BY <1>2, <1>3, <1>4, <1>5 DEF Untouched, SyncsHaveRow, Plan!Runnable
  <1>11. RunIsDue'
    <2>1. CASE run' = run
      BY <2>1 DEF Untouched, RunIsDue
    <2>2. CASE run'.pc = "fetching" /\ run'.seen = v
      BY <1>1, <1>2, <2>2 DEF RunIsDue, Known
    <2> QED
      BY <1>6, <2>1, <2>2
  <1>12. RunIsAwaited'
    <2>1. CASE run' = run
      BY <1>5, <2>1 DEF Untouched, RunIsAwaited
    <2>2. CASE run'.pc = "fetching" /\ run'.by = s /\ run' # run
      BY <1>4, <1>5, <2>2 DEF RunIsAwaited
    <2> QED
      BY <1>6, <2>1, <2>2
  <1> QED
    BY <1>7, <1>8, <1>9, <1>10, <1>11, <1>12 DEF Untouched

\* A call of sync that is past the body has its time, so it clears no alarm.
LEMMA SyncClearStep ==
  ASSUME Untouched, NEW s \in Slots, Plan!SyncClear(s) \/ Plan!SyncEnd(s)
  PROVE  Untouched'
  <1>1. CASE Plan!SyncClear(s)
    <2> DEFINE r == [pc |-> "ending", row |-> sync[s].row]
    <2>1. maps[s] # NoTime /\ sync[s].pc = "clearing"
      BY <1>1 DEF Plan!SyncClear, Untouched, SyncsHaveRow
    <2>2. UNCHANGED <<clock, plan, alarm, maps, current, run, posts>>
      BY <1>1, <2>1 DEF Plan!SyncClear
    <2>3. sync' = [sync EXCEPT ![s] = r] /\ r \in [pc : SyncPcs, row : PlanRows \cup {NoTime}] /\ r.pc = "ending"
      BY <1>1, SyncRecord DEF Plan!SyncClear, SyncPcs
    <2> HIDE DEF r
    <2> QED
      BY <2>1, <2>2, <2>3, SyncMoves DEF Untouched, PlanTypes
  <1>2. CASE Plan!SyncEnd(s)
    BY <1>2, SyncMoves, SyncRecord DEF Plan!SyncEnd, SyncPcs
  <1> QED
    BY <1>1, <1>2

\* The alarm that fires is due, so the current map holds no coming time.
LEMMA AlarmFiresStep ==
  ASSUME Plan!BoundsAssumption, Untouched, Plan!AlarmFires
  PROVE  Untouched'
  <1>1. /\ alarm # NoTime /\ alarm <= clock /\ alarm' = NoTime
        /\ run' = IF Plan!CanRun(maps, current) THEN Plan!Started(maps, current, NoSlot) ELSE run
        /\ UNCHANGED <<clock, plan, maps, current, sync, posts>>
    BY DEF Plan!AlarmFires
  <1>2. alarm \in Int /\ clock \in Nat /\ NoTime \notin Int
    BY <1>1, RowFacts DEF Untouched, PlanTypes, Maybe
  <1>3. ASSUME NEW s \in Slots, maps[s] # NoTime
        PROVE  maps[s] \in Int /\ maps[s] <= clock /\ Known(maps[s], plan.next)
    <2>1. maps[s] \in Int /\ Known(maps[s], plan.next) /\ (maps[s] > clock => alarm = maps[s])
      BY <1>3 DEF Untouched, MapsAreArmed, PlanTypes, Maybe
    <2> QED
      BY <1>1, <1>2, <2>1
  <1>4. /\ run' \in [pc : RunPcs, by : Slots \cup {NoSlot}, seen : Maybe, last : Maybe, next : Maybe]
        /\ \/ run' = run
           \/ run'.pc = "fetching" /\ Grid(run'.seen) /\ run'.seen <= clock /\ run'.by = NoSlot
    <2>1. current \in Slots /\ run \in [pc : RunPcs, by : Slots \cup {NoSlot}, seen : Maybe, last : Maybe, next : Maybe]
      BY DEF Untouched, PlanTypes
    <2>2. CASE Plan!CanRun(maps, current)
      <3>1. maps[current] \in Int /\ maps[current] <= clock /\ Known(maps[current], plan.next)
        BY <1>3, <2>1, <2>2 DEF Plan!CanRun
      <3> QED
        BY <1>1, <2>2, <3>1, Starts DEF Known
    <2> QED
      BY <1>1, <2>1, <2>2
  <1>5. PlanTypes'
    BY <1>1, <1>4 DEF Untouched, PlanTypes, Maybe
  <1>6. RowFollows' /\ PostsAreOld' /\ AlarmIsKnown' /\ SyncsHaveRow'
    BY <1>1 DEF Untouched, RowFollows, Since, PostsAreOld, AlarmIsKnown, SyncsHaveRow, Plan!Runnable
  <1>7. MapsAreArmed'
    <2> SUFFICES ASSUME NEW s \in Slots, maps[s] # NoTime
                 PROVE  Known(maps[s], plan.next) /\ ~(maps[s] > clock)
      BY <1>1 DEF MapsAreArmed
    <2> QED
      BY <1>2, <1>3
  <1>8. RunIsDue'
    BY <1>1, <1>4 DEF Untouched, RunIsDue
  <1>9. RunIsAwaited'
    BY <1>1, <1>4 DEF Untouched, RunIsAwaited, Plan!BoundsAssumption
  <1> QED
    BY <1>5, <1>6, <1>7, <1>8, <1>9 DEF Untouched

\* The run goes on by itself.
LEMMA RunMoves ==
  ASSUME Untouched, run' \in Runs, RunIsDue', run.pc # "idle", run'.by = run.by,
         UNCHANGED <<clock, plan, alarm, maps, current, sync, posts>>
  PROVE  Untouched'
  <1>1. PlanTypes'
    BY DEF Untouched, PlanTypes, Runs
  <1>2. RowFollows' /\ AlarmIsKnown' /\ MapsAreArmed' /\ SyncsHaveRow' /\ PostsAreOld'
    BY DEF Untouched, RowFollows, Since, AlarmIsKnown, MapsAreArmed, SyncsHaveRow, Plan!Runnable, PostsAreOld
  <1>3. RunIsAwaited'
    BY DEF Untouched, RunIsAwaited
  <1> QED
    BY <1>1, <1>2, <1>3 DEF Untouched

\* A workflow that was fetched, and a completion that was lost, change neither row nor alarm.
LEMMA ReplayStep ==
  ASSUME Untouched, Plan!Replay \/ Plan!PostFails
  PROVE  Untouched'
  <1>1. run \in Runs
    BY DEF Untouched, PlanTypes, Runs
  <1>2. /\ run.pc # "idle"
        /\ run' = [run EXCEPT !.pc = "replaying"] \/ run' = [run EXCEPT !.pc = "refused"]
        /\ UNCHANGED <<clock, plan, alarm, maps, current, sync, posts>>
    BY DEF Plan!Replay, Plan!PostFails
  <1>3. run' \in Runs /\ run'.pc \in {"replaying", "refused"} /\ run'.seen = run.seen /\ run'.by = run.by
    BY <1>1, <1>2 DEF Runs, RunPcs
  <1>4. RunIsDue'
    BY <1>2, <1>3 DEF Untouched, RunIsDue
  <1> QED
    BY <1>2, <1>3, <1>4, RunMoves

\* The completion names the first occurrence after the time it is sent.
LEMMA OutcomeStep ==
  ASSUME Plan!BoundsAssumption, Untouched, Plan!Outcome
  PROVE  Untouched'
  <1> DEFINE n == Plan!nextOccurrence(run.seen, clock)
  <1>1. run \in Runs /\ clock \in Nat /\ run.pc # "idle"
    BY DEF Untouched, PlanTypes, Runs, Plan!Outcome
  <1>2. Grid(run.seen) /\ run.seen <= clock /\ run.seen \in Int
    BY <1>1, KnownIsNext DEF Untouched, RunIsDue, Grid, Plan!BoundsAssumption
  <1>3. Plan!Later(clock, run.seen) = clock
    BY <1>1, <1>2 DEF Plan!Later
  <1>4. IsNext(n, clock) /\ n \in Int
    <2>1. IsNext(n, clock)
      BY <1>1, <1>2, NextOccurrence
    <2> HIDE DEF n
    <2> QED
      BY <1>1, <2>1, NextMoves
  <1>5. /\ run' = [run EXCEPT !.pc = "sent", !.last = clock, !.next = n]
        /\ UNCHANGED <<clock, plan, alarm, maps, current, sync, posts>>
    BY <1>3 DEF Plan!Outcome
  <1> HIDE DEF n
  <1>6. /\ run' \in Runs /\ run'.pc = "sent" /\ run'.last = clock /\ run'.next = n
        /\ run'.seen = run.seen /\ run'.by = run.by
    <2>1. clock \in Maybe /\ n \in Maybe
      BY <1>1, <1>4 DEF Maybe
    <2> QED
      BY <1>1, <1>5, <2>1 DEF Runs, RunPcs
  <1>7. clock <= clock /\ \A p \in posts : p.last <= clock
    BY <1>1 DEF Untouched, PostsAreOld
  <1>8. RunIsDue'
    BY <1>1, <1>2, <1>4, <1>5, <1>6, <1>7 DEF RunIsDue
  <1> QED
    BY <1>1, <1>5, <1>6, <1>8, RunMoves

\* mark_run moves the row on; what was known stays known.
LEMMA MarkFacts ==
  ASSUME Plan!BoundsAssumption, Untouched, NEW p \in [last : Nat, next : Int], IsNext(p.next, p.last), p.last <= clock,
         plan' = IF Plan!CanMark(p) THEN Plan!Marked(p) ELSE plan, UNCHANGED clock
  PROVE  /\ plan' \in PlanRows /\ RowFollows'
         /\ \A v : Known(v, plan.next) => Known(v, plan'.next)
         /\ Plan!CanMark(p) => plan'.next = p.next /\ plan'.last = p.last
  <1>1. plan \in PlanRows /\ plan.next \in Int /\ clock \in Nat /\ NoTime \notin Int
    BY RowFacts DEF Untouched, PlanTypes
  <1>2. CASE ~Plan!CanMark(p)
    BY <1>1, <1>2 DEF Untouched, RowFollows, Since
  <1>3. CASE Plan!CanMark(p)
    <2>1. plan' = [plan EXCEPT !.last = p.last, !.next = p.next]
      BY <1>3 DEF Plan!Marked
    <2>2. /\ plan' \in PlanRows /\ plan'.last = p.last /\ plan'.next = p.next
          /\ plan'.live = plan.live /\ plan'.active = plan.active /\ plan'.mine = plan.mine
      <3>1. p.last \in Maybe /\ p.next \in Maybe
        BY DEF Maybe
      <3> QED
        BY <1>1, <2>1, <3>1 DEF PlanRows
    <2>3. Since(plan') = p.last
      BY <1>1, <2>2 DEF Since
    <2>4. RowFollows'
      <3>1. Since(plan)' = p.last
        BY <1>1, <2>2 DEF Since
      <3>2. IsNext(plan.next, Since(plan))' <=> IsNext(p.next, p.last)
        BY <2>2, <3>1 DEF IsNext, Grid
      <3> QED
        BY <2>2, <3>1, <3>2 DEF RowFollows, Untouched
    <2>5. Since(plan) <= p.last /\ Since(plan) \in Nat /\ IsNext(plan.next, Since(plan))
      BY <1>1, <1>3 DEF Plan!CanMark, Since, Untouched, RowFollows
    <2>6. plan.next <= p.next
      BY <2>5, NextMoves
    <2>7. ASSUME NEW v, Known(v, plan.next)
          PROVE  Known(v, p.next)
      BY <1>1, <2>6, <2>7, KnownIsNext DEF Known
    <2> QED
      BY <2>2, <2>4, <2>7
  <1> QED
    BY <1>2, <1>3

\* The row moved on and nothing else did but the run or the completions.
LEMMA MarkStep ==
  ASSUME Untouched, plan' \in PlanRows, RowFollows', \A v : Known(v, plan.next) => Known(v, plan'.next),
         run' \in Runs, RunIsDue', run' = run \/ (run.pc # "idle" /\ run'.by = run.by),
         posts' \subseteq posts, UNCHANGED <<clock, alarm, maps, current, sync>>
  PROVE  Untouched'
  <1>1. PlanTypes'
    BY DEF Untouched, PlanTypes, Runs
  <1>2. AlarmIsKnown' /\ MapsAreArmed' /\ PostsAreOld'
    BY DEF Untouched, AlarmIsKnown, MapsAreArmed, PostsAreOld
  <1>3. SyncsHaveRow'
    BY DEF Untouched, SyncsHaveRow, Plan!Runnable
  <1>4. RunIsAwaited'
    BY DEF Untouched, RunIsAwaited
  <1> QED
    BY <1>1, <1>2, <1>3, <1>4 DEF Untouched

\* A completion moves the row on to the first occurrence after now.
LEMMA CompleteRunStep ==
  ASSUME Plan!BoundsAssumption, Untouched, Plan!CompleteRun
  PROVE  Untouched'
  <1> DEFINE p == [last |-> run.last, next |-> run.next]
  <1>1. run \in Runs /\ run.pc = "sent" /\ NoTime \notin Int
    BY RowFacts DEF Untouched, PlanTypes, Runs, Plan!CompleteRun
  <1>2. run.last \in Nat /\ run.last <= clock /\ IsNext(run.next, run.last) /\ Grid(run.seen) /\ run.seen <= clock
    BY <1>1 DEF Untouched, RunIsDue
  <1>3. run.next \in Int
    BY <1>2, NextMoves
  <1>4. /\ plan' = IF Plan!CanMark(p) THEN Plan!Marked(p) ELSE plan
        /\ run' = [run EXCEPT !.pc = IF Plan!CanMark(p) THEN "recorded" ELSE "refused"]
        /\ UNCHANGED <<clock, alarm, maps, current, sync, posts>>
    BY DEF Plan!CompleteRun
  <1>5. p \in [last : Nat, next : Int] /\ p.last = run.last /\ p.next = run.next
    BY <1>2, <1>3
  <1> HIDE DEF p
  <1>6. /\ plan' \in PlanRows /\ RowFollows'
        /\ \A v : Known(v, plan.next) => Known(v, plan'.next)
        /\ Plan!CanMark(p) => plan'.next = p.next /\ plan'.last = p.last
    BY <1>2, <1>4, <1>5, MarkFacts
  <1>7. /\ run' \in Runs /\ run'.last = run.last /\ run'.next = run.next /\ run'.seen = run.seen
        /\ run'.pc = IF Plan!CanMark(p) THEN "recorded" ELSE "refused"
        /\ run'.by = run.by
    BY <1>1, <1>4 DEF Runs, RunPcs
  <1>8. \A q \in posts : q.last <= run.last
    BY <1>1 DEF Untouched, RunIsDue
  <1>9. RunIsDue'
    BY <1>2, <1>4, <1>5, <1>6, <1>7, <1>8 DEF RunIsDue
  <1> QED
    BY <1>1, <1>4, <1>6, <1>7, <1>9, MarkStep

\* A completion of a killed worker moves the row on as well.
LEMMA CompleteLateStep ==
  ASSUME Plan!BoundsAssumption, Untouched, NEW p \in posts, Plan!CompleteLate(p)
  PROVE  Untouched'
  <1>1. p \in [last : Nat, next : Int] /\ run \in Runs /\ IsNext(p.next, p.last) /\ p.last <= clock
        /\ NoTime \notin Int
    BY RowFacts DEF Untouched, PlanTypes, Runs, PostsAreOld
  <1>2. /\ plan' = IF Plan!CanMark(p) THEN Plan!Marked(p) ELSE plan
        /\ posts' = posts \ {p} /\ UNCHANGED <<clock, alarm, maps, current, sync, run>>
    BY DEF Plan!CompleteLate
  <1>3. /\ plan' \in PlanRows /\ RowFollows'
        /\ \A v : Known(v, plan.next) => Known(v, plan'.next)
    BY <1>1, <1>2, MarkFacts
  <1>4. run.pc = "recorded" => plan' = plan
    <2> SUFFICES ASSUME run.pc = "recorded"
                 PROVE  ~Plan!CanMark(p)
      BY <1>2
    <2>1. plan.last = run.last /\ run.last \in Nat /\ p.last <= run.last /\ p.last \in Nat
      BY <1>1 DEF Untouched, RunIsDue
    <2> QED
      BY <1>1, <2>1 DEF Plan!CanMark
  <1>5. RunIsDue'
    BY <1>2, <1>4 DEF Untouched, RunIsDue
  <1> QED
    BY <1>1, <1>2, <1>3, <1>5, MarkStep

\* The sync that awaited the run goes on or ends.
LEMMA AfterRunFacts ==
  ASSUME Untouched, NEW ok \in BOOLEAN, Plan!AfterRun(ok)
  PROVE  /\ sync' \in [Slots -> [pc : SyncPcs, row : PlanRows \cup {NoTime}]]
         /\ \A s \in Slots : sync'[s] = sync[s] \/ sync'[s].pc = "idle" \/ (ok /\ run.by = s /\ sync'[s].pc = "clearing")
  <1>1. ASSUME NEW s \in Slots
        PROVE  /\ sync'[s] \in [pc : SyncPcs, row : PlanRows \cup {NoTime}]
               /\ sync'[s] = sync[s] \/ sync'[s].pc = "idle" \/ (ok /\ run.by = s /\ sync'[s].pc = "clearing")
    <2>1. /\ sync[s] \in [pc : SyncPcs, row : PlanRows \cup {NoTime}]
          /\ Plan!IdleSync \in [pc : SyncPcs, row : PlanRows \cup {NoTime}] /\ Plan!IdleSync.pc = "idle"
      BY SyncRecord DEF SyncPcs
    <2>2. sync'[s] = IF run.by # s THEN sync[s]
                     ELSE IF ok THEN [sync[s] EXCEPT !.pc = "clearing"] ELSE Plan!IdleSync
      BY DEF Plan!AfterRun
    <2>3. /\ [sync[s] EXCEPT !.pc = "clearing"] \in [pc : SyncPcs, row : PlanRows \cup {NoTime}]
          /\ [sync[s] EXCEPT !.pc = "clearing"].pc = "clearing"
      BY <2>1 DEF SyncPcs
    <2>4. CASE run.by # s
      BY <2>1, <2>2, <2>4
    <2>5. CASE run.by = s /\ ok
      BY <2>2, <2>3, <2>5
    <2>6. CASE run.by = s /\ ~ok
      BY <2>1, <2>2, <2>6
    <2> QED
      BY <2>4, <2>5, <2>6
  <1>2. sync' = [s \in Slots |-> sync'[s]]
    BY DEF Plan!AfterRun
  <1> QED
    BY <1>1, <1>2

\* A run that ends arms the alarm for the row it was answered.
LEMMA RunEndsStep ==
  ASSUME Plan!BoundsAssumption, Untouched, Plan!RunEnds
  PROVE  Untouched'
  <1>1. /\ run.pc = "recorded" /\ maps' = [maps EXCEPT ![current] = run.next] /\ alarm' = run.next
        /\ run' = Plan!IdleRun /\ Plan!AfterRun(TRUE) /\ UNCHANGED <<clock, plan, current, posts>>
    BY DEF Plan!RunEnds
  <1>2. run.next = plan.next /\ plan.next \in Int /\ NoTime \notin Int /\ Known(plan.next, plan.next)
    BY <1>1, RowFacts DEF Untouched, RunIsDue
  <1>3. /\ sync' \in [Slots -> [pc : SyncPcs, row : PlanRows \cup {NoTime}]]
        /\ \A s \in Slots : sync'[s] = sync[s] \/ sync'[s].pc = "idle" \/ (run.by = s /\ sync'[s].pc = "clearing")
    BY <1>1, AfterRunFacts
  <1>4. /\ maps' \in [Slots -> Maybe] /\ current \in Slots /\ maps'[current] = plan.next
        /\ \A s \in Slots \ {current} : maps'[s] = maps[s]
    BY <1>1, <1>2 DEF Untouched, PlanTypes, Maybe
  <1>5. run' \in Runs /\ run'.pc = "idle"
    BY <1>1 DEF Plan!IdleRun, Runs, RunPcs, Maybe
  <1>6. PlanTypes'
    BY <1>1, <1>2, <1>3, <1>4, <1>5 DEF Untouched, PlanTypes, Runs, Maybe
  <1>7. RowFollows' /\ PostsAreOld' /\ RunIsDue' /\ RunIsAwaited' /\ AlarmIsKnown'
    BY <1>1, <1>2, <1>5 DEF Untouched, RowFollows, Since, PostsAreOld, RunIsDue, RunIsAwaited, AlarmIsKnown
  <1>8. MapsAreArmed'
    <2> SUFFICES ASSUME NEW s \in Slots, maps'[s] # NoTime
                 PROVE  Known(maps'[s], plan'.next) /\ (maps'[s] > clock' => alarm' = maps'[s])
      BY DEF MapsAreArmed
    <2>1. CASE s = current
      BY <1>1, <1>2, <1>4, <2>1
    <2>2. CASE s # current
      <3>1. maps'[s] = maps[s] /\ Known(maps[s], plan.next)
        BY <1>4, <2>2 DEF Untouched, MapsAreArmed
      <3>2. maps[s] > clock => maps[s] = plan.next
        BY <3>1, KnownIsNext
      <3> QED
        BY <1>1, <1>2, <3>1, <3>2
    <2> QED
      BY <2>1, <2>2
  <1>9. \A s \in Slots : maps[s] # NoTime => maps'[s] # NoTime
    BY <1>2, <1>4
  <1>10. ASSUME NEW s \in Slots
         PROVE  /\ sync'[s].pc = "listed" => Plan!Runnable(sync'[s].row) /\ Known(sync'[s].row.next, plan.next)
                /\ sync'[s].pc \in {"running", "clearing", "ending"} => maps'[s] # NoTime
    <2>1. CASE sync'[s] = sync[s]
      BY <1>9, <2>1 DEF Untouched, SyncsHaveRow
    <2>2. CASE sync'[s].pc = "idle"
      BY <2>2
    <2>3. CASE run.by = s /\ sync'[s].pc = "clearing"
      <3>1. sync[s].pc = "running"
        BY <1>1, <2>3 DEF Untouched, RunIsAwaited
      <3> QED
        BY <1>9, <2>3, <3>1 DEF Untouched, SyncsHaveRow
    <2> QED
      BY <1>3, <2>1, <2>2, <2>3
  <1>11. SyncsHaveRow'
    BY <1>1, <1>10 DEF SyncsHaveRow, Plan!Runnable
  <1> QED
    BY <1>6, <1>7, <1>8, <1>11 DEF Untouched

\* A run whose completion failed changes neither row nor alarm.
LEMMA RunFailsStep ==
  ASSUME Untouched, Plan!RunFails
  PROVE  Untouched'
  <1>1. /\ run' = Plan!IdleRun /\ Plan!AfterRun(FALSE) /\ UNCHANGED <<clock, plan, alarm, maps, current, posts>>
    BY DEF Plan!RunFails
  <1>2. /\ sync' \in [Slots -> [pc : SyncPcs, row : PlanRows \cup {NoTime}]]
        /\ \A s \in Slots : sync'[s] = sync[s] \/ sync'[s].pc = "idle"
    BY <1>1, AfterRunFacts
  <1>3. run' \in Runs /\ run'.pc = "idle"
    BY <1>1 DEF Plan!IdleRun, Runs, RunPcs, Maybe
  <1>4. PlanTypes'
    BY <1>1, <1>2, <1>3 DEF Untouched, PlanTypes, Runs
  <1>5. RowFollows' /\ PostsAreOld' /\ RunIsDue' /\ RunIsAwaited' /\ AlarmIsKnown' /\ MapsAreArmed'
    BY <1>1, <1>3 DEF Untouched, RowFollows, Since, PostsAreOld, RunIsDue, RunIsAwaited, AlarmIsKnown, MapsAreArmed
  <1>6. SyncsHaveRow'
    BY <1>1, <1>2 DEF Untouched, SyncsHaveRow, Plan!Runnable
  <1> QED
    BY <1>4, <1>5, <1>6 DEF Untouched

\* A killed worker leaves the alarm and the completion it sent.
LEMMA ForgetStep ==
  ASSUME Plan!BoundsAssumption, Untouched, Plan!Forget
  PROVE  Untouched'
  <1> DEFINE p == [last |-> run.last, next |-> run.next]
  <1>1. /\ maps' = [s \in Slots |-> NoTime] /\ sync' = [s \in Slots |-> Plan!IdleSync] /\ run' = Plan!IdleRun
        /\ posts' = IF run.pc = "sent" THEN posts \cup {p} ELSE posts
        /\ UNCHANGED <<clock, plan, alarm, current>>
    BY DEF Plan!Forget
  <1>2. run' \in Runs /\ run'.pc = "idle"
    BY <1>1 DEF Plan!IdleRun, Runs, RunPcs, Maybe
  <1>3. run.pc = "sent" => p \in [last : Nat, next : Int] /\ IsNext(p.next, p.last) /\ p.last <= clock
    <2> SUFFICES ASSUME run.pc = "sent"
                 PROVE  p \in [last : Nat, next : Int] /\ IsNext(p.next, p.last) /\ p.last <= clock
      OBVIOUS
    <2>1. run.last \in Nat /\ run.last <= clock /\ IsNext(run.next, run.last)
      BY DEF Untouched, RunIsDue
    <2>2. run.next \in Int
      BY <2>1, NextMoves
    <2> QED
      BY <2>1, <2>2
  <1> HIDE DEF p
  <1>4. posts' \subseteq [last : Nat, next : Int] /\ PostsAreOld'
    BY <1>1, <1>3 DEF Untouched, PlanTypes, PostsAreOld
  <1>5. Plan!IdleSync \in [pc : SyncPcs, row : PlanRows \cup {NoTime}] /\ Plan!IdleSync.pc = "idle"
    BY DEF Plan!IdleSync, SyncPcs
  <1>6. PlanTypes'
    BY <1>1, <1>2, <1>4, <1>5 DEF Untouched, PlanTypes, Runs, Maybe
  <1>7. RowFollows' /\ RunIsDue' /\ RunIsAwaited' /\ AlarmIsKnown' /\ MapsAreArmed' /\ SyncsHaveRow'
    BY <1>1, <1>2, <1>5 DEF Untouched, RowFollows, Since, RunIsDue, RunIsAwaited, AlarmIsKnown, MapsAreArmed,
                            SyncsHaveRow
  <1> QED
    BY <1>4, <1>6, <1>7 DEF Untouched

\* Time that passes makes no occurrence a coming one again.
LEMMA PlanTick ==
  ASSUME Plan!BoundsAssumption, Untouched, Plan!Tick
  PROVE  Untouched'
  <1>1. clock' = clock + 1 /\ UNCHANGED <<plan, alarm, maps, current, sync, run, posts>>
    BY DEF Plan!Tick
  <1>2. clock \in Nat /\ \A t \in Int : (t <= clock => t <= clock') /\ (t > clock' => t > clock)
    BY <1>1 DEF Untouched, PlanTypes
  <1>3. PlanTypes'
    BY <1>1, <1>2 DEF Untouched, PlanTypes
  <1>4. RowFollows' /\ AlarmIsKnown' /\ SyncsHaveRow' /\ RunIsAwaited'
    BY <1>1, <1>2 DEF Untouched, RowFollows, Since, AlarmIsKnown, SyncsHaveRow, RunIsAwaited, Plan!Runnable
  <1>5. PostsAreOld'
    <2>1. \A p \in posts : p.last \in Int
      BY DEF Untouched, PlanTypes
    <2> QED
      BY <1>1, <1>2, <2>1 DEF Untouched, PostsAreOld
  <1>6. MapsAreArmed'
    <2>1. \A s \in Slots : maps[s] # NoTime => maps[s] \in Int
      BY DEF Untouched, PlanTypes, Maybe
    <2> QED
      BY <1>1, <1>2, <2>1 DEF Untouched, MapsAreArmed
  <1>7. RunIsDue'
    <2>1. run.pc # "idle" => run.seen \in Int
      BY DEF Untouched, RunIsDue, Grid, Plan!BoundsAssumption
    <2> QED
      BY <1>1, <1>2, <2>1 DEF Untouched, RunIsDue
  <1> QED
    BY <1>3, <1>4, <1>5, <1>6, <1>7 DEF Untouched

\* Steps that leave the plan alone keep the invariant.
LEMMA PlanFrame ==
  ASSUME Untouched, UNCHANGED <<clock, plan, alarm, maps, current, sync, run, posts>>
  PROVE  Untouched'
  BY DEF Untouched, PlanTypes, RowFollows, Since, AlarmIsKnown, MapsAreArmed, SyncsHaveRow, RunIsDue,
         RunIsAwaited, PostsAreOld, Plan!Runnable

\* While its owner leaves it alone, a schedule that the idle manager holds for a coming
\* time has its alarm at that time: for any interval, any number of overlapping calls
\* of sync, and any lost, late or refused completions and killed workers.
THEOREM ComingRunsAreArmed == Plan!BoundsAssumption /\ Plan!Spec => []FutureHasAlarm
  <1> SUFFICES ASSUME Plan!BoundsAssumption
               PROVE  Plan!Spec => []FutureHasAlarm
    OBVIOUS
  <1>1. Plan!Init => PlanInv
    <2> SUFFICES ASSUME Plan!Init
                 PROVE  Untouched /\ edits \in Nat
      BY DEF PlanInv
    <2>1. Interval \in Nat \ {0} /\ NoTime \notin Int
      BY DEF Plan!BoundsAssumption
    <2>2. IsNext(1, 0) /\ Grid(1)
      <3>1. 1 = 1 + 0 * Interval
        BY <2>1
      <3>2. Grid(1)
        BY <3>1 DEF Grid
      <3> QED
        BY <2>1, <3>2 DEF IsNext
    <2>3. plan \in PlanRows /\ plan.live /\ plan.active /\ plan.mine /\ plan.next = 1 /\ plan.last = NoTime
      <3>1. plan \in [live : {TRUE}, active : {TRUE}, mine : {TRUE}, next : {1}, last : {NoTime}]
        BY DEF Plan!Init
      <3>2. TRUE \in BOOLEAN /\ 1 \in Maybe /\ NoTime \in Maybe
        BY DEF Maybe
      <3>3. plan.next = 1 /\ plan.last = NoTime
        BY <3>1
      <3>4. plan.live /\ plan.active /\ plan.mine
        BY <3>1
      <3>5. plan \in PlanRows
        BY <3>1, <3>2 DEF PlanRows
      <3> QED
        BY <3>3, <3>4, <3>5
    <2>4. RowFollows
      BY <2>2, <2>3 DEF Plan!Init, RowFollows, Since
    <2>5. Plan!IdleSync \in [pc : SyncPcs, row : PlanRows \cup {NoTime}] /\ Plan!IdleSync.pc = "idle"
      BY DEF Plan!IdleSync, SyncPcs
    <2>6. run \in Runs /\ run.pc = "idle"
      BY DEF Plan!Init, Plan!IdleRun, Runs, RunPcs, Maybe
    <2>7. PlanTypes
      BY <2>3, <2>5, <2>6 DEF Plan!Init, PlanTypes, Runs, Maybe
    <2>8. AlarmIsKnown /\ MapsAreArmed /\ SyncsHaveRow /\ RunIsDue /\ RunIsAwaited /\ PostsAreOld
      BY <2>5, <2>6 DEF Plan!Init, AlarmIsKnown, MapsAreArmed, SyncsHaveRow, RunIsDue, RunIsAwaited, PostsAreOld
    <2> QED
      BY <2>4, <2>7, <2>8 DEF Untouched, Plan!Init
  <1>2. PlanInv /\ [Plan!Next]_(Plan!vars) => PlanInv'
    <2> SUFFICES ASSUME PlanInv, [Plan!Next]_(Plan!vars)
                 PROVE  PlanInv'
      OBVIOUS
    <2>1. edits \in Nat /\ (edits = 0 => Untouched)
      BY DEF PlanInv
    <2>2. ASSUME edits' = edits + 1
          PROVE  PlanInv'
      BY <2>1, <2>2 DEF PlanInv
    <2>3. ASSUME UNCHANGED edits, edits = 0 => Untouched'
          PROVE  PlanInv'
      BY <2>1, <2>3 DEF PlanInv
    <2>4. ASSUME NEW s \in Slots, Plan!StartSync(s) \/ Plan!SyncStep(s) \/ Plan!ListFails(s)
          PROVE  PlanInv'
      <3>1. UNCHANGED edits
        BY <2>4 DEF Plan!SyncStep, Plan!ListFails, Plan!StartSync, Plan!ListSchedules, Plan!SyncRow,
                    Plan!SyncClear, Plan!SyncEnd
      <3>2. ASSUME Untouched, Plan!SyncRow(s)
            PROVE  Untouched'
        <4>1. sync[s].pc = "listed" /\ UNCHANGED <<clock, plan, posts>>
          BY <3>2 DEF Plan!SyncRow
        <4>2. ~Plan!SyncDrops(s)
          BY <3>2, <4>1 DEF Plan!SyncDrops, Untouched, SyncsHaveRow
        <4> QED
          BY <3>2, <4>1, <4>2, SyncArmsStep, SyncCatchesUpStep DEF Plan!SyncRow
      <3> QED
        BY <2>1, <2>3, <2>4, <3>1, <3>2, StartSyncStep, ListStep, SyncClearStep DEF Plan!SyncStep
    <2>5. CASE Plan!AlarmFires
      BY <2>1, <2>3, <2>5, AlarmFiresStep DEF Plan!AlarmFires
    <2>6. CASE Plan!RunStep
      <3>1. UNCHANGED edits
        BY <2>6 DEF Plan!RunStep, Plan!Replay, Plan!Outcome, Plan!CompleteRun, Plan!RunEnds, Plan!RunFails
      <3> QED
        BY <2>1, <2>3, <2>6, <3>1, ReplayStep, OutcomeStep, CompleteRunStep, RunEndsStep, RunFailsStep DEF Plan!RunStep
    <2>7. CASE Plan!PostFails
      BY <2>1, <2>3, <2>7, ReplayStep DEF Plan!PostFails
    <2>8. ASSUME NEW p \in posts, Plan!CompleteLate(p)
          PROVE  PlanInv'
      <3>1. UNCHANGED edits
        BY <2>8 DEF Plan!CompleteLate
      <3> QED
        BY <2>1, <2>3, <2>8, <3>1, CompleteLateStep
    <2>9. CASE Plan!UpdateSchedule \/ Plan!DeleteSchedule \/ Plan!SignOut
      BY <2>2, <2>9 DEF Plan!UpdateSchedule, Plan!DeleteSchedule, Plan!SignOut
    <2>10. CASE Plan!WorkerKilled \/ Plan!IdleKilled
      <3>1. Plan!Forget /\ UNCHANGED edits
        BY <2>10 DEF Plan!WorkerKilled, Plan!IdleKilled, Plan!Forget
      <3> QED
        BY <2>1, <2>3, <3>1, ForgetStep
    <2>11. CASE Plan!Tick
      BY <2>1, <2>3, <2>11, PlanTick DEF Plan!Tick
    <2>12. CASE UNCHANGED Plan!vars
      BY <2>1, <2>3, <2>12, PlanFrame DEF Plan!vars
    <2> QED
      BY <2>4, <2>5, <2>6, <2>7, <2>8, <2>9, <2>10, <2>11, <2>12 DEF Plan!Next
  <1>3. PlanInv => FutureHasAlarm
    BY DEF PlanInv, Untouched, PlanTypes, MapsAreArmed, FutureHasAlarm, Plan!FutureHasAlarm
  <1> QED
    BY <1>1, <1>2, <1>3, PTL DEF Plan!Spec

===============================================================================
