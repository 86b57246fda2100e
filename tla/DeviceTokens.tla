----------------------------- MODULE DeviceTokens -----------------------------
(***************************************************************************)
(* Pairing a browser and rotating its refresh credential:                  *)
(*   backend/open_webui/routers/browser_extension.py (pairing, refresh,    *)
(*     revoke)                                                             *)
(*   backend/open_webui/models/browser_extension.py (grants, devices)      *)
(*   browser-extension/src/background/auth.ts, lifecycle.ts                *)
(*                                                                         *)
(* One extension, no one else holds its credentials.  A request is read by *)
(* the server, and acts in a conditional update of its own; its connection *)
(* may be lost at any time while the server goes on, and so may the        *)
(* service worker, which keeps only what is in chrome.storage.             *)
(* A device is named by the grant or claim it comes from; its credentials  *)
(* are numbered in the order they are made.                                *)
(***************************************************************************)
EXTENDS Integers, FiniteSets

CONSTANTS
  Devices,    \* pairings; bounds how often the user pairs
  Requests,   \* the requests that can be under way at once
  MaxTokens,  \* bound on the credentials made for a device
  Grace,      \* ROTATION_GRACE_SECONDS
  MaxTime,    \* bound on the clock
  None

\* What the bounds are.
TokenAssumption ==
  /\ MaxTokens \in Nat \ {0} /\ Grace \in Nat /\ MaxTime \in Nat
  /\ None \notin Devices

VARIABLES
  now,
  grant,      \* device -> state of its pairing grant
  created,    \* device -> how often a device was made from the grant
  row,        \* device -> [state, cur, prev, at]: the paired device
  minted,     \* device -> credentials made so far
  req,        \* request -> what it is, where it is, and its answer
  pairing,    \* devices whose grant the live worker polls
  mem,        \* BrowserAuth.credential
  stored,     \* chrome.storage.local
  replayed,   \* devices revoked by replay detection
  overlapped, \* devices that had two refreshes at the server at once
  late        \* devices whose rotated credential came back after the grace window

serverVars == <<grant, created, row, minted>>
clientVars == <<pairing, mem, stored>>
vars == <<now, grant, created, row, minted, req, pairing, mem, stored, replayed, overlapped, late>>

historyVars == <<replayed, overlapped, late>>

NoToken == 0
Tokens  == 1..MaxTokens
NoCred  == [dev |-> None, tok |-> NoToken]
Cred    == [dev : Devices, tok : Tokens]

NoRow == [state |-> "none", cur |-> NoToken, prev |-> NoToken, at |-> 0]
Row   == [state : {"active", "revoked"}, cur : Tokens, prev : Tokens \cup {NoToken}, at : 0..MaxTime]

\* pc: on its way; at the server before its update; answered; and in the client
\* between storage.set and the assignment.  live: the worker still waits for it.
NoRequest == [kind |-> "none", pc |-> "idle", dev |-> None, tok |-> NoToken,
              answer |-> "none", live |-> FALSE]
Request ==
  [kind : {"exchange", "claim", "refresh"},
   pc : {"sent", "consume", "rotate", "restore", "revoke", "answered", "remember"},
   dev : Devices, tok : Tokens \cup {NoToken},
   answer : {"none", "token", "pending", "denied"}, live : BOOLEAN] \cup {NoRequest}

TypeOK ==
  /\ now \in 0..MaxTime
  /\ grant \in [Devices -> {"none", "pending", "approved", "denied", "expired", "consumed",
                         "claimed"}]
  /\ created \in [Devices -> 0..2]
  /\ row \in [Devices -> Row \cup {NoRow}]
  /\ minted \in [Devices -> 0..MaxTokens]
  /\ req \in [Requests -> Request]
  /\ pairing \subseteq Devices
  /\ {mem, stored} \subseteq Cred \cup {NoCred}
  /\ replayed \subseteq Devices /\ overlapped \subseteq Devices /\ late \subseteq Devices

Init ==
  /\ now = 0
  /\ grant = [d \in Devices |-> "none"]
  /\ created = [d \in Devices |-> 0]
  /\ row = [d \in Devices |-> NoRow]
  /\ minted = [d \in Devices |-> 0]
  /\ req = [r \in Requests |-> NoRequest]
  /\ pairing = {} /\ mem = NoCred /\ stored = NoCred
  /\ replayed = {} /\ overlapped = {} /\ late = {}

-----------------------------------------------------------------------------
At(r, kind, pc) == req[r].kind = kind /\ req[r].pc = pc
Free(r)         == req[r] = NoRequest

Send(r, kind, d, t) ==
  req' = [req EXCEPT ![r] = [kind |-> kind, pc |-> "sent", dev |-> d, tok |-> t,
                             answer |-> "none", live |-> TRUE]]
Goes(r, pc)      == req' = [req EXCEPT ![r].pc = pc]
Answers(r, a, t) == req' = [req EXCEPT ![r].pc = "answered", ![r].answer = a, ![r].tok = t]
Done(r)          == req' = [req EXCEPT ![r] = NoRequest]

\* Refreshes of d that the server has not finished.
Underway(d) == {r \in Requests : req[r].kind = "refresh" /\ req[r].dev = d
                                 /\ req[r].pc \in {"sent", "rotate", "restore", "revoke"}}

-----------------------------------------------------------------------------
(* Pairing *)

\* start_pairing and beginPairing
StartPairing(d) ==
  /\ grant[d] = "none"
  /\ grant' = [grant EXCEPT ![d] = "pending"]
  /\ pairing' = pairing \cup {d}
  /\ UNCHANGED <<now, created, row, minted, req, mem, stored, historyVars>>

\* approve_pairing: the conditional updates approve and deny.
Decide(d, approved) ==
  /\ grant[d] = "pending"
  /\ grant' = [grant EXCEPT ![d] = IF approved THEN "approved" ELSE "denied"]
  /\ UNCHANGED <<now, created, row, minted, req, clientVars, historyVars>>

\* expires_at passes.
ExpireGrant(d) ==
  /\ grant[d] \in {"pending", "approved"}
  /\ grant' = [grant EXCEPT ![d] = "expired"]
  /\ UNCHANGED <<now, created, row, minted, req, clientVars, historyVars>>

\* pollPairing; two starts of one worker can poll the same grant.
Poll(r, d) ==
  /\ d \in pairing
  /\ Free(r)
  /\ Send(r, "exchange", d, NoToken)
  /\ UNCHANGED <<now, serverVars, clientVars, historyVars>>

\* exchange_pairing_token up to consume.
Exchange(r) ==
  /\ At(r, "exchange", "sent")
  /\ CASE grant[req[r].dev] = "pending"  -> Answers(r, "pending", NoToken)
       [] grant[req[r].dev] = "approved" -> Goes(r, "consume")
       [] OTHER                          -> Answers(r, "denied", NoToken)
  /\ UNCHANGED <<now, serverVars, clientVars, historyVars>>

\* _create_paired_device
Create(r, d) ==
  /\ row' = [row EXCEPT ![d] = [state |-> "active", cur |-> 1, prev |-> NoToken, at |-> 0]]
  /\ minted' = [minted EXCEPT ![d] = 1]
  /\ created' = [created EXCEPT ![d] = IF @ < 2 THEN @ + 1 ELSE 2]
  /\ Answers(r, "token", 1)

\* Mutant of CanConsume: what the first read said is believed.
CanConsumeRead(d) == TRUE

\* The condition of consume's update.
CanConsume(d) == grant[d] = "approved"

\* consume, and the device; ok is false when every label is taken.
Consume(r, ok) ==
  /\ At(r, "exchange", "consume")
  /\ LET d == req[r].dev
     IN IF CanConsume(d)
        THEN /\ grant' = [grant EXCEPT ![d] = "consumed"]
             /\ IF ok THEN Create(r, d)
                      ELSE Answers(r, "denied", NoToken) /\ UNCHANGED <<created, row, minted>>
        ELSE Answers(r, "denied", NoToken) /\ UNCHANGED serverVars
  /\ UNCHANGED <<now, clientVars, historyVars>>

\* claimWithSession and claim_pairing_with_session: no grant, the name is taken.
Claim(r, d) ==
  /\ Free(r)
  /\ mem = NoCred
  /\ grant[d] = "none"
  /\ grant' = [grant EXCEPT ![d] = "claimed"]
  /\ Send(r, "claim", d, NoToken)
  /\ UNCHANGED <<now, created, row, minted, clientVars, historyVars>>

ClaimServed(r) ==
  /\ At(r, "claim", "sent")
  /\ Create(r, req[r].dev)
  /\ UNCHANGED <<now, grant, clientVars, historyVars>>

-----------------------------------------------------------------------------
(* Refresh, at the server *)

\* refresh_device_token: the row is read and compared with the credential.
ReadDevice(r) ==
  /\ At(r, "refresh", "sent")
  /\ LET d == req[r].dev
         t == req[r].tok
     IN /\ CASE row[d].state # "active" -> Answers(r, "denied", NoToken)
             [] row[d].state = "active" /\ t = row[d].cur -> Goes(r, "rotate")
             [] row[d].state = "active" /\ t # row[d].cur /\ t = row[d].prev -> Goes(r, "restore")
             [] OTHER -> Goes(r, "revoke")
        /\ late' = IF t = row[d].prev /\ row[d].at + Grace < now THEN late \cup {d} ELSE late
  /\ UNCHANGED <<now, serverVars, clientVars, replayed, overlapped>>

\* Mutant of CanRotate: the update does not look at revoked_at.
CanRotateRevoked(d, t) == row[d].cur = t

\* The condition of rotate_refresh_token.
CanRotate(d, t) == row[d].cur = t /\ row[d].state = "active"

Rotate(r) ==
  /\ At(r, "refresh", "rotate")
  /\ LET d == req[r].dev
         t == req[r].tok
     IN IF CanRotate(d, t)
        THEN /\ minted[d] < MaxTokens
             /\ minted' = [minted EXCEPT ![d] = @ + 1]
             /\ row' = [row EXCEPT ![d].cur = minted[d] + 1, ![d].prev = t, ![d].at = now]
             /\ Answers(r, "token", minted[d] + 1)
        ELSE Goes(r, "revoke") /\ UNCHANGED <<row, minted>>
  /\ UNCHANGED <<now, grant, created, clientVars, historyVars>>

\* Mutant of CanRestore: the boundary of the window is not in it.
CanRestoreStrictly(d, t) ==
  /\ row[d].state = "active"
  /\ row[d].prev = t
  /\ row[d].at > now - Grace

\* The condition of restore_rotated_refresh_token.
CanRestore(d, t) ==
  /\ row[d].state = "active"
  /\ row[d].prev = t
  /\ row[d].at >= now - Grace

\* restore_rotated_refresh_token: back to the credential the client has.
Restore(r) ==
  /\ At(r, "refresh", "restore")
  /\ LET d == req[r].dev
         t == req[r].tok
     IN IF CanRestore(d, t)
        THEN /\ row' = [row EXCEPT ![d].cur = t, ![d].prev = NoToken, ![d].at = 0]
             /\ Answers(r, "token", t)
             /\ UNCHANGED late
        ELSE /\ Goes(r, "revoke")
             /\ late' = IF row[d].at + Grace < now THEN late \cup {d} ELSE late
             /\ UNCHANGED row
  /\ UNCHANGED <<now, grant, created, minted, clientVars, replayed, overlapped>>

\* revoke_token_family after a replay.
RevokeFamily(r) ==
  /\ At(r, "refresh", "revoke")
  /\ LET d == req[r].dev
     IN /\ row' = [row EXCEPT ![d].state = "revoked"]
        /\ replayed' = IF row[d].state = "active" THEN replayed \cup {d} ELSE replayed
  /\ Answers(r, "denied", NoToken)
  /\ UNCHANGED <<now, grant, created, minted, clientVars, overlapped, late>>

\* revoke_paired_device, a permission or an origin withdrawn at the next refresh.
RevokeDevice(d) ==
  /\ row[d].state = "active"
  /\ row' = [row EXCEPT ![d].state = "revoked"]
  /\ UNCHANGED <<now, grant, created, minted, req, clientVars, historyVars>>

-----------------------------------------------------------------------------
(* The client *)

\* storage.set is not acknowledged yet: what reads the storage comes after it.
Storing == \E r \in Requests : req[r].pc = "remember"

Refreshing == \E r \in Requests : req[r].kind = "refresh" /\ req[r].live

\* getAccessToken or restore() find no refresh under way and start one, with the
\* credential in memory, or the one in storage.
Refresh(r, cred) ==
  /\ cred = mem \/ (cred = stored /\ ~Storing)
  /\ cred # NoCred
  /\ Free(r) /\ ~Refreshing
  /\ mem' = cred
  /\ Send(r, "refresh", cred.dev, cred.tok)
  /\ overlapped' = IF Underway(cred.dev) # {} THEN overlapped \cup {cred.dev} ELSE overlapped
  /\ UNCHANGED <<now, serverVars, pairing, stored, replayed, late>>

\* restore() joins the refresh under way.
JoinRefresh ==
  /\ Refreshing /\ ~Storing
  /\ mem' = stored
  /\ UNCHANGED <<now, serverVars, req, pairing, stored, historyVars>>

\* The answer arrives.  A token goes to storage first; a refused refresh signs out.
Deliver(r) ==
  /\ req[r].live /\ req[r].pc = "answered"
  /\ CASE req[r].answer = "token" ->
            /\ stored' = [dev |-> req[r].dev, tok |-> req[r].tok]
            /\ Goes(r, "remember")
            /\ UNCHANGED mem
       [] req[r].answer = "denied" /\ req[r].kind = "refresh" ->
            stored' = NoCred /\ mem' = NoCred /\ Done(r)
       [] OTHER -> Done(r) /\ UNCHANGED <<mem, stored>>
  /\ pairing' = IF req[r].kind = "exchange" /\ req[r].answer # "pending"
                THEN pairing \ {req[r].dev} ELSE pairing
  /\ UNCHANGED <<now, serverVars, historyVars>>

\* applyTokenResponse after storage.set.
Remember(r) ==
  /\ req[r].live /\ req[r].pc = "remember"
  /\ mem' = [dev |-> req[r].dev, tok |-> req[r].tok]
  /\ Done(r)
  /\ UNCHANGED <<now, serverVars, pairing, stored, historyVars>>

\* The connection of a request is lost: fetch fails, the server may go on.
LoseConnection(r) ==
  /\ req[r].live /\ req[r].pc # "remember"
  /\ req' = [req EXCEPT ![r].live = FALSE]
  /\ UNCHANGED <<now, serverVars, clientVars, historyVars>>

\* Nobody waits: a request that did not get there, or an answer, is gone.
Vanish(r) ==
  /\ ~req[r].live /\ req[r].pc \in {"sent", "answered"}
  /\ Done(r)
  /\ UNCHANGED <<now, serverVars, clientVars, historyVars>>

\* Chrome stops the service worker.
WorkerKilled ==
  /\ mem' = NoCred /\ pairing' = {}
  /\ req' = [r \in Requests |-> IF req[r].pc = "remember" \/ Free(r) THEN NoRequest
                                ELSE [req[r] EXCEPT !.live = FALSE]]
  /\ UNCHANGED <<now, serverVars, stored, historyVars>>

Tick ==
  /\ now < MaxTime
  /\ now' = now + 1
  /\ UNCHANGED <<serverVars, req, clientVars, historyVars>>

-----------------------------------------------------------------------------
PairingStep ==
  \/ \E d \in Devices : StartPairing(d) \/ ExpireGrant(d) \/ (\E a \in BOOLEAN : Decide(d, a))
  \/ \E r \in Requests, d \in Devices : Poll(r, d) \/ Claim(r, d)

\* The server's steps for a request.
Serve(r) ==
  \/ Exchange(r) \/ ClaimServed(r) \/ (\E ok \in BOOLEAN : Consume(r, ok))
  \/ ReadDevice(r) \/ Rotate(r) \/ Restore(r) \/ RevokeFamily(r)

StartRefresh == \E r \in Requests, c \in {mem, stored} : Refresh(r, c)

ClientStep ==
  \/ StartRefresh \/ JoinRefresh
  \/ \E r \in Requests : Deliver(r) \/ Remember(r) \/ LoseConnection(r) \/ Vanish(r)
  \/ WorkerKilled

Next ==
  \/ PairingStep
  \/ \E r \in Requests : Serve(r)
  \/ ClientStep
  \/ \E d \in Devices : RevokeDevice(d)
  \/ Tick

Spec == Init /\ [][Next]_vars

-----------------------------------------------------------------------------
(* Properties *)

\* A pairing grant makes one device, however many exchanges race for it (design:
\* "The consumed grant can never be exchanged again").
GrantUsedOnce == \A d \in Devices : created[d] <= 1

\* A lost answer or a killed worker alone never costs a pairing: replay detection
\* revokes a device only when two of its refreshes were at the server at once, or
\* when the retry came after the grace window.
LostAnswersAreForgiven == replayed \subseteq overlapped \cup late

\* A revoked device stays revoked, and no request is answered with a credential
\* after the revocation, also one that read the row before it.
RevokedGetsNothing ==
  [][\A d \in Devices : row[d].state = "revoked" =>
       /\ row'[d].state = "revoked"
       /\ \A r \in Requests : req'[r].dev = d /\ req'[r].answer = "token" => req[r].answer = "token"]_vars

=============================================================================
