------------------------------- MODULE Presence -------------------------------
(***************************************************************************)
(* Companion presence of one user in one server process:                   *)
(*   backend/open_webui/socket/companion_presence.py  (MemoryPresenceStore,*)
(*                                    CompanionPresenceSocketService)      *)
(*   src/lib/ted-bot/presence.ts      (publisher and subscriber)           *)
(*                                                                         *)
(* Main windows publish the chat they show; the store keeps one entry per  *)
(* socket with a time to live and selects the active one.  Every change is *)
(* broadcast, with a revision, to the user's sockets; a companion applies  *)
(* only revisions above the last one it applied.                           *)
(*                                                                         *)
(* Everything in the code is keyed by user, so one user is modelled.  Time *)
(* is kept as what is left of each time to live.  An action is one run of  *)
(* the event loop between two awaits that can yield; the store's lock is   *)
(* never held across one.                                                  *)
(***************************************************************************)
EXTENDS Integers, Sequences

CONSTANTS
  Mains,       \* sockets of main windows, which publish
  Companions,  \* sockets of companion windows, which subscribe
  Recs,        \* published records: [chat, focus]; focus is focusedAt, 0 if not focused
  Rank,        \* main socket -> order of its clientId
  TTL,         \* PRESENCE_TTL_SECONDS
  MaxLag,      \* bound: ticks an authorisation read may take
  MaxOverdue,  \* bound: ticks the expiry loop may be late
  Calls,       \* update() calls that can be in authorisation at once
  MaxWaiting,  \* bound: clients' requests are handled while fewer emissions wait
  MaxRevision, \* bound: updates are published below this revision
  None

ASSUME PresenceAssumption ==
  /\ TTL \in Nat \ {0}
  /\ MaxLag \in 0..TTL - 1
  /\ MaxOverdue \in Nat
  /\ MaxWaiting \in Nat /\ MaxRevision \in Nat
  /\ Rank \in [Mains -> Nat]
  /\ \A r \in Recs : r.focus \in Nat
  /\ None \notin Recs \cup Mains
  /\ Mains \cap Companions = {}

VARIABLES
  conn,     \* socket -> "new" | "open" | "closed": its session pool entry
  store,    \* [entries, leases, revision]: the user's part of the store
  reads,    \* call -> its update, between the capture of now and store.update
  lock,     \* the emission lock: "free", or who is inside sio.emit
  waiting,  \* emissions queued on the lock, first come first served
  seen,     \* companion -> revision of the last state it applied
  shown,    \* companion -> active record of the last state it applied
  clean     \* companions connected since the revision counter was last reset

vars == <<conn, store, reads, lock, waiting, seen, shown, clean>>

Sockets == Mains \cup Companions
NoEntry == [rec |-> None, left |-> 0]
Entry   == [rec : Recs, left : -MaxOverdue..TTL]
Store   == [entries : [Mains -> Entry \cup {NoEntry}],
            leases : [Companions -> 0..TTL], revision : Nat]
State   == [active : Recs \cup {None}, revision : Nat]
NoRead  == [sid |-> None, rec |-> None, lag |-> 0]
Read    == [sid : Mains, rec : Recs, lag : 0..MaxLag]
Emitter == {"handler", "loop"}

TypeOK ==
  /\ conn \in [Sockets -> {"new", "open", "closed"}]
  /\ store \in Store
  /\ reads \in [Calls -> Read \cup {NoRead}]
  /\ lock \in {"free"} \cup Emitter
  /\ waiting \in Seq([state : State, by : Emitter])
  /\ seen \in [Companions -> Nat \cup {-1}]
  /\ shown \in [Companions -> Recs \cup {None}]
  /\ clean \subseteq Companions

Init ==
  /\ conn = [i \in Sockets |-> "new"]
  /\ store = [entries |-> [i \in Mains |-> NoEntry],
              leases |-> [k \in Companions |-> 0], revision |-> 0]
  /\ reads = [c \in Calls |-> NoRead]
  /\ lock = "free"
  /\ waiting = << >>
  /\ seen = [k \in Companions |-> -1]
  /\ shown = [k \in Companions |-> None]
  /\ clean = {}

-----------------------------------------------------------------------------
(* The store.  Each operation is a function of the store S; a lease of 0 is *)
(* one that _prune_subscribers has removed or would remove first.           *)

Held(S)  == {i \in Mains : S.entries[i].rec # None}
Fresh(S) == {i \in Held(S) : S.entries[i].left > 0}

\* _active: the focused entry with the latest focus, else the latest update;
\* then the later update, then the larger clientId.
Active(S, among) ==
  LET focused == {i \in among : S.entries[i].rec.focus > 0}
      candidates == IF focused # {} THEN focused ELSE among
      primary(i) == IF focused # {} THEN S.entries[i].rec.focus ELSE S.entries[i].left
      atLeast(i, j) ==
        \/ primary(i) > primary(j)
        \/ /\ primary(i) = primary(j)
           /\ \/ S.entries[i].left > S.entries[j].left
              \/ S.entries[i].left = S.entries[j].left /\ Rank[i] >= Rank[j]
      winners == {i \in candidates : \A j \in candidates : atLeast(i, j)}
  IN  IF winners = {} THEN None ELSE S.entries[CHOOSE i \in winners : TRUE].rec

StateOf(S, among) == [active |-> Active(S, among), revision |-> S.revision]

\* Mutant of DropIdle: only the entries are looked at.
DropWithoutEntries(S) ==
  IF Held(S) = {} THEN [S EXCEPT !.revision = 0] ELSE S

\* _drop_idle_user, after _prune_subscribers.
DropIdle(S) ==
  IF Held(S) = {} /\ \A k \in Companions : S.leases[k] = 0
  THEN [S EXCEPT !.revision = 0] ELSE S

\* Mutant of Without: entries go without a new revision.
WithoutSilently(S, I) ==
  [S EXCEPT !.entries = [i \in Mains |-> IF i \in I THEN NoEntry ELSE S.entries[i]]]

\* The entries of sockets I are deleted; one revision for all of them.
Without(S, I) ==
  IF I \cap Held(S) = {} THEN S
  ELSE [S EXCEPT !.entries = [i \in Mains |-> IF i \in I THEN NoEntry ELSE S.entries[i]],
                 !.revision = @ + 1]

\* update(), with the time that was captured lag ticks ago.
StoreUpdate(S, i, rec, lag) ==
  [S EXCEPT !.entries = [j \in Mains |->
                           IF j = i THEN [rec |-> rec, left |-> TTL - lag]
                           ELSE IF S.entries[j].left + lag <= 0 THEN NoEntry
                           ELSE S.entries[j]],
            !.revision = @ + 1]

StoreSubscribe(S, k) == [S EXCEPT !.leases[k] = TTL]

-----------------------------------------------------------------------------
(* Emission *)

\* The store becomes S; companions connected before a reset are not clean.
Commit(S) ==
  /\ store' = S
  /\ clean' = IF S.revision < store.revision THEN {} ELSE clean

\* onState of the companion's subscriber.
Applies(k, state) == conn[k] = "open" /\ state.revision > seen[k]

\* _emit inside the lock: store.state(), the choice of the state to send, and
\* sio.emit to the user's room; onState in every companion that is connected.
Send(S, state, by) ==
  LET latest  == StateOf(S, Fresh(S))
      ordered == IF latest.revision > state.revision THEN latest ELSE state
  IN  /\ lock' = by
      /\ Commit(DropIdle(S))
      /\ seen' = [k \in Companions |-> IF Applies(k, ordered) THEN ordered.revision ELSE seen[k]]
      /\ shown' = [k \in Companions |-> IF Applies(k, ordered) THEN ordered.active ELSE shown[k]]

\* _emit: sends at once when the lock is free and nobody waits, else queues.
Emit(S, state, by) ==
  \/ /\ lock = "free" /\ waiting = << >>
     /\ Send(S, state, by)
     /\ UNCHANGED waiting
  \/ /\ lock # "free" \/ waiting # << >>
     /\ waiting' = Append(waiting, [state |-> state, by |-> by])
     /\ Commit(S)
     /\ UNCHANGED <<lock, seen, shown>>

\* sio.emit returns and the lock is released.
EmitDone ==
  /\ lock # "free"
  /\ lock' = "free"
  /\ UNCHANGED <<conn, store, reads, waiting, seen, shown, clean>>

\* The first waiter gets the lock.
EmitNext ==
  /\ lock = "free" /\ waiting # << >>
  /\ Send(store, Head(waiting).state, Head(waiting).by)
  /\ waiting' = Tail(waiting)
  /\ UNCHANGED <<conn, reads>>

-----------------------------------------------------------------------------
(* Handlers *)

\* The connect event: the socket joins the user's room; a companion resets its
\* revision and asks to subscribe.
Connect(i) ==
  /\ conn[i] = "new"
  /\ conn' = [conn EXCEPT ![i] = "open"]
  /\ clean' = IF i \in Companions /\ waiting = << >> THEN clean \cup {i} ELSE clean
  /\ UNCHANGED <<store, reads, lock, waiting, seen, shown>>

\* update() with a chat, up to the authorisation read.
UpdateStart(c, i, rec) ==
  /\ conn[i] = "open"
  /\ reads[c] = NoRead
  /\ reads' = [reads EXCEPT ![c] = [sid |-> i, rec |-> rec, lag |-> 0]]
  /\ UNCHANGED <<conn, store, lock, waiting, seen, shown, clean>>

\* update() after it: the socket may have closed in the meantime.
UpdateFinish(c) ==
  LET S == StoreUpdate(store, reads[c].sid, reads[c].rec, reads[c].lag)
  IN  /\ reads[c] # NoRead
      /\ store.revision < MaxRevision /\ Len(waiting) < MaxWaiting
      /\ reads' = [reads EXCEPT ![c] = NoRead]
      /\ Emit(S, StateOf(S, Held(S)), "handler")
      /\ UNCHANGED conn

\* chat_access_denied.
UpdateDenied(c) ==
  /\ reads[c] # NoRead
  /\ reads' = [reads EXCEPT ![c] = NoRead]
  /\ UNCHANGED <<conn, store, lock, waiting, seen, shown, clean>>

\* update() without a chat: clear().
Clear(i) ==
  LET S == Without(store, {i})
  IN  /\ conn[i] = "open"
      /\ Len(waiting) < MaxWaiting
      /\ Emit(DropIdle(S), StateOf(S, Held(S)), "handler")
      /\ UNCHANGED <<conn, reads>>

\* subscribe(): on connect and at every renewal.
Subscribe(k) ==
  LET S == StoreSubscribe(store, k)
  IN  /\ conn[k] = "open"
      /\ Len(waiting) < MaxWaiting
      /\ Emit(S, StateOf(S, Fresh(S)), "handler")
      /\ UNCHANGED <<conn, reads>>

\* subscribe() whose enter_room raises: store.disconnect, and no emission.
SubscribeFail(k) ==
  /\ conn[k] = "open"
  /\ Commit(DropIdle([store EXCEPT !.leases[k] = 0]))
  /\ UNCHANGED <<conn, reads, lock, waiting, seen, shown>>

\* disconnect(): emits only if the socket had an entry.
Disconnect(i) ==
  LET S == IF i \in Companions THEN [store EXCEPT !.leases[i] = 0] ELSE Without(store, {i})
  IN  /\ conn[i] = "open"
      /\ conn' = [conn EXCEPT ![i] = "closed"]
      /\ \/ /\ i \in Held(store)
            /\ Emit(DropIdle(S), StateOf(S, Held(S)), "handler")
         \/ /\ i \notin Held(store)
            /\ Commit(DropIdle(S))
            /\ UNCHANGED <<lock, waiting, seen, shown>>
      /\ UNCHANGED reads

\* Mutant of Expire: only idle users are dropped.
ExpireIdleOnly ==
  /\ Commit(DropIdle(store))
  /\ UNCHANGED <<conn, reads, lock, waiting, seen, shown>>

\* One pass of expiry_loop, once the emission of the pass before is over.
Expire ==
  LET stale == Held(store) \ Fresh(store)
      S     == Without(store, stale)
  IN  /\ lock # "loop" /\ \A n \in DOMAIN waiting : waiting[n].by # "loop"
      /\ \/ /\ stale # {}
            /\ Emit(DropIdle(S), StateOf(S, Held(S)), "loop")
         \/ /\ stale = {}
            /\ Commit(DropIdle(store))
            /\ UNCHANGED <<lock, waiting, seen, shown>>
      /\ UNCHANGED <<conn, reads>>

Tick ==
  /\ \A i \in Held(store) : store.entries[i].left > -MaxOverdue
  /\ \A c \in Calls : reads[c] # NoRead => reads[c].lag < MaxLag
  /\ store' = [store EXCEPT
       !.entries = [i \in Mains |-> IF i \in Held(store)
                                    THEN [store.entries[i] EXCEPT !.left = @ - 1]
                                    ELSE NoEntry],
       !.leases = [k \in Companions |-> IF store.leases[k] > 0 THEN store.leases[k] - 1 ELSE 0]]
  /\ reads' = [c \in Calls |-> IF reads[c] = NoRead THEN NoRead
                               ELSE [reads[c] EXCEPT !.lag = @ + 1]]
  /\ UNCHANGED <<conn, lock, waiting, seen, shown, clean>>

-----------------------------------------------------------------------------
Next ==
  \/ \E i \in Sockets : Connect(i) \/ Disconnect(i)
  \/ \E c \in Calls, i \in Mains, rec \in Recs : UpdateStart(c, i, rec)
  \/ \E c \in Calls : UpdateFinish(c) \/ UpdateDenied(c)
  \/ \E i \in Mains : Clear(i)
  \/ \E k \in Companions : Subscribe(k) \/ SubscribeFail(k)
  \/ Expire \/ EmitDone \/ EmitNext \/ Tick

Spec == Init /\ [][Next]_vars

\* The loop sleeps and runs again, authorisation reads end, sends complete and
\* an asyncio lock goes to its first waiter.
Fairness ==
  /\ WF_vars(Tick) /\ WF_vars(Expire) /\ WF_vars(EmitDone) /\ WF_vars(EmitNext)
  /\ \A c \in Calls : WF_vars(UpdateFinish(c) \/ UpdateDenied(c))

FairSpec == Spec /\ Fairness

-----------------------------------------------------------------------------
(* Properties *)

\* Nothing waits to be sent and nothing waits to expire.
Quiet == waiting = << >> /\ Held(store) = Fresh(store)

\* Once nothing waits to be sent or to expire, a companion connected since the
\* counter was last reset shows the store's active record: in whatever order the
\* handlers, the expiry loop and the queue on the emission lock ran, no change
\* was broadcast under a revision that onState drops, and none went unsent.
QuietCompanionsAgree ==
  \A k \in clean :
    Quiet /\ conn[k] = "open" /\ seen[k] >= 0 => shown[k] = Active(store, Held(store))

\* The revision counter never goes back while some companion holds a lease,
\* whichever handler or pass of the loop finds the user without entries.
LeaseKeepsRevision ==
  [][\A k \in Companions :
       store.leases[k] > 0 /\ store'.leases[k] > 0 => store'.revision >= store.revision]_vars

\* The entry of a socket that closed goes for good, also when an update that was
\* in authorisation put it back after the disconnect.
ClosedSocketsLeave == <>[](\A i \in Held(store) : conn[i] # "closed")

\* "Ted-Bot and the main window show the same active conversation": a connected,
\* subscribed companion shows the active record once nothing waits to be sent.
SubscribersAgree ==
  \A k \in Companions :
    Quiet /\ conn[k] = "open" /\ store.leases[k] > 0 /\ seen[k] >= 0
      => shown[k] = Active(store, Held(store))

=============================================================================
