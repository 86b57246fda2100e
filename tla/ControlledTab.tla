---------------------------- MODULE ControlledTab ----------------------------
(***************************************************************************)
(* The one browser session of the extension, and the debugger that goes    *)
(* with it:                                                                *)
(*   browser-extension/src/background/tab-controller.ts                    *)
(*   browser-extension/src/background/debugger.ts (attach, detach)         *)
(*   browser-extension/src/background/executor.ts (ensureDebugger)         *)
(*   browser-extension/src/background/service-worker.ts (onSessionOpen,    *)
(*     onSessionClose, onDisconnected, session messages)                   *)
(*                                                                         *)
(* Every call of an async method is a handler that runs up to its next     *)
(* await in one step; the handlers interleave at the awaits around the one *)
(* field session.  Messages to the server go through one socket, in order. *)
(***************************************************************************)
EXTENDS Naturals, Sequences, FiniteSets

CONSTANTS
  Tabs,       \* tab ids
  Sessions,   \* session ids, a fresh one for every open of the side panel
  Handlers,   \* the calls that can be in flight at once
  None

\* No name stands for nothing.
TabAssumption == None \notin Sessions \cup Tabs

VARIABLES
  tabState,    \* tab -> unborn, live or gone
  session,     \* SingleTabController.session: [s, tab, follow], or NoSession
  opened,      \* session ids used by open()
  work,        \* handler -> where it waits and what it holds
  connected,   \* transport.status().connected
  wire,        \* requests on their way to the server
  remote,      \* the broker's session of this device: [s, tab], or NoRemote
  facade,      \* DebuggerFacade.tabId
  attached,    \* the tabs Chrome has this extension's debugger attached to
  raced        \* a handler overwrote or cleared the session of another open

tabVars     == <<tabState, opened>>
networkVars == <<connected, wire, remote>>
debugVars   == <<facade, attached>>
vars == <<tabState, session, opened, work, connected, wire, remote, facade, attached, raced>>

NoSession == [s |-> None, tab |-> None, follow |-> FALSE]
Session   == [s : Sessions, tab : Tabs, follow : BOOLEAN]
NoRemote  == [s |-> None, tab |-> None]

\* Where a handler awaits: tabs.get, the answer to an open whose failure clears the
\* session, to an open whose failure does not, or to a close, debugger.attach and
\* the enabling of its domains.
Places == {"idle", "lookup", "opening", "updating", "closing", "attaching", "enabling"}

\* ack: the answer on its way back.  next: the tab a follow or a replacement moves
\* to after the close.
Idle == [pc |-> "idle", ses |-> NoSession, next |-> None, ack |-> "none"]
Work == [pc : Places, ses : Session, next : Tabs \cup {None}, ack : {"none", "ok", "error"}]
          \cup {Idle}

Message == [kind : {"open", "close"}, s : Sessions, tab : Tabs, from : Handlers]

TypeOK ==
  /\ tabState \in [Tabs -> {"unborn", "live", "gone"}]
  /\ session \in Session \cup {NoSession}
  /\ opened \subseteq Sessions
  /\ work \in [Handlers -> Work]
  /\ connected \in BOOLEAN
  /\ wire \in Seq(Message) /\ Len(wire) <= Cardinality(Handlers)
  /\ remote \in [s : Sessions, tab : Tabs] \cup {NoRemote}
  /\ facade \in Tabs \cup {None}
  /\ attached \subseteq Tabs
  /\ raced \in BOOLEAN

Init ==
  /\ tabState \in [Tabs -> {"unborn", "live"}]
  /\ session = NoSession /\ opened = {}
  /\ work = [h \in Handlers |-> Idle]
  /\ connected = TRUE /\ wire = <<>> /\ remote = NoRemote
  /\ facade = None /\ attached = {}
  /\ raced = FALSE

-----------------------------------------------------------------------------
Live == {t \in Tabs : tabState[t] = "live"}

At(h, pc) == work[h].pc = pc

Waits(h, pc, ses, next) ==
  work' = [work EXCEPT ![h] = [pc |-> pc, ses |-> ses, next |-> next, ack |-> "none"]]
Ends(h) == work' = [work EXCEPT ![h] = Idle]

Sends(h, kind, ses) ==
  wire' = Append(wire, [kind |-> kind, s |-> ses.s, tab |-> ses.tab, from |-> h])

\* DebuggerFacade.detach.
Detach ==
  /\ facade' = None
  /\ attached' = attached \ {facade}

\* onSessionOpen(ses), with pc the place where its answer is awaited.
AnnounceOpen(h, pc, ses) ==
  IF connected
  THEN Sends(h, "open", ses) /\ Waits(h, pc, ses, None)
  ELSE Ends(h) /\ UNCHANGED wire

\* Mutant of StartClose: the session is forgotten without telling the server.
StartCloseQuietly(h, next) ==
  /\ session' = NoSession
  /\ work' = [work EXCEPT ![h] = [pc |-> "closing", ses |-> session, next |-> next, ack |-> "ok"]]
  /\ UNCHANGED wire

\* close() of an open session up to its await; offline there is nothing to send.
StartClose(h, next) ==
  /\ session' = NoSession
  /\ work' = [work EXCEPT ![h] = [pc |-> "closing", ses |-> session, next |-> next,
                                 ack |-> IF connected THEN "none" ELSE "ok"]]
  /\ IF connected THEN Sends(h, "close", session) ELSE UNCHANGED wire

-----------------------------------------------------------------------------
(* The side panel *)

\* openActive then open, with no session open: the tab is looked up.
Open(h, s, t, follow) ==
  /\ At(h, "idle")
  /\ session = NoSession
  /\ s \notin opened /\ t \in Live
  /\ opened' = opened \cup {s}
  /\ Waits(h, "lookup", [s |-> s, tab |-> t, follow |-> follow], None)
  /\ UNCHANGED <<tabState, session, networkVars, debugVars, raced>>

\* open of the session and tab that are open: only the policy changes.
Reopen(h, follow) ==
  /\ At(h, "idle")
  /\ session # NoSession
  /\ session' = [session EXCEPT !.follow = follow]
  /\ AnnounceOpen(h, "updating", session')
  /\ UNCHANGED <<tabVars, connected, remote, debugVars, raced>>

\* Stop: close(), which does nothing when no session is open at this moment.
Stop(h) ==
  /\ At(h, "idle")
  /\ session # NoSession
  /\ StartClose(h, None)
  /\ UNCHANGED <<tabVars, connected, remote, debugVars, raced>>

-----------------------------------------------------------------------------
(* The rest of the handlers *)

\* sessionForTab succeeded: the session is set, whatever is open by now.
LookupDone(h) ==
  /\ At(h, "lookup")
  /\ work[h].ses.tab \in Live
  /\ session' = work[h].ses
  /\ AnnounceOpen(h, "opening", work[h].ses)
  /\ raced' = (raced \/ session # NoSession)
  /\ UNCHANGED <<tabVars, connected, remote, debugVars>>

\* sessionForTab throws: the tab is gone, or its page is restricted.
LookupFails(h) ==
  /\ At(h, "lookup")
  /\ Ends(h)
  /\ UNCHANGED <<tabVars, session, networkVars, debugVars, raced>>

\* onSessionOpen returns, or throws in handleUpdated.
OpenAnswered(h) ==
  /\ (At(h, "opening") /\ work[h].ack = "ok") \/ (At(h, "updating") /\ work[h].ack # "none")
  /\ Ends(h)
  /\ UNCHANGED <<tabVars, session, networkVars, debugVars, raced>>

\* onSessionOpen throws in open, handleActivated or handleReplaced: session = null.
OpenRejected(h) ==
  /\ At(h, "opening") /\ work[h].ack = "error"
  /\ session' = NoSession
  /\ raced' = (raced \/ session.s \notin {None, work[h].ses.s})
  /\ Ends(h)
  /\ UNCHANGED <<tabVars, networkVars, debugVars>>

\* The finally of onSessionClose detaches; a follow or a replacement then goes on
\* with the other tab, unless detaching failed.
CloseAnswered(h, ok) ==
  /\ At(h, "closing") /\ work[h].ack = "ok"
  /\ Detach
  /\ IF ok /\ work[h].next # None
     THEN Waits(h, "lookup", [work[h].ses EXCEPT !.tab = work[h].next], None)
     ELSE Ends(h)
  /\ UNCHANGED <<tabVars, session, networkVars, raced>>

-----------------------------------------------------------------------------
(* Chrome's tab events *)

\* handleActivated
Activated(h, t) ==
  /\ At(h, "idle")
  /\ t \in Live
  /\ session # NoSession /\ session.follow /\ session.tab # t
  /\ StartClose(h, t)
  /\ UNCHANGED <<tabVars, connected, remote, debugVars, raced>>

\* Mutant of Gone: nobody listens to onDetach.
GoneUnnoticed(t) ==
  /\ attached' = attached \ {t}
  /\ UNCHANGED facade

\* A tab that is gone takes its debugger with it: onDetach resets the facade.
Gone(t) ==
  /\ attached' = attached \ {t}
  /\ facade' = IF facade = t THEN None ELSE facade

\* handleRemoved
Removed(h, t) ==
  /\ At(h, "idle")
  /\ t \in Live
  /\ tabState' = [tabState EXCEPT ![t] = "gone"]
  /\ Gone(t)
  /\ IF session.tab = t
     THEN StartClose(h, None)
     ELSE UNCHANGED <<session, work, wire>>
  /\ UNCHANGED <<opened, connected, remote, raced>>

\* handleReplaced
Replaced(h, new, old) ==
  /\ At(h, "idle")
  /\ old \in Live /\ tabState[new] = "unborn"
  /\ tabState' = [tabState EXCEPT ![old] = "gone", ![new] = "live"]
  /\ Gone(old)
  /\ IF session.tab = old
     THEN StartClose(h, new)
     ELSE UNCHANGED <<session, work, wire>>
  /\ UNCHANGED <<opened, connected, remote, raced>>

\* handleUpdated: a page that may not be controlled closes the session, another one
\* is announced.
Updated(h, allowed) ==
  /\ At(h, "idle")
  /\ session # NoSession
  /\ IF allowed
     THEN AnnounceOpen(h, "updating", session) /\ UNCHANGED session
     ELSE StartClose(h, None)
  /\ UNCHANGED <<tabVars, connected, remote, debugVars, raced>>

-----------------------------------------------------------------------------
(* The server and the socket *)

Answer(ack) == work' = [work EXCEPT ![Head(wire).from].ack = ack]

\* open_session: one session and one tab per device.
ServerOpens ==
  /\ wire # <<>> /\ Head(wire).kind = "open"
  /\ LET this == [s |-> Head(wire).s, tab |-> Head(wire).tab]
     IN IF remote \in {NoRemote, this}
        THEN remote' = this /\ Answer("ok")
        ELSE UNCHANGED remote /\ Answer("error")
  /\ wire' = Tail(wire)
  /\ UNCHANGED <<tabVars, session, connected, debugVars, raced>>

\* close_session
ServerCloses ==
  /\ wire # <<>> /\ Head(wire).kind = "close"
  /\ remote' = IF remote.s = Head(wire).s THEN NoRemote ELSE remote
  /\ Answer("ok")
  /\ wire' = Tail(wire)
  /\ UNCHANGED <<tabVars, session, connected, debugVars, raced>>

\* The socket is lost: the server drops the session, socket.io rejects what awaits
\* an answer, so that an open clears the session and a close detaches and ends, and
\* onDisconnected detaches the debugger.
Disconnect ==
  /\ connected
  /\ connected' = FALSE
  /\ wire' = <<>> /\ remote' = NoRemote
  /\ LET failing == {h \in Handlers : At(h, "opening")}
     IN /\ session' = IF failing = {} THEN session ELSE NoSession
        /\ raced' = (raced \/ \E h \in failing : session.s \notin {None, work[h].ses.s})
  /\ work' = [h \in Handlers |-> IF work[h].pc \in {"opening", "updating", "closing"}
                                THEN Idle ELSE work[h]]
  /\ Detach
  /\ UNCHANGED <<tabVars>>

Reconnect ==
  /\ ~connected
  /\ connected' = TRUE
  /\ UNCHANGED <<tabVars, session, work, wire, remote, debugVars, raced>>

-----------------------------------------------------------------------------
(* The debugger *)

\* A screenshot, console or network command: ensureDebugger, attach.
Attach(h) ==
  /\ At(h, "idle")
  /\ session # NoSession
  /\ facade = None
  /\ Waits(h, "attaching", session, None)
  /\ UNCHANGED <<tabVars, session, networkVars, debugVars, raced>>

\* Chrome attached the debugger; it refuses a tab that is gone or has one.
AttachDone(h) ==
  /\ At(h, "attaching")
  /\ IF work[h].ses.tab \in Live \ attached
     THEN /\ attached' = attached \cup {work[h].ses.tab}
          /\ facade' = work[h].ses.tab
          /\ Waits(h, "enabling", work[h].ses, None)
     ELSE Ends(h) /\ UNCHANGED debugVars
  /\ UNCHANGED <<tabVars, session, networkVars, raced>>

\* The domains are enabled, or a request fails and attach detaches.
EnableDone(h, ok) ==
  /\ At(h, "enabling")
  /\ ok => facade = work[h].ses.tab
  /\ IF ok THEN UNCHANGED debugVars ELSE Detach
  /\ Ends(h)
  /\ UNCHANGED <<tabVars, session, networkVars, raced>>

\* The user dismisses Chrome's debugging bar.
ChromeDetaches(t) ==
  /\ t \in attached
  /\ Gone(t)
  /\ UNCHANGED <<tabVars, session, work, networkVars, raced>>

-----------------------------------------------------------------------------
PanelStep ==
  \/ \E h \in Handlers, s \in Sessions, t \in Tabs, follow \in BOOLEAN : Open(h, s, t, follow)
  \/ \E h \in Handlers, follow \in BOOLEAN : Reopen(h, follow)
  \/ \E h \in Handlers : Stop(h)

\* The steps a handler in flight takes by itself.
Resume(h) ==
  \/ LookupDone(h) \/ LookupFails(h)
  \/ OpenAnswered(h) \/ OpenRejected(h)
  \/ \E ok \in BOOLEAN : CloseAnswered(h, ok)
  \/ AttachDone(h) \/ \E ok \in BOOLEAN : EnableDone(h, ok)

ServerStep == ServerOpens \/ ServerCloses

EventStep ==
  \/ \E h \in Handlers, t \in Tabs : Activated(h, t) \/ Removed(h, t)
  \/ \E h \in Handlers, new, old \in Tabs : Replaced(h, new, old)
  \/ \E h \in Handlers, allowed \in BOOLEAN : Updated(h, allowed)
  \/ \E h \in Handlers : Attach(h)
  \/ \E t \in Tabs : ChromeDetaches(t)
  \/ Disconnect \/ Reconnect

Next == PanelStep \/ (\E h \in Handlers : Resume(h)) \/ ServerStep \/ EventStep

Spec == Init /\ [][Next]_vars

-----------------------------------------------------------------------------
(* Properties *)

Quiet == \A h \in Handlers : At(h, "idle")

\* When nothing is in flight the server holds this extension's session or none,
\* with the right tab, unless a handler overwrote or cleared another's session:
\* those two lines, LookupDone's and OpenRejected's, are the only way to a server
\* that refuses every further open as single_tab_only.
ServerHoldsOurs ==
  Quiet /\ ~raced => remote \in {NoRemote, [s |-> session.s, tab |-> session.tab]}

\* The facade never believes in a debugger Chrome does not have: what it refuses as
\* second_tab_denied is really attached.
FacadeIsAttached == facade # None => facade \in attached

=============================================================================
