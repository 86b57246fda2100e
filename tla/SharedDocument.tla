---------------------------- MODULE SharedDocument ----------------------------
(***************************************************************************)
(* One collaborative document: the list of its updates, the set of its     *)
(* users and the Socket.IO room, changed by the join, update, leave and    *)
(* disconnect handlers of every session.  With Redis every command is a    *)
(* step of its own; in memory a handler runs on until it really waits.     *)
(* An update is an identifier, a list entry the set of updates it holds.   *)
(***************************************************************************)
EXTENDS Integers, Sequences, FiniteSetsExt

CONSTANTS
    Sessions,
    MaxUpdates,     \* bound: the updates clients can make, numbered as they are made
    Threshold,      \* COMPACTION_THRESHOLD
    MaxExits        \* bound: leaves and disconnects

ASSUME DocumentAssumption ==
    MaxUpdates \in Nat /\ Threshold \in Nat \ {0, 1} /\ MaxExits \in Nat

VARIABLES
    redis,      \* the manager has a Redis client, as configured
    list,       \* the updates key
    users,      \* the users key
    index,      \* the sessions whose reverse index names the document
    room,       \* the room doc_{document_id}
    online,     \* sessions in the pool
    have,       \* what each client's document holds
    work,       \* the handler of each session: [pc, update, copy]
    bye,        \* the step of the disconnect handler of each session
    accepted,   \* history: updates pushed while someone used the document
    owed,       \* history: updates pushed since each session entered the room
    exits

vars == <<redis, list, users, index, room, online, have, work, bye, accepted, owed, exits>>

Updates == 1..MaxUpdates
Content == UNION {list[k] : k \in 1..Len(list)}
Made == UNION {have[s] : s \in Sessions}
IdleWork == [pc |-> "idle", update |-> {}, copy |-> <<>>]
Steps == {"idle", "checked", "added", "entered", "allowed", "pushed", "compact", "copied", "stored",
          "removed", "left", "empty", "cleared"}
Byes == {"no", "index", "removed", "empty", "cleared", "done"}

\* Types; only a session that joined has an update under way.
TypeOK ==
    /\ redis \in BOOLEAN /\ \A k \in 1..Len(list) : list[k] \subseteq Updates
    /\ users \subseteq Sessions /\ index \subseteq Sessions
    /\ room \subseteq online /\ online \subseteq Sessions
    /\ have \in [Sessions -> SUBSET Updates]
    /\ \A s \in Sessions :
         /\ work[s].pc \in Steps /\ work[s].update \subseteq Updates
         /\ work[s].pc \in {"allowed", "pushed", "compact", "copied", "stored"}
              <=> work[s].update # {}
         /\ \A k \in 1..Len(work[s].copy) : work[s].copy[k] \subseteq Updates
         /\ bye[s] \in Byes /\ (bye[s] = "no" <=> s \in online)
    /\ accepted \subseteq Updates /\ owed \in [Sessions -> SUBSET Updates] /\ exits \in 0..MaxExits

Init ==
    /\ redis \in BOOLEAN
    /\ list = <<>> /\ users = {} /\ index = {} /\ room = {} /\ online = Sessions
    /\ have = [s \in Sessions |-> {}]
    /\ work = [s \in Sessions |-> IdleWork]
    /\ bye = [s \in Sessions |-> "no"]
    /\ accepted = {} /\ owed = [s \in Sessions |-> {}] /\ exits = 0

At(s, pc) == work[s].pc = pc
Go(s, pc) == work' = [work EXCEPT ![s].pc = pc]
Finish(s) == work' = [work EXCEPT ![s] = IdleWork]

-----------------------------------------------------------------------------
\* ydoc_document_join finds the session and the note.
JoinCheck(s) ==
    /\ At(s, "idle") /\ s \in online /\ s \notin room
    /\ Go(s, "checked")
    /\ UNCHANGED <<list, users, index, room, online, have, bye, accepted, owed, exits>>

\* add_user
JoinAdd(s) ==
    /\ At(s, "checked")
    /\ users' = users \cup {s} /\ index' = index \cup {s}
    /\ Go(s, "added")
    /\ UNCHANGED <<list, room, online, have, bye, accepted, owed, exits>>

JoinEnterLate(s) ==
    /\ At(s, "added") /\ s \in online
    /\ have' = [have EXCEPT ![s] = @ \cup Content]
    /\ Go(s, "entered")
    /\ UNCHANGED <<list, users, index, room, online, bye, accepted, owed, exits>>

\* enter_room, which fails for a socket that is gone
JoinEnter(s) ==
    /\ At(s, "added")
    /\ IF s \in online THEN room' = room \cup {s} /\ Go(s, "entered")
                       ELSE UNCHANGED room /\ Finish(s)
    /\ UNCHANGED <<list, users, index, online, have, bye, accepted, owed, exits>>

JoinStateLate(s) ==
    /\ At(s, "entered") /\ s \in online
    /\ room' = room \cup {s}
    /\ Finish(s)
    /\ UNCHANGED <<list, users, index, online, have, bye, accepted, owed, exits>>

\* get_updates; the state is sent to the session
JoinState(s) ==
    /\ At(s, "entered")
    /\ have' = IF s \in online THEN [have EXCEPT ![s] = @ \cup Content] ELSE have
    /\ Finish(s)
    /\ UNCHANGED <<list, users, index, room, online, bye, accepted, owed, exits>>

ReadAndEnter(s) == JoinEnterLate(s) \/ JoinStateLate(s)

\* The room comes before the state.
EnterAndRead(s) == JoinEnter(s) \/ JoinState(s)

\* yjs_document_state sends the list once more.
SendState(s) ==
    /\ At(s, "idle") /\ s \in room /\ list # <<>>
    /\ have' = [have EXCEPT ![s] = @ \cup Content]
    /\ UNCHANGED <<list, users, index, room, online, work, bye, accepted, owed, exits>>

\* In memory the three follow each other without a wait.
JoinMemory(s) ==
    /\ At(s, "checked")
    /\ users' = users \cup {s}
    /\ room' = IF s \in online THEN room \cup {s} ELSE room
    /\ have' = IF s \in online THEN [have EXCEPT ![s] = @ \cup Content] ELSE have
    /\ Finish(s)
    /\ UNCHANGED <<list, index, online, bye, accepted, owed, exits>>

-----------------------------------------------------------------------------
\* A client changes its document; yjs_document_update checks room and note.
UpdateCheck(s) ==
    /\ At(s, "idle") /\ s \in room
    /\ Updates # Made
    /\ LET u == Min(Updates \ Made)
       IN /\ have' = [have EXCEPT ![s] = @ \cup {u}]
          /\ work' = [work EXCEPT ![s] = [pc |-> "allowed", update |-> {u}, copy |-> <<>>]]
    /\ UNCHANGED <<list, users, index, room, online, bye, accepted, owed, exits>>

CompactedShort(l) ==
    LET mid == Len(l) \div 2
    IN <<UNION {l[k] : k \in 1..(mid - 1)}>> \o SubSeq(l, mid + 1, Len(l))

\* The list a compaction writes: the older half as one entry.
Compacted(l) ==
    LET mid == Len(l) \div 2
    IN IF Len(l) <= 1 THEN l
       ELSE <<UNION {l[k] : k \in 1..mid}>> \o SubSeq(l, mid + 1, Len(l))

\* What a stored update obliges to.
Owe(s) ==
    /\ accepted' = accepted \cup (IF users # {} THEN work[s].update ELSE {})
    /\ owed' = [t \in Sessions |-> IF t \in room THEN owed[t] \cup work[s].update ELSE owed[t]]

\* append_to_updates: rpush
Push(s) ==
    /\ At(s, "allowed")
    /\ list' = Append(list, work[s].update)
    /\ Owe(s)
    /\ Go(s, "pushed")
    /\ UNCHANGED <<users, index, room, online, have, bye, exits>>

\* llen
Length(s) ==
    /\ At(s, "pushed")
    /\ Go(s, IF Len(list) >= Threshold THEN "compact" ELSE "stored")
    /\ UNCHANGED <<list, users, index, room, online, have, bye, accepted, owed, exits>>

\* _compact_updates_redis: lrange
CompactRead(s) ==
    /\ At(s, "compact")
    /\ work' = [work EXCEPT ![s].copy = list, ![s].pc = IF Len(list) <= 1 THEN "stored" ELSE "copied"]
    /\ UNCHANGED <<list, users, index, room, online, have, bye, accepted, owed, exits>>

\* the pipeline that deletes and rewrites the list
CompactWrite(s) ==
    /\ At(s, "copied")
    /\ list' = Compacted(work[s].copy)
    /\ work' = [work EXCEPT ![s].pc = "stored", ![s].copy = <<>>]
    /\ UNCHANGED <<users, index, room, online, have, bye, accepted, owed, exits>>

\* The same in memory, in one step.
PushMemory(s) ==
    /\ At(s, "allowed")
    /\ LET pushed == Append(list, work[s].update)
       IN list' = IF Len(pushed) >= Threshold THEN Compacted(pushed) ELSE pushed
    /\ Owe(s)
    /\ Go(s, "stored")
    /\ UNCHANGED <<users, index, room, online, have, bye, exits>>

\* The update is sent to the room.
Broadcast(s) ==
    /\ At(s, "stored")
    /\ have' = [t \in Sessions |-> IF t \in room THEN have[t] \cup work[s].update ELSE have[t]]
    /\ Finish(s)
    /\ UNCHANGED <<list, users, index, room, online, bye, accepted, owed, exits>>

-----------------------------------------------------------------------------
\* clear_document forgets the updates; nothing of them is owed any more to the
\* sessions if nobody uses the document.
ClearUpdates ==
    /\ list' = <<>>
    /\ accepted' = IF users = {} THEN {} ELSE accepted

\* yjs_document_leave: remove_user and leave_room
LeaveRemove(s) ==
    /\ At(s, "idle") /\ s \in room /\ exits < MaxExits
    /\ exits' = exits + 1
    /\ users' = users \ {s} /\ index' = index \ {s} /\ room' = room \ {s}
    /\ owed' = [owed EXCEPT ![s] = {}]
    /\ Go(s, "removed")
    /\ UNCHANGED <<list, online, have, bye, accepted>>

\* get_users
LeaveCount(s) ==
    /\ At(s, "removed") /\ redis
    /\ IF users = {} /\ list # <<>> THEN Go(s, "empty") ELSE Finish(s)
    /\ UNCHANGED <<list, users, index, room, online, have, bye, accepted, owed, exits>>

\* clear_document: the updates key, then the users key
LeaveClear(s) ==
    /\ At(s, "empty")
    /\ ClearUpdates /\ Go(s, "cleared")
    /\ UNCHANGED <<users, index, room, online, have, bye, owed, exits>>

LeaveCleared(s) ==
    /\ At(s, "cleared")
    /\ users' = {} /\ Finish(s)
    /\ UNCHANGED <<list, index, room, online, have, bye, accepted, owed, exits>>

\* In memory the count and the clearing are one step.
LeaveMemory(s) ==
    /\ At(s, "removed")
    /\ IF users = {} THEN ClearUpdates ELSE UNCHANGED <<list, accepted>>
    /\ Finish(s)
    /\ UNCHANGED <<users, index, room, online, have, bye, owed, exits>>

-----------------------------------------------------------------------------
\* The socket closes: the rooms forget it, and disconnect takes it from the pool.
Disconnect(s) ==
    /\ s \in online /\ exits < MaxExits
    /\ exits' = exits + 1
    /\ online' = online \ {s} /\ room' = room \ {s}
    /\ owed' = [owed EXCEPT ![s] = {}]
    /\ bye' = [bye EXCEPT ![s] = "index"]
    /\ UNCHANGED <<list, users, index, have, work, accepted>>

\* remove_user_from_all_documents: the documents of the index, srem,
ByeRemove(s) ==
    /\ bye[s] = "index" /\ redis
    /\ IF s \in index THEN users' = users \ {s} /\ bye' = [bye EXCEPT ![s] = "removed"]
                      ELSE bye' = [bye EXCEPT ![s] = "done"] /\ UNCHANGED users
    /\ UNCHANGED <<list, index, room, online, have, work, accepted, owed, exits>>

\* get_users, and the index is deleted at the end,
ByeCount(s) ==
    /\ bye[s] = "removed"
    /\ IF users = {} THEN bye' = [bye EXCEPT ![s] = "empty"] /\ UNCHANGED index
                     ELSE bye' = [bye EXCEPT ![s] = "done"] /\ index' = index \ {s}
    /\ UNCHANGED <<list, users, room, online, have, work, accepted, owed, exits>>

\* clear_document.
ByeClear(s) ==
    /\ bye[s] = "empty"
    /\ ClearUpdates /\ bye' = [bye EXCEPT ![s] = "cleared"]
    /\ UNCHANGED <<users, index, room, online, have, work, owed, exits>>

ByeCleared(s) ==
    /\ bye[s] = "cleared"
    /\ users' = {} /\ index' = index \ {s}
    /\ bye' = [bye EXCEPT ![s] = "done"]
    /\ UNCHANGED <<list, room, online, have, work, accepted, owed, exits>>

\* In memory: one step.
ByeMemory(s) ==
    /\ bye[s] = "index" /\ ~redis
    /\ bye' = [bye EXCEPT ![s] = "done"]
    /\ users' = users \ {s}
    /\ IF s \in users /\ users = {s}
         THEN list' = <<>> /\ accepted' = {}
         ELSE UNCHANGED <<list, accepted>>
    /\ UNCHANGED <<index, room, online, have, work, owed, exits>>

Next == UNCHANGED redis /\ \E s \in Sessions :
    \/ JoinCheck(s) \/ SendState(s) \/ UpdateCheck(s) \/ Broadcast(s) \/ LeaveRemove(s) \/ Disconnect(s)
    \/ redis /\ (JoinAdd(s) \/ EnterAndRead(s) \/ Push(s) \/ Length(s)
                 \/ CompactRead(s) \/ CompactWrite(s) \/ LeaveCount(s) \/ LeaveClear(s)
                 \/ LeaveCleared(s) \/ ByeRemove(s) \/ ByeCount(s) \/ ByeClear(s) \/ ByeCleared(s))
    \/ ~redis /\ (JoinMemory(s) \/ PushMemory(s) \/ LeaveMemory(s) \/ ByeMemory(s))

Spec == Init /\ [][Next]_vars

-----------------------------------------------------------------------------
\* In a single process, every update stored since the document was last unused
\* is in the list while somebody uses it: no compaction, and no leave or
\* disconnect beside a join, drops an update or the list under a user.
NothingLost == ~redis => (users # {} => accepted \subseteq Content)

\* A compaction or an exit may have run.
Disturbed == exits > 0 \/ Cardinality(Made) >= Threshold

\* When no handler is at work, every client in the room has every update stored
\* since it entered, whatever compactions and clearings did to the list, and
\* until the first of these also every earlier one: the order of entering the
\* room and reading the list leaves no gap.
MembersConverge ==
    (\A s \in Sessions : At(s, "idle")) =>
        \A s \in room : owed[s] \cup (IF Disturbed THEN {} ELSE accepted) \subseteq have[s]
=============================================================================
