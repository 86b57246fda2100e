------------------------------- MODULE ChatTree -------------------------------
(***************************************************************************)
(* The messages of one chat.  They are kept twice: as a tree in the JSON   *)
(* of the chat row, and as rows of the chat_message table.  Browser tabs   *)
(* hold copies of the tree; they send, save, delete and load, and each     *)
(* request is a transaction on the JSON followed by writes of rows.        *)
(***************************************************************************)
EXTENDS Integers, SequencesExt, Selection

CONSTANTS
    Tabs,
    MaxMessages,    \* bound on the messages of the chat
    Locked,         \* PostgreSQL: a transaction locks the row it reads
    MaxRequests,    \* bound on the requests of the tabs
    MaxFaults       \* bound on the row writes that fail

\* What is assumed of the constants.
TreeAssumption ==
    /\ MaxMessages \in Nat /\ MaxMessages >= 2 /\ MaxRequests \in Nat /\ MaxFaults \in Nat
    /\ Locked \in BOOLEAN

VARIABLES
    blob,       \* chat.history; summary and untimed are the messages with a
                \* contextSummary and those with an output but no timestamp
    rows,       \* chat_message: the parent of each message, or Absent
    copy,       \* the history each tab shows
    req,        \* the request each tab has under way
    created,    \* messages created so far; ids are given in order
    deleted,    \* history: messages some request deleted
    overwritten,\* history: messages missing from a history a load wrote back
    requests, faults

vars == <<blob, rows, copy, req, created, deleted, overwritten, requests, faults>>

Ids == 1..MaxMessages
None == 0               \* parentId: null, currentId: null
Absent == -1            \* no row
Unset == -2             \* the update does not carry the field
Stored(h) == Range(h.order)
Idle == [at |-> "idle"]
Quiet == \A t \in Tabs : req[t] = Idle

Blank == [i \in Ids |-> <<>>]
FirstPair ==
    [order |-> <<1, 2>>, parent |-> [i \in Ids |-> IF i = 2 THEN 1 ELSE None],
     children |-> [Blank EXCEPT ![1] = <<2>>], current |-> 2, summary |-> {}, untimed |-> {}]

\* The chats a behaviour begins with: a pair, one whose reply was compacted, and
\* one whose reply was stored without parent and timestamp.
Stray == [FirstPair EXCEPT !.parent = [i \in Ids |-> None], !.children = Blank, !.untimed = {2}]
Starts == {FirstPair, [FirstPair EXCEPT !.summary = {2}], Stray}

-----------------------------------------------------------------------------
\* The message reached from i by the last child of S again and again.
LastBelow(h, S, i) ==
    LET below[x \in Ids] ==
            LET children == Only(h.children[x], S)
            IN IF children = <<>> THEN x ELSE below[Last(children)]
    IN below[i]

\* The current message when the one below i is wanted.
Landing(h, i) ==
    LET below == LastBelow(h, Ids, i) IN IF i # None /\ below \in Stored(h) THEN below ELSE None

\* current_is_bad_leaf: a reply that has lost its place.
BadLeaf(h) == h.current \in h.untimed /\ h.parent[h.current] = None /\ Len(h.order) > 1

\* The leaf with the latest timestamp; a later message has a later one.
LatestLeaf(h) ==
    LET leaves == Only(h.order, {i \in Ids : h.children[i] = <<>>})
        timed == Range(leaves) \ h.untimed
    IN IF timed # {} THEN Max(timed) ELSE IF leaves # <<>> THEN Head(leaves) ELSE h.current

\* _repair_chat_current_id: a current message that does not exist, or a bad
\* leaf, becomes the latest leaf; a compacted one the last one below it.
Repair(h) ==
    [h EXCEPT !.current =
        IF h.current \notin Stored(h) \/ BadLeaf(h) THEN LatestLeaf(h)
        ELSE IF h.current \in h.summary THEN LastBelow(h, Stored(h), h.current) ELSE h.current]

\* upsert_message_to_history
Upsert(h, i, parent, children) ==
    IF i \in Stored(h)
    THEN [h EXCEPT !.parent[i] = IF parent = Unset THEN @ ELSE parent,
                   !.children[i] = children]
    ELSE LET claims == Only(h.order, {x \in Ids : Contains(h.children[x], i)})
             above == IF parent \notin {Unset, None} THEN parent
                      ELSE IF claims = <<>> THEN None ELSE Head(claims)
         IN [order |-> Append(h.order, i), parent |-> [h.parent EXCEPT ![i] = above],
             children |-> [h.children EXCEPT ![i] = children], current |-> i,
             summary |-> h.summary, untimed |-> h.untimed]

\* The same for an update that carries only a contextSummary.
Summarise(h, i) ==
    [(IF i \in Stored(h) THEN h ELSE Upsert(h, i, Unset, <<>>)) EXCEPT !.summary = @ \cup {i}]

MergeReplaces(old, new) == new

\* merge_history: the messages of both, the incoming one where both have it,
\* and the lists of children made anew from the parents.
Merge(old, new) ==
    LET order == old.order \o Only(new.order, Ids \ Stored(old))
        parent == [i \in Ids |-> IF i \in Stored(new) THEN new.parent[i] ELSE old.parent[i]]
    IN [order |-> order, parent |-> parent,
        children |-> [p \in Ids |-> IF p \in Range(order) THEN Only(order, {i \in Ids : parent[i] = p}) ELSE <<>>],
        current |-> IF new.current \in Range(order) THEN new.current
                    ELSE IF old.current \in Range(order) THEN old.current ELSE None,
        summary |-> (old.summary \ Stored(new)) \cup new.summary,
        untimed |-> (old.untimed \ Stored(new)) \cup new.untimed]

Keep(h, gone) ==
    [h EXCEPT !.order = Only(@, Ids \ gone),
              !.parent = [i \in Ids |-> IF i \in gone THEN None ELSE @[i]],
              !.children = [i \in Ids |-> IF i \in gone THEN <<>> ELSE @[i]],
              !.summary = @ \ gone, !.untimed = @ \ gone]

\* What delete_message_from_history removes: the message and its children.
Removed(h, m) ==
    IF m \in Stored(h) THEN {m} \cup (Range(h.children[m]) \cap Stored(h)) ELSE {}

\* delete_message_from_history: the grandchildren move up to the parent, and
\* the current message is the last one below it.
Delete(h, m) ==
    LET p == h.parent[m]
        grand == FlattenSeq([k \in DOMAIN h.children[m] |->
                    Only(h.children[h.children[m][k]], Stored(h))])
        moved == [h EXCEPT
            !.children = [i \in Ids |-> IF i = p THEN Only(@[i], Ids \ {m}) \o grand ELSE @[i]],
            !.parent = [i \in Ids |-> IF Contains(grand, i) THEN p ELSE @[i]]]
        kept == Keep(moved, Removed(h, m))
        roots == Only(kept.order, {i \in Ids : kept.parent[i] = None})
        from == IF p # None THEN p ELSE IF roots = <<>> THEN None ELSE Last(roots)
    IN IF Removed(h, m) = {} THEN h
       ELSE [kept EXCEPT !.current = Landing(kept, from)]

-----------------------------------------------------------------------------
IsHistory(h) ==
    /\ IsInjective(h.order) /\ Stored(h) \subseteq Ids
    /\ DOMAIN h.parent = Ids /\ DOMAIN h.children = Ids
    /\ h.summary \cup h.untimed \subseteq Stored(h)
    /\ \A i \in Ids \ Stored(h) : h.parent[i] = None

\* Types; a message that is not stored has no parent.
TypeOK ==
    /\ IsHistory(blob) /\ \A t \in Tabs : IsHistory(copy[t])
    /\ rows \in [Ids -> Ids \cup {None, Absent}]
    /\ created \in Ids /\ deleted \cup overwritten \subseteq 1..created
    /\ requests \in 0..MaxRequests /\ faults \in 0..MaxFaults

Init ==
    /\ blob \in Starts
    /\ rows = [i \in Ids |-> IF i \in {1, 2} THEN blob.parent[i] ELSE Absent]
    /\ copy = [t \in Tabs |-> blob]
    /\ req = [t \in Tabs |-> Idle]
    /\ created = 2 /\ deleted = {} /\ overwritten = {} /\ requests = 0 /\ faults = 0

\* A tab without a request under way makes one.
Ready(t) == req[t] = Idle /\ requests < MaxRequests /\ requests' = requests + 1

\* The tab adds a prompt and a reply below the current message to its copy.
WithPair(h, u) ==
    LET p == h.current
        linked == IF p = None THEN h.children ELSE [h.children EXCEPT ![p] = Append(@, u)]
    IN [order |-> h.order \o <<u, u + 1>>,
        parent |-> [h.parent EXCEPT ![u] = p, ![u + 1] = u],
        children |-> [linked EXCEPT ![u] = <<u + 1>>], current |-> u + 1,
        summary |-> h.summary, untimed |-> h.untimed]

\* A transaction on the history: an upsert of message i, a merge of the tab's
\* copy or a delete of i; the step of the request that follows it; and the
\* user message the request is about.
Tx(op, i, parent, children, then, u) ==
    [at |-> "begin", op |-> op, id |-> i, parent |-> parent, children |-> children, then |-> then,
     user |-> u, seen |-> FirstPair, ids |-> {}, gone |-> {}]

\* The chat was loaded: the tab shows it, or the compaction of the branch of its
\* current message begins.
Loaded(t, h, then) ==
    /\ copy' = [copy EXCEPT ![t] = IF then = "show" THEN h ELSE @]
    /\ req' = [req EXCEPT ![t] =
           IF then = "compact" /\ h.current # None /\ h.parent[h.current] # None
           THEN Tx("summary", h.current, None, <<>>, "end", None) ELSE Idle]

\* get_chat_by_id reads the row without locking it.  A history that needs no
\* repair is not written.
Load(t, then) ==
    /\ Ready(t) /\ (then = "show" => copy[t] # Repair(blob))
    /\ IF Repair(blob) = blob
       THEN Loaded(t, blob, then)
       ELSE /\ req' = [req EXCEPT ![t] = [Tx("load", None, None, <<>>, then, None)
                                         EXCEPT !.at = "repaired", !.seen = Repair(blob)]]
            /\ UNCHANGED copy
    /\ UNCHANGED <<blob, rows, created, deleted, overwritten, faults>>

\* The repaired history is written whole, once nobody has the row locked, over
\* whatever was committed since it was read.
LoadWrite(t) ==
    LET r == req[t]
    IN /\ r.at = "repaired"
       /\ (~Locked \/ \A u \in Tabs : req[u].at # "tx")
       /\ blob' = r.seen
       /\ overwritten' = overwritten \cup (Stored(blob) \ Stored(r.seen))
       /\ Loaded(t, r.seen, r.then)
       /\ UNCHANGED <<rows, created, deleted, requests, faults>>

\* The completion endpoint is called; the user message is stored first.
Send(t) ==
    /\ Ready(t) /\ created + 2 <= MaxMessages
    /\ copy' = [copy EXCEPT ![t] = WithPair(@, created + 1)]
    /\ req' = [req EXCEPT ![t] = Tx("upsert", created + 1, copy[t].current, <<>>, "parent", created + 1)]
    /\ created' = created + 2
    /\ UNCHANGED <<blob, rows, deleted, overwritten, faults>>

\* A pair is made in the tab and saved with the whole history.
AddPair(t) ==
    /\ Ready(t) /\ created + 2 <= MaxMessages
    /\ copy' = [copy EXCEPT ![t] = WithPair(@, created + 1)]
    /\ req' = [req EXCEPT ![t] = Tx("merge", None, None, <<>>, "end", None)]
    /\ created' = created + 2
    /\ UNCHANGED <<blob, rows, deleted, overwritten, faults>>

\* saveChatHandler
Save(t) ==
    /\ Ready(t) /\ copy[t] # blob
    /\ req' = [req EXCEPT ![t] = Tx("merge", None, None, <<>>, "end", None)]
    /\ UNCHANGED <<blob, rows, copy, created, deleted, overwritten, faults>>

\* deleteMessage
DeleteMessage(t, m) ==
    /\ Ready(t) /\ m \in Stored(copy[t])
    /\ req' = [req EXCEPT ![t] = Tx("delete", m, None, <<>>, "end", None)]
    /\ UNCHANGED <<blob, rows, copy, created, deleted, overwritten, faults>>

\* The chat row is read, and on PostgreSQL locked.
Begin(t) ==
    /\ req[t].at = "begin"
    /\ (~Locked \/ \A u \in Tabs : req[u].at # "tx")
    /\ req' = [req EXCEPT ![t].at = "tx", ![t].seen = blob]
    /\ UNCHANGED <<blob, rows, copy, created, deleted, overwritten, requests, faults>>

\* The history a transaction makes of the one it read.
Result(t) ==
    LET r == req[t]
    IN CASE r.op = "upsert" -> Upsert(Repair(r.seen), r.id, r.parent, r.children)
         [] r.op = "merge" -> Merge(r.seen, copy[t])
         [] r.op = "summary" -> Summarise(Repair(r.seen), r.id)
         [] r.op = "delete" -> Delete(Repair(r.seen), r.id)

\* The step after one that ends with `then'.
After(r, then) == IF then = "end" THEN Idle ELSE [r EXCEPT !.at = then]

\* The history is written whole.  A delete that found nothing ends here.
Commit(t) ==
    LET r == req[t]
        gone == IF r.op = "delete" THEN Removed(r.seen, r.id) ELSE {}
    IN /\ r.at = "tx"
       /\ blob' = Result(t)
       /\ deleted' = deleted \cup gone
       /\ IF r.op = "delete" /\ gone = {}
          THEN req' = [req EXCEPT ![t] = Idle] /\ copy' = [copy EXCEPT ![t] = Result(t)]
          ELSE /\ req' = [req EXCEPT ![t] = [r EXCEPT
                     !.at = "rows", !.seen = Result(t), !.gone = gone,
                     !.ids = IF r.op \in {"upsert", "summary"} THEN {r.id} ELSE Stored(Result(t))]]
               /\ UNCHANGED copy
       /\ UNCHANGED <<rows, created, overwritten, requests, faults>>

\* Rows of the committed messages are written.
WriteRows(t) ==
    LET r == req[t]
    IN /\ r.at = "rows"
       /\ rows' = [i \in Ids |-> IF i \in r.ids THEN r.seen.parent[i] ELSE rows[i]]
       /\ req' = [req EXCEPT ![t] = After(r, IF r.op = "delete" THEN "rowsOut" ELSE r.then)]
       /\ UNCHANGED <<blob, copy, created, deleted, overwritten, requests, faults>>

\* The write fails; the error is logged.
RowsFail(t) ==
    LET r == req[t]
    IN /\ r.at = "rows" /\ faults < MaxFaults
       /\ faults' = faults + 1
       /\ req' = [req EXCEPT ![t] = After(r, IF r.op = "delete" THEN "rowsOut" ELSE r.then)]
       /\ UNCHANGED <<blob, rows, copy, created, deleted, overwritten, requests>>

\* Rows of what a delete removed go; the tab shows the history it is answered.
RemoveRows(t) ==
    /\ req[t].at = "rowsOut"
    /\ rows' = [i \in Ids |-> IF i \in req[t].gone THEN Absent ELSE rows[i]]
    /\ copy' = [copy EXCEPT ![t] = req[t].seen]
    /\ req' = [req EXCEPT ![t] = Idle]
    /\ UNCHANGED <<blob, created, deleted, overwritten, requests, faults>>

\* get_message_by_id_and_message_id: the children of a message come from the
\* rows when it has one, and otherwise from the history.
Known(i) == rows[i] # Absent \/ i \in Stored(blob)
Children(i) ==
    IF rows[i] # Absent THEN SetToSortSeq({x \in Ids : rows[x] = i}, <) ELSE blob.children[i]

\* The parent of the user message is linked to it unless it is already.
LinkParent(t) ==
    LET r == req[t]
    IN /\ r.at = "parent"
       /\ req' = [req EXCEPT ![t] =
              IF r.parent # None /\ Known(r.parent) /\ ~Contains(Children(r.parent), r.user)
              THEN Tx("upsert", r.parent, Unset, Append(Children(r.parent), r.user), "user", r.user)
              ELSE [r EXCEPT !.at = "user"]]
       /\ UNCHANGED <<blob, rows, copy, created, deleted, overwritten, requests, faults>>

\* The user message is linked to the reply.
LinkReply(t) ==
    LET u == req[t].user
    IN /\ req[t].at = "user"
       /\ req' = [req EXCEPT ![t] =
              IF Known(u)
              THEN Tx("upsert", u, Unset, Children(u) \o (IF Contains(Children(u), u + 1) THEN <<>> ELSE <<u + 1>>), "reply", u)
              ELSE [req[t] EXCEPT !.at = "reply"]]
       /\ UNCHANGED <<blob, rows, copy, created, deleted, overwritten, requests, faults>>

\* The empty reply is stored.
StoreReply(t) ==
    /\ req[t].at = "reply"
    /\ req' = [req EXCEPT ![t] = Tx("upsert", req[t].user + 1, req[t].user, <<>>, "end", req[t].user)]
    /\ UNCHANGED <<blob, rows, copy, created, deleted, overwritten, requests, faults>>

\* get_unresolved_parent_ids
Unresolved == {rows[i] : i \in {x \in Ids : rows[x] \in Ids /\ rows[rows[x]] = Absent}}

\* What get_messages_map_by_chat_id fills in from the history: the missing
\* parents, or all messages when there is no row.
Missing ==
    IF \A i \in Ids : rows[i] = Absent THEN Stored(blob) ELSE Unresolved \cap Stored(blob)

\* A request walks the history of the chat.
Walk(t) ==
    /\ req[t] = Idle /\ Missing # {}
    /\ req' = [req EXCEPT ![t] = [Tx("heal", None, None, <<>>, "end", None)
                                  EXCEPT !.at = "rows", !.seen = blob, !.ids = Missing]]
    /\ UNCHANGED <<blob, rows, copy, created, deleted, overwritten, requests, faults>>

Step(t) ==
    \/ Begin(t) \/ Commit(t) \/ WriteRows(t) \/ RemoveRows(t)
    \/ LinkParent(t) \/ LinkReply(t) \/ StoreReply(t) \/ LoadWrite(t)

Next ==
    \E t \in Tabs :
        \/ \E then \in {"show", "compact"} : Load(t, then)
        \/ Send(t) \/ AddPair(t) \/ Save(t) \/ RowsFail(t) \/ Walk(t) \/ Step(t)
        \/ \E m \in Ids : DeleteMessage(t, m)

Spec == Init /\ [][Next]_vars

-----------------------------------------------------------------------------
\* Once the requests are over, a message that was made is stored unless a request
\* deleted it or a load that read the chat before wrote its repaired history over
\* it: whole-history saves of two tabs, the links the server adds, compactions,
\* deletes and failed row writes lose nothing.
NothingDropped == Quiet => (1..created) \ (deleted \cup overwritten) \subseteq Stored(blob)
=============================================================================
