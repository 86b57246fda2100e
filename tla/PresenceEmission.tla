--------------------------- MODULE PresenceEmission ---------------------------
(***************************************************************************)
(* The states of one user's presence as the instances emit them over       *)
(* Redis: every change of the store is followed by an emission under a     *)
(* lock that expires, that its waiters give up on, and that a crashed      *)
(* instance leaves behind.  One emitter of every instance is its expiry    *)
(* loop.  Times are counted in ticks while the lock is held.  A subscriber *)
(* stays, so the key of the presence is never deleted.                     *)
(***************************************************************************)
EXTENDS Integers, FiniteSets, FiniteSetsExt

CONSTANTS
    Handlers,       \* event handlers that change the presence
    Loops,          \* the expiry loops
    Node,           \* the instance each of them runs on
    LockTtl,        \* px of the lock
    Deadline,       \* how long a waiter tries
    MaxHold,        \* bound: ticks an emission takes under the lock
    MaxRev,         \* bound: revisions
    MaxSubs,        \* bound: subscriptions
    MaxCrashes,     \* bound: crashes
    Nobody          \* no holder

Emitters == Handlers \cup Loops

\* What the bounds are.
EmissionAssumption ==
    /\ {LockTtl, Deadline, MaxHold, MaxRev, MaxSubs, MaxCrashes} \subseteq Nat
    /\ MaxHold < LockTtl /\ Nobody \notin Emitters
    /\ Handlers \cap Loops = {} /\ DOMAIN Node = Emitters

VARIABLES
    entry,      \* the publisher's entry: "fresh", "stale" or "gone"
    rev,        \* the revision of the store
    lock,       \* the Redis key: [by, left]
    em,         \* every emitter: [pc, mine, seen, age]
    last,       \* the revision emitted last
    subs, crashes

vars == <<entry, rev, lock, em, last, subs, crashes>>

Idle == [pc |-> "idle", mine |-> 0, seen |-> 0, age |-> 0]
Free == [by |-> Nobody, left |-> 0]

IsFree == lock.by = Nobody
InSection(e) == em[e].pc \in {"locked", "read", "emitted"}

\* Types; an emitter in its section still owns the key.
TypeOK ==
    /\ entry \in {"fresh", "stale", "gone"}
    /\ rev \in 0..MaxRev /\ last \in 0..MaxRev /\ subs \in 0..MaxSubs /\ crashes \in 0..MaxCrashes
    /\ lock \in [by : Emitters \cup {Nobody}, left : 0..LockTtl]
    /\ em \in [Emitters -> [pc : {"idle", "waiting", "locked", "read", "emitted", "ended", "down"},
                            mine : 0..MaxRev, seen : 0..MaxRev, age : 0..LockTtl]]
    /\ \A e \in Emitters : InSection(e) => lock.by = e

Init ==
    /\ entry = "fresh" /\ rev = 1 /\ last = 1 /\ lock = Free /\ subs = 0 /\ crashes = 0
    /\ em = [e \in Emitters |-> Idle]

-----------------------------------------------------------------------------
\* Every script that changes the store raises the revision; then _emit waits.
Changed(e, becomes) ==
    /\ em[e].pc = "idle" /\ rev < MaxRev
    /\ rev' = rev + 1 /\ entry' = becomes
    /\ em' = [em EXCEPT ![e] = [pc |-> "waiting", mine |-> rev + 1, seen |-> 0, age |-> 0]]
    /\ UNCHANGED <<lock, last, subs, crashes>>

\* update; clear and disconnect
Update(h) == Changed(h, "fresh")
Clear(h) == entry # "gone" /\ Changed(h, "gone")

\* subscribe emits without a change.
Subscribe(h) ==
    /\ em[h].pc = "idle" /\ subs < MaxSubs /\ subs' = subs + 1
    /\ em' = [em EXCEPT ![h] = [pc |-> "waiting", mine |-> rev, seen |-> 0, age |-> 0]]
    /\ UNCHANGED <<entry, rev, lock, last, crashes>>

\* The publisher falls silent for the lease.
GoStale ==
    /\ entry = "fresh" /\ entry' = "stale"
    /\ UNCHANGED <<rev, lock, em, last, subs, crashes>>

\* expire of an expiry loop claims a stale entry.
Expire(l) == entry = "stale" /\ Changed(l, "gone")

-----------------------------------------------------------------------------
\* emission_lock: SET NX PX
Acquire(e) ==
    /\ em[e].pc = "waiting" /\ IsFree
    /\ lock' = [by |-> e, left |-> LockTtl]
    /\ em' = [em EXCEPT ![e].pc = "locked", ![e].age = 0]
    /\ UNCHANGED <<entry, rev, last, subs, crashes>>

Expired(e) == em[e].age >= Deadline

\* The waiter gives up: its handler fails, and an expiry loop ends.
TimeOut(e) ==
    /\ em[e].pc = "waiting" /\ ~IsFree /\ Expired(e)
    /\ em' = [em EXCEPT ![e] = [Idle EXCEPT !.pc = IF e \in Loops THEN "ended" ELSE "idle"]]
    /\ UNCHANGED <<entry, rev, lock, last, subs, crashes>>

\* store.state
ReadState(e) ==
    /\ em[e].pc = "locked"
    /\ em' = [em EXCEPT ![e].pc = "read", ![e].seen = rev]
    /\ UNCHANGED <<entry, rev, lock, last, subs, crashes>>

EmitMine(e) ==
    /\ em[e].pc = "read"
    /\ last' = em[e].mine
    /\ em' = [em EXCEPT ![e].pc = "emitted"]
    /\ UNCHANGED <<entry, rev, lock, subs, crashes>>

\* The newer of the two states is emitted.
Emit(e) ==
    /\ em[e].pc = "read"
    /\ last' = Max({em[e].mine, em[e].seen})
    /\ em' = [em EXCEPT ![e].pc = "emitted"]
    /\ UNCHANGED <<entry, rev, lock, subs, crashes>>

ReleaseNothing(e) ==
    /\ em[e].pc = "emitted"
    /\ em' = [em EXCEPT ![e] = Idle]
    /\ UNCHANGED <<entry, rev, lock, last, subs, crashes>>

\* The release script deletes the key if the token is still its own.
Release(e) ==
    /\ em[e].pc = "emitted"
    /\ lock' = IF lock.by = e THEN Free ELSE lock
    /\ em' = [em EXCEPT ![e] = Idle]
    /\ UNCHANGED <<entry, rev, last, subs, crashes>>

\* An instance ends; its key stays.
Crash(n) ==
    /\ crashes < MaxCrashes /\ crashes' = crashes + 1
    /\ em' = [e \in Emitters |-> IF Node[e] = n THEN [Idle EXCEPT !.pc = "down"] ELSE em[e]]
    /\ UNCHANGED <<entry, rev, lock, last, subs>>

\* It is started again, its loop too.
Restart(n) ==
    /\ \E e \in Emitters : Node[e] = n /\ em[e].pc = "down"
    /\ em' = [e \in Emitters |-> IF Node[e] = n THEN Idle ELSE em[e]]
    /\ UNCHANGED <<entry, rev, lock, last, subs, crashes>>

\* Time matters while the lock is held; waiters give up in time, and an
\* emission is shorter than the life of the lock.
Tick ==
    /\ lock # Free
    /\ \A e \in Emitters :
         /\ em[e].pc = "waiting" => ~Expired(e)
         /\ InSection(e) => em[e].age < MaxHold
    /\ lock' = IF lock.left = 1 THEN Free ELSE [lock EXCEPT !.left = @ - 1]
    /\ em' = [e \in Emitters |->
                IF em[e].pc = "waiting" \/ InSection(e) THEN [em[e] EXCEPT !.age = @ + 1] ELSE em[e]]
    /\ UNCHANGED <<entry, rev, last, subs, crashes>>

EmissionStep(e) ==
    Acquire(e) \/ TimeOut(e) \/ ReadState(e) \/ Emit(e) \/ Release(e)

Next ==
    \/ \E h \in Handlers : Update(h) \/ Clear(h) \/ Subscribe(h)
    \/ \E l \in Loops : Expire(l)
    \/ \E e \in Emitters : EmissionStep(e)
    \/ \E e \in Emitters : Crash(Node[e]) \/ Restart(Node[e])
    \/ GoStale \/ Tick

Spec == Init /\ [][Next]_vars

\* Handlers and loops run on, time passes and an instance that ended comes back.
Fairness ==
    /\ WF_vars(Tick)
    /\ \A l \in Loops : WF_vars(Expire(l))
    /\ \A e \in Emitters : WF_vars(EmissionStep(e)) /\ WF_vars(Restart(Node[e]))

FairSpec == Spec /\ Fairness

-----------------------------------------------------------------------------
\* A room never sees an older state after a newer one.
EmittedInOrder == [][last' >= last]_vars

\* Every change of the store reaches the room, in a state as new or newer: while
\* no instance crashes the room catches up with the store again and again.
ChangesAreTold == []<>(last = rev \/ crashes > 0)
=============================================================================
