---------------------------- MODULE MCSocketState ----------------------------
(***************************************************************************)
(* Small instances of the state the socket server keeps for its sessions:  *)
(* a shared document, the pool of sessions and its cleanup, the usage of a *)
(* model, and the presence of one window.  The parts share no state, so a  *)
(* behaviour takes the steps of one of them and leaves the others alone:   *)
(* what holds of each part holds of them together.                         *)
(***************************************************************************)
EXTENDS SocketState, TLC

CONSTANTS n1, n2, m1, k1, c1, c2, None, Nobody

VARIABLES
    part,   \* the part this behaviour is about
    lock, loop, pool, age, open, crashes, errors,
    conn, store, reads, pLock, waiting, seen, shown, clean

poolVars == <<lock, loop, pool, age, open, crashes, errors>>
usageVars == <<entry, op, uOnline, slept, report>>
presenceVars == <<conn, store, reads, pLock, waiting, seen, shown, clean>>

\* Two instances; the session's socket is on the first.
Pool == INSTANCE SessionPool WITH
    Nodes <- {n1, n2}, Sessions <- {m1}, Node <- m1 :> n1,
    Timeout <- 2, LockTtl <- 2, MaxSweep <- 1, MaxCrashes <- 1, MaxErrors <- 1

\* One process.
MCNode == [s \in Users |-> n1]

\* A window, a companion, one update in authorisation.
Window == INSTANCE Presence WITH
    Mains <- {m1}, Companions <- {k1}, Rank <- m1 :> 1,
    Recs <- {[chat |-> c1, focus |-> 0], [chat |-> c2, focus |-> 0]},
    TTL <- 2, MaxLag <- 1, MaxOverdue <- 1, Calls <- {1}, MaxWaiting <- 1, MaxRevision <- 3,
    lock <- pLock

ASSUME Pool!PoolAssumption /\ Usage!UsageAssumption

MCInit ==
    /\ part \in {"document", "pool", "usage", "presence"}
    /\ Init /\ Pool!Init /\ Usage!Init /\ Window!Init
    /\ part # "document" => redis

MCNext ==
    \/ part = "document" /\ Next /\ UNCHANGED <<part, poolVars, usageVars, presenceVars>>
    \/ part = "pool" /\ Pool!Next /\ UNCHANGED <<part, vars, usageVars, presenceVars>>
    \/ part = "usage" /\ Usage!Next /\ UNCHANGED <<part, vars, poolVars, presenceVars>>
    \/ part = "presence" /\ Window!Next /\ UNCHANGED <<part, vars, poolVars, usageVars>>

MCSpec ==
    /\ MCInit /\ [][MCNext]_<<part, vars, poolVars, usageVars, presenceVars>>
    /\ (part = "pool" => Pool!Fairness)
    /\ (part = "presence" => Window!Fairness)

\* Orphaned sessions are reaped; see SessionPool.
OrphansReaped == part = "pool" => Pool!OrphansReaped

\* The entry of a closed socket goes for good; see Presence.
ClosedSocketLeaves == part = "presence" => Window!ClosedSocketsLeave
=============================================================================
