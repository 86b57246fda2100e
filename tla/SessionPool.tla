----------------------------- MODULE SessionPool -----------------------------
(***************************************************************************)
(* The pool of socket sessions the instances share in Redis, and the       *)
(* cleanup loop of every instance: the one that owns the lock reaps the    *)
(* sessions that missed their heartbeats, keeps the lock alive and reaps   *)
(* again.  Ages and the life of the lock are counted in ticks.             *)
(***************************************************************************)
EXTENDS Integers, FiniteSets

CONSTANTS
    Nodes,
    Sessions,
    Node,           \* the instance each session's socket is connected to
    Timeout,        \* SESSION_POOL_TIMEOUT
    LockTtl,        \* WEBSOCKET_REDIS_LOCK_TIMEOUT
    MaxSweep,       \* bound: ticks a sweep takes, less than the lock lives
    MaxCrashes,     \* bound: crashes
    MaxErrors,      \* bound: errors of Redis met by a loop
    Nobody

\* What is assumed of the constants.
PoolAssumption ==
    /\ {Timeout, LockTtl, MaxSweep, MaxCrashes, MaxErrors} \subseteq Nat
    /\ Timeout > 0 /\ LockTtl > 1 /\ MaxSweep < LockTtl /\ Nobody \notin Nodes /\ Node \in [Sessions -> Nodes]

VARIABLES
    lock,       \* session_cleanup_lock: [by, left]
    loop,       \* the loop of each instance: [pc, todo, at, age, rest]
    pool,       \* the sessions in SESSION_POOL
    age,        \* ticks since last_seen_at
    open,       \* sessions whose socket is open
    crashes, errors

vars == <<lock, loop, pool, age, open, crashes, errors>>

Free == [by |-> Nobody, left |-> 0]
At(n, pc) == loop[n].pc = pc
Retry == [pc |-> "retry", todo |-> {}, at |-> Nobody, age |-> 0, rest |-> 0]
Sweeps(n) == loop[n].pc \in {"sweep", "reap"}

\* Types; a sweep reaps a session of its list.
TypeOK ==
    /\ lock \in [by : Nodes \cup {Nobody}, left : 0..LockTtl] /\ (lock.by = Nobody <=> lock.left = 0)
    /\ loop \in [Nodes -> [pc : {"retry", "renew", "sweep", "reap", "rest", "dead", "down"},
                           todo : SUBSET Sessions, at : Sessions \cup {Nobody},
                           age : 0..LockTtl, rest : 0..Timeout]]
    /\ \A n \in Nodes : IF At(n, "reap") THEN loop[n].at \in loop[n].todo ELSE loop[n].at = Nobody
    /\ pool \subseteq Sessions /\ open \subseteq Sessions
    /\ age \in [Sessions -> 0..(Timeout + 1)]
    /\ crashes \in 0..MaxCrashes /\ errors \in 0..MaxErrors

Init ==
    /\ lock = Free /\ loop = [n \in Nodes |-> Retry]
    /\ pool = Sessions /\ open = Sessions /\ age = [s \in Sessions |-> 0]
    /\ crashes = 0 /\ errors = 0

IsStale(s) == age[s] > Timeout

-----------------------------------------------------------------------------
\* aquire_lock: SET NX EX
Acquire(n) ==
    /\ At(n, "retry") /\ lock.by = Nobody
    /\ lock' = [by |-> n, left |-> LockTtl]
    /\ loop' = [loop EXCEPT ![n].pc = "renew"]
    /\ UNCHANGED <<pool, age, open, crashes, errors>>

\* renew_lock before a sweep, which lists the pool.  A lock that is lost ends
\* the ownership; release_lock deletes no lock of another.
Renew(n) ==
    /\ At(n, "renew")
    /\ IF lock.by = n
         THEN /\ lock' = [by |-> n, left |-> LockTtl]
              /\ loop' = [loop EXCEPT ![n] = [Retry EXCEPT !.pc = "sweep", !.todo = pool]]
         ELSE /\ loop' = [loop EXCEPT ![n] = Retry]
              /\ UNCHANGED lock
    /\ UNCHANGED <<pool, age, open, crashes, errors>>

\* The sweep looks at the next session of its list.
SweepLook(n) ==
    /\ At(n, "sweep")
    /\ \E s \in loop[n].todo :
         loop' = [loop EXCEPT ![n] =
                   IF s \in pool /\ IsStale(s) THEN [@ EXCEPT !.pc = "reap", !.at = s]
                                               ELSE [@ EXCEPT !.todo = @ \ {s}]]
    /\ UNCHANGED <<lock, pool, age, open, crashes, errors>>

\* reap_presence_session: after the presence is told, the entry is deleted.
Reap(n) ==
    /\ At(n, "reap")
    /\ pool' = pool \ {loop[n].at}
    /\ loop' = [loop EXCEPT ![n].pc = "sweep", ![n].todo = @ \ {loop[n].at}, ![n].at = Nobody]
    /\ UNCHANGED <<lock, age, open, crashes, errors>>

\* The sweep is over.
SweepEnds(n) ==
    /\ At(n, "sweep") /\ loop[n].todo = {}
    /\ loop' = [loop EXCEPT ![n] = [Retry EXCEPT !.pc = "rest"]]
    /\ UNCHANGED <<lock, pool, age, open, crashes, errors>>

RestRenewOrEnd(n) ==
    /\ At(n, "rest") /\ (loop[n].age >= LockTtl \div 2 \/ loop[n].rest = Timeout)
    /\ IF lock.by = n
         THEN /\ lock' = [by |-> n, left |-> LockTtl]
              /\ loop' = [loop EXCEPT ![n] = IF @.rest = Timeout THEN [Retry EXCEPT !.pc = "renew"]
                                                               ELSE [@ EXCEPT !.age = 0]]
         ELSE /\ loop' = [loop EXCEPT ![n] = [Retry EXCEPT !.pc = "dead"]]
              /\ UNCHANGED lock
    /\ UNCHANGED <<pool, age, open, crashes, errors>>

\* Between two sweeps the lock is renewed.
RestRenew(n) ==
    /\ At(n, "rest") /\ (loop[n].age >= LockTtl \div 2 \/ loop[n].rest = Timeout)
    /\ IF lock.by = n
         THEN /\ lock' = [by |-> n, left |-> LockTtl]
              /\ loop' = [loop EXCEPT ![n] = IF @.rest = Timeout THEN [Retry EXCEPT !.pc = "renew"]
                                                               ELSE [@ EXCEPT !.age = 0]]
         ELSE /\ loop' = [loop EXCEPT ![n] = Retry]
              /\ UNCHANGED lock
    /\ UNCHANGED <<pool, age, open, crashes, errors>>

\* An error of Redis leaves the loop: nothing catches it.
RedisError(n) ==
    /\ loop[n].pc \in {"retry", "renew", "sweep", "rest"} /\ errors < MaxErrors
    /\ errors' = errors + 1
    /\ loop' = [loop EXCEPT ![n] = [Retry EXCEPT !.pc = "dead"]]
    /\ UNCHANGED <<lock, pool, age, open, crashes>>

-----------------------------------------------------------------------------
\* heartbeat of a session in the pool
Heartbeat(s) ==
    /\ s \in open /\ s \in pool
    /\ age' = [age EXCEPT ![s] = 0]
    /\ UNCHANGED <<lock, loop, pool, open, crashes, errors>>

\* disconnect
Disconnect(s) ==
    /\ s \in open
    /\ open' = open \ {s} /\ pool' = pool \ {s}
    /\ UNCHANGED <<lock, loop, age, crashes, errors>>

\* An instance ends without a word about its sockets, and comes back.
Crash(n) ==
    /\ ~At(n, "down") /\ crashes < MaxCrashes
    /\ crashes' = crashes + 1
    /\ loop' = [loop EXCEPT ![n] = [Retry EXCEPT !.pc = "down"]]
    /\ open' = {s \in open : Node[s] # n}
    /\ UNCHANGED <<lock, pool, age, errors>>

Restart(n) ==
    /\ At(n, "down")
    /\ loop' = [loop EXCEPT ![n] = Retry]
    /\ UNCHANGED <<lock, pool, age, open, crashes, errors>>

AtMost(x, bound) == IF x > bound THEN bound ELSE x

\* Time passes; the renewal before a sweep follows at once, and a sweep is
\* shorter than the lock lives.
Tick ==
    /\ \A n \in Nodes : ~At(n, "renew") /\ (Sweeps(n) => loop[n].age < MaxSweep)
    /\ lock' = IF lock.left <= 1 THEN Free ELSE [lock EXCEPT !.left = @ - 1]
    /\ loop' = [n \in Nodes |->
                  IF Sweeps(n) \/ At(n, "rest")
                    THEN [loop[n] EXCEPT !.age = AtMost(@ + 1, LockTtl),
                                         !.rest = IF At(n, "rest") THEN AtMost(@ + 1, Timeout) ELSE 0]
                    ELSE loop[n]]
    /\ age' = [s \in Sessions |-> AtMost(age[s] + 1, Timeout + 1)]
    /\ UNCHANGED <<pool, open, crashes, errors>>

LoopStep(n) == Acquire(n) \/ Renew(n) \/ SweepLook(n) \/ Reap(n) \/ SweepEnds(n) \/ RestRenew(n)

Next ==
    \/ \E n \in Nodes : LoopStep(n) \/ RedisError(n) \/ Crash(n) \/ Restart(n)
    \/ \E s \in Sessions : Heartbeat(s) \/ Disconnect(s)
    \/ Tick

Spec == Init /\ [][Next]_vars

\* The loops run on, time passes and an instance that ended comes back.
Fairness ==
    /\ WF_vars(Tick)
    /\ \A n \in Nodes : WF_vars(LoopStep(n)) /\ WF_vars(Restart(n))

FairSpec == Spec /\ Fairness

-----------------------------------------------------------------------------
\* No session without a socket stays in the pool: those a crash leaves behind
\* are reaped, also when the crash, a lost lock or an error ended the loop that
\* owned the cleanup, as long as the loop of one instance is left.
OrphansReaped == <>[](pool \subseteq open)
=============================================================================
