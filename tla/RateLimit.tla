------------------------------ MODULE RateLimit ------------------------------
(***************************************************************************)
(* RateLimiter.is_limited for one key.  Counts are kept by bucket of time, *)
(* in Redis, or in each process when Redis is missing or fails.  Over      *)
(* Redis the check is several commands, which interleave with those of     *)
(* other processes.                                                        *)
(***************************************************************************)
EXTENDS Integers, FiniteSets

CONSTANTS
    Nodes,          \* server processes
    Limit, Window, BucketSize,
    MaxTime,        \* bound on the clock
    MaxRequests,    \* bound on the requests
    MaxFaults       \* bound on the failures of Redis commands

\* What is assumed of the constants: windows are whole numbers of buckets, as in
\* every limiter the routers make with the configuration's defaults.
RateAssumption ==
    /\ IsFiniteSet(Nodes)
    /\ Limit \in Nat /\ Window \in Nat /\ BucketSize \in Nat \ {0} /\ Window % BucketSize = 0
    /\ MaxTime \in Nat /\ MaxRequests \in Nat /\ MaxFaults \in Nat

VARIABLES
    now,
    redis,      \* count of each bucket in Redis
    dies,       \* when each bucket expires in Redis
    memory,     \* _memory_store[key] of each process
    check,      \* the check each process is in
    faults,
    asked,      \* history: requests by the second they arrived
    let,        \* history: those let through
    refused     \* history: the seconds in which one was limited

vars == <<now, redis, dies, memory, check, faults, asked, let, refused>>

Times == 0..MaxTime
Buckets == 0..(MaxTime \div BucketSize)
Forever == MaxTime + Window + BucketSize + 1
NumBuckets == Window \div BucketSize
CurrentBucket == now \div BucketSize
Idle == [at |-> "idle", bucket |-> 0, came |-> 0]

\* The sum of f over the set S of seconds or buckets.
Total(f, S) ==
    LET upTo[k \in Times] == (IF k \in S THEN f[k] ELSE 0) + (IF k = 0 THEN 0 ELSE upTo[k - 1])
    IN upTo[MaxTime]
Requests == Total(asked, Times)

\* The buckets a check of bucket b adds up.
Counted(b) == {c \in Buckets : b - NumBuckets <= c /\ c <= b}

\* Types; Redis expires only buckets that have been counted in.
TypeOK ==
    /\ now \in Times /\ faults \in 0..MaxFaults
    /\ redis \in [Buckets -> 0..MaxRequests]
    /\ \A b \in Buckets : redis[b] = 0 => dies[b] = Forever
    /\ memory \in [Nodes -> [Buckets -> 0..MaxRequests]]
    /\ check \in [Nodes -> [at : {"idle", "incr", "expire", "count", "memory"}, bucket : Buckets, came : Times]]
    /\ asked \in [Times -> 0..MaxRequests] /\ let \in [Times -> 0..MaxRequests]
    /\ refused \subseteq Times

Init ==
    /\ now = 0 /\ faults = 0
    /\ redis = [b \in Buckets |-> 0] /\ dies = [b \in Buckets |-> Forever]
    /\ memory = [n \in Nodes |-> [b \in Buckets |-> 0]]
    /\ check = [n \in Nodes |-> Idle]
    /\ asked = [t \in Times |-> 0] /\ let = [t \in Times |-> 0] /\ refused = {}

-----------------------------------------------------------------------------
\* A request arrives; its bucket is the current one from here on.
Ask(n) ==
    /\ check[n].at = "idle" /\ Requests < MaxRequests
    /\ check' = [check EXCEPT ![n] = [at |-> "incr", bucket |-> CurrentBucket, came |-> now]]
    /\ asked' = [asked EXCEPT ![now] = @ + 1]
    /\ UNCHANGED <<now, redis, dies, memory, faults, let, refused>>

\* incr; the first in a bucket goes on to set its life.
Incr(n) ==
    LET b == check[n].bucket
    IN /\ check[n].at = "incr"
       /\ redis' = [redis EXCEPT ![b] = @ + 1]
       /\ check' = [check EXCEPT ![n].at = IF redis[b] = 0 THEN "expire" ELSE "count"]
       /\ UNCHANGED <<now, dies, memory, faults, asked, let, refused>>

ExpireShort(n) ==
    /\ check[n].at = "expire"
    /\ dies' = [dies EXCEPT ![check[n].bucket] = now + Window]
    /\ check' = [check EXCEPT ![n].at = "count"]
    /\ UNCHANGED <<now, redis, memory, faults, asked, let, refused>>

\* expire
Expire(n) ==
    /\ check[n].at = "expire"
    /\ dies' = [dies EXCEPT ![check[n].bucket] = IF redis[check[n].bucket] > 0
                                                 THEN now + Window + BucketSize ELSE @]
    /\ check' = [check EXCEPT ![n].at = "count"]
    /\ UNCHANGED <<now, redis, memory, faults, asked, let, refused>>

\* The answer: limited or let through.
Answer(n, total) ==
    /\ IF total > Limit
       THEN refused' = refused \cup {check[n].came} /\ UNCHANGED let
       ELSE let' = [let EXCEPT ![check[n].came] = @ + 1] /\ UNCHANGED refused
    /\ check' = [check EXCEPT ![n] = Idle]

\* mget and the comparison
Count(n) ==
    /\ check[n].at = "count"
    /\ Answer(n, Total(redis, Counted(check[n].bucket)))
    /\ UNCHANGED <<now, redis, dies, memory, faults, asked>>

\* A Redis command raises, and the check starts again in memory.
RedisFails(n) ==
    /\ check[n].at \in {"incr", "expire", "count"} /\ faults < MaxFaults
    /\ faults' = faults + 1
    /\ check' = [check EXCEPT ![n].at = "memory"]
    /\ UNCHANGED <<now, redis, dies, memory, asked, let, refused>>

\* _is_limited_memory: count, drop the old buckets, add up.
MemoryCheck(n) ==
    LET b == CurrentBucket
        store == [c \in Buckets |-> IF c < b - NumBuckets THEN 0
                                    ELSE memory[n][c] + (IF c = b THEN 1 ELSE 0)]
    IN /\ check[n].at = "memory"
       /\ memory' = [memory EXCEPT ![n] = store]
       /\ Answer(n, Total(store, Buckets))
       /\ UNCHANGED <<now, redis, dies, faults, asked>>

\* A second passes, while no request is being checked, and Redis drops the buckets whose life has ended.
Tick ==
    /\ now < MaxTime /\ \A n \in Nodes : check[n].at = "idle"
    /\ now' = now + 1
    /\ LET dead == {b \in Buckets : dies[b] <= now + 1}
       IN /\ redis' = [b \in Buckets |-> IF b \in dead THEN 0 ELSE redis[b]]
          /\ dies' = [b \in Buckets |-> IF b \in dead THEN Forever ELSE dies[b]]
    /\ UNCHANGED <<memory, check, faults, asked, let, refused>>

Next ==
    \/ \E n \in Nodes : \/ Ask(n) \/ Incr(n) \/ Expire(n) \/ Count(n)
                        \/ RedisFails(n) \/ MemoryCheck(n)
    \/ Tick

Spec == Init /\ [][Next]_vars

-----------------------------------------------------------------------------
\* The seconds of the window that ends at t.
Span(t, length) == {u \in Times : t - length < u /\ u <= t}

\* No window lets more than the limit through while Redis answers, and a request
\* is limited only when more than the limit have arrived within the window and
\* the bucket it began in, also when Redis fails in the middle of a check.
LimitIsKept ==
    /\ faults = 0 => \A t \in Times : Total(let, Span(t, Window)) <= Limit
    /\ \A t \in refused : Total(asked, Span(t, Window + BucketSize)) > Limit
=============================================================================
