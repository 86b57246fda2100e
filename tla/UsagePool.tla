------------------------------ MODULE UsagePool ------------------------------
(***************************************************************************)
(* The connections that use one model, an entry of USAGE_POOL.  Every      *)
(* handler and the cleanup read the entry and write it back; a process     *)
(* does both without a wait, but over Redis another process may write in   *)
(* between.  Ages of reports are counted in ticks.                         *)
(***************************************************************************)
EXTENDS Integers, FiniteSets

CONSTANTS
    Nodes,
    Sessions,
    Node,           \* the instance each session is connected to
    Timeout         \* TIMEOUT_DURATION

\* What is assumed of the constants.
UsageAssumption == Timeout \in Nat /\ Node \in [Sessions -> Nodes]

VARIABLES
    entry,      \* the sessions in the entry and the age of their reports; absent: 0 sessions
    op,         \* what each process is doing with its copy: [kind, who, copy]
    online,     \* sessions in the pool
    slept,      \* the cleanup has slept since its last sweep
    report      \* history: the age of each session's last report

vars == <<entry, op, online, slept, report>>

Never == Timeout + 1
Ages == 0..Never        \* Never stands for no report and for one past the timeout
Idle == [kind |-> "idle", who |-> {}, copy |-> [s \in Sessions |-> Never], in |-> {}]

\* Types; a process without work holds no copy.
TypeOK ==
    /\ entry \in [in : SUBSET Sessions, age : [Sessions -> Ages]]
    /\ \A s \in Sessions \ entry.in : entry.age[s] = Never
    /\ online \subseteq Sessions /\ slept \in BOOLEAN /\ report \in [Sessions -> Ages]
    /\ \A n \in Nodes :
         /\ op[n].kind \in {"idle", "usage", "disconnect", "clean"}
         /\ op[n].in \subseteq Sessions /\ op[n].copy \in [Sessions -> Ages]
         /\ op[n].kind = "idle" => op[n] = Idle

Init ==
    /\ entry = [in |-> {}, age |-> [s \in Sessions |-> Never]]
    /\ op = [n \in Nodes |-> Idle]
    /\ online = Sessions /\ slept = TRUE
    /\ report = [s \in Sessions |-> Never]

-----------------------------------------------------------------------------
\* A process reads the entry.
Read(n, kind, who) ==
    /\ op[n].kind = "idle"
    /\ op' = [op EXCEPT ![n] = [kind |-> kind, who |-> who, copy |-> entry.age, in |-> entry.in]]

\* usage of a session in the pool, which reports once in a tick
UsageRead(s) ==
    /\ s \in online /\ report[s] > 0 /\ Read(Node[s], "usage", {s})
    /\ UNCHANGED <<entry, online, slept, report>>

\* disconnect takes the session from the pool first.
DisconnectRead(s) ==
    /\ s \in online /\ Read(Node[s], "disconnect", {s})
    /\ online' = online \ {s}
    /\ UNCHANGED <<entry, slept, report>>

\* periodic_usage_pool_cleanup, in one process at a time
CleanRead(n) ==
    /\ entry.in # {} /\ slept /\ Read(n, "clean", {})
    /\ slept' = FALSE
    /\ UNCHANGED <<entry, online, report>>

\* An entry without these sessions.
Without(n, gone) ==
    [in |-> op[n].in \ gone, age |-> [s \in Sessions |-> IF s \in gone THEN Never ELSE op[n].copy[s]]]

UsageWriteAlone(n) ==
    /\ op[n].kind = "usage"
    /\ entry' = [in |-> op[n].who, age |-> [s \in Sessions |-> IF s \in op[n].who THEN 0 ELSE Never]]
    /\ report' = [s \in Sessions |-> IF s \in op[n].who THEN 0 ELSE report[s]]
    /\ op' = [op EXCEPT ![n] = Idle]
    /\ UNCHANGED <<online, slept>>

\* The copy with the session's report is written back.
UsageWrite(n) ==
    /\ op[n].kind = "usage"
    /\ entry' = [in |-> op[n].in \cup op[n].who,
                 age |-> [s \in Sessions |-> IF s \in op[n].who THEN 0 ELSE op[n].copy[s]]]
    /\ report' = [s \in Sessions |-> IF s \in op[n].who THEN 0 ELSE report[s]]
    /\ op' = [op EXCEPT ![n] = Idle]
    /\ UNCHANGED <<online, slept>>

\* The copy without the session, if it was in it.
DisconnectWrite(n) ==
    /\ op[n].kind = "disconnect"
    /\ entry' = IF op[n].who \subseteq op[n].in THEN Without(n, op[n].who) ELSE entry
    /\ op' = [op EXCEPT ![n] = Idle]
    /\ UNCHANGED <<online, slept, report>>

\* The copy without the expired reports, if there are any.
CleanWrite(n) ==
    /\ op[n].kind = "clean"
    /\ LET expired == {s \in op[n].in : op[n].copy[s] > Timeout}
       IN entry' = IF expired = {} THEN entry ELSE Without(n, expired)
    /\ op' = [op EXCEPT ![n] = Idle]
    /\ UNCHANGED <<online, slept, report>>

Older(a) == IF a < Never THEN a + 1 ELSE a

\* Time passes slowly against reads and writes.
Tick ==
    /\ \A n \in Nodes : op[n].kind = "idle"
    /\ entry' = [entry EXCEPT !.age = [s \in Sessions |-> IF s \in entry.in THEN Older(@[s]) ELSE Never]]
    /\ report' = [s \in Sessions |-> Older(report[s])]
    /\ slept' = TRUE
    /\ UNCHANGED <<op, online>>

Next ==
    \/ \E s \in Sessions : UsageRead(s) \/ DisconnectRead(s)
    \/ \E n \in Nodes : CleanRead(n) \/ UsageWrite(n) \/ DisconnectWrite(n) \/ CleanWrite(n)
    \/ Tick

Spec == Init /\ [][Next]_vars

-----------------------------------------------------------------------------
Quiet == \A n \in Nodes : op[n].kind = "idle"

\* get_models_in_use lists the model while a connected session has reported
\* it within the timeout.
UsageListed == Quiet => ((\E s \in online : report[s] <= Timeout) => entry.in # {})

=============================================================================
