------------------------------ MODULE Automations ------------------------------
(***************************************************************************)
(* A recurring automation: its row, the scheduler loop of every instance   *)
(* that claims it when it is due, the executions the claims and the owner  *)
(* start, and the owner's edits, whose next run is computed before their   *)
(* commit.  Times are ticks; the rule is a grid of ticks with a last one.  *)
(***************************************************************************)
EXTENDS Integers, FiniteSets, FiniteSetsExt

CONSTANTS
    Instances,
    Occurrences,    \* the ticks of the recurrence rule
    MaxTime,        \* bound: the clock stops here
    Nobody,         \* no lock holder
    NoTime,         \* null
    Postgres,       \* the database dialect
    MaxEdits,       \* bound: edits, toggles, deletions and manual runs
    MaxCrashes      \* bound: crashes of instances

AutomationAssumption ==
    /\ Occurrences \subseteq Nat \ {0} /\ IsFiniteSet(Occurrences)
    /\ MaxTime \in Nat /\ MaxEdits \in Nat /\ MaxCrashes \in Nat
    /\ Nobody \notin Instances /\ NoTime \notin Int /\ Postgres \in BOOLEAN

VARIABLES
    clock,
    row,        \* [live, active, next, last]
    lock,       \* the instance whose claim locks the row
    loop,       \* the claim transactions: [pc, saw, now]
    form,       \* the owner's request: [pc, active, next]
    started,    \* executions under way, on which instance
    recorded,   \* automation_run rows
    claimed,    \* history: claims of each occurrence
    restored,   \* history: edits that put back an occurrence claimed meanwhile
    edits, crashes

vars == <<clock, row, lock, loop, form, started, recorded, claimed, restored, edits, crashes>>

Time == 0..MaxTime
Next_ == Occurrences \cup {NoTime}
IdleLoop == [pc |-> "idle", saw |-> NoTime, now |-> 0]
IdleForm == [pc |-> "idle", active |-> FALSE, next |-> NoTime]
MaxRuns == Cardinality(Occurrences) + 2 * MaxEdits

\* Types; a locked row is locked by an open claim.
TypeOK ==
    /\ clock \in Time
    /\ row \in [live : BOOLEAN, active : BOOLEAN, next : Next_, last : Time \cup {NoTime}]
    /\ lock \in Instances \cup {Nobody}
    /\ lock # Nobody => loop[lock].pc = "selected"
    /\ loop \in [Instances -> [pc : {"idle", "selected"}, saw : Next_, now : Time]]
    /\ form \in [pc : {"idle", "computed"}, active : BOOLEAN, next : Next_]
    /\ started \in [Instances -> 0..MaxRuns]
    /\ recorded \in 0..MaxRuns
    /\ claimed \in [Occurrences -> 0..MaxRuns] /\ restored \in [Occurrences -> 0..MaxEdits]
    /\ edits \in 0..MaxEdits /\ crashes \in 0..MaxCrashes

\* next_run_ns: the first occurrence after a time, or none.
next_run(t) ==
    LET later == {o \in Occurrences : o > t} IN IF later = {} THEN NoTime ELSE Min(later)

Init ==
    /\ clock = 0
    /\ row = [live |-> TRUE, active |-> TRUE, next |-> next_run(0), last |-> NoTime]
    /\ lock = Nobody
    /\ loop = [i \in Instances |-> IdleLoop]
    /\ form = IdleForm
    /\ started = [i \in Instances |-> 0]
    /\ recorded = 0
    /\ claimed = [o \in Occurrences |-> 0] /\ restored = [o \in Occurrences |-> 0]
    /\ edits = 0 /\ crashes = 0

-----------------------------------------------------------------------------
IsDue == row.live /\ row.active /\ row.next # NoTime /\ row.next <= clock

ClaimSelectShared(i) ==
    /\ loop[i].pc = "idle" /\ IsDue
    /\ loop' = [loop EXCEPT ![i] = [pc |-> "selected", saw |-> row.next, now |-> clock]]
    /\ UNCHANGED <<clock, row, lock, form, started, recorded, claimed, restored, edits, crashes>>

\* claim_due reads the due rows; PostgreSQL locks them and skips locked ones.
ClaimSelect(i) ==
    /\ loop[i].pc = "idle" /\ IsDue
    /\ Postgres => lock = Nobody
    /\ loop' = [loop EXCEPT ![i] = [pc |-> "selected", saw |-> row.next, now |-> clock]]
    /\ lock' = IF Postgres THEN i ELSE lock
    /\ UNCHANGED <<clock, row, form, started, recorded, claimed, restored, edits, crashes>>

\* It advances the row, commits, and the loop starts the execution; a row that
\* was deleted meanwhile fails the commit.
ClaimCommit(i) ==
    /\ loop[i].pc = "selected"
    /\ loop' = [loop EXCEPT ![i] = IdleLoop]
    /\ lock' = IF lock = i THEN Nobody ELSE lock
    /\ IF row.live
         THEN /\ row' = [row EXCEPT !.last = loop[i].now, !.next = next_run(clock)]
              /\ claimed' = [claimed EXCEPT ![loop[i].saw] = @ + 1]
              /\ started' = [started EXCEPT ![i] = @ + 1]
         ELSE UNCHANGED <<row, claimed, started>>
    /\ UNCHANGED <<clock, form, recorded, restored, edits, crashes>>

\* execute_automation: whatever fails, a run is recorded.
Execute(i) ==
    /\ started[i] > 0
    /\ started' = [started EXCEPT ![i] = @ - 1]
    /\ recorded' = recorded + 1
    /\ UNCHANGED <<clock, row, lock, loop, form, claimed, restored, edits, crashes>>

-----------------------------------------------------------------------------
\* The owner's update or toggle: the next run is computed first.
EditCompute ==
    /\ row.live /\ form.pc = "idle" /\ edits < MaxEdits
    /\ edits' = edits + 1
    /\ \E a \in BOOLEAN, toggle \in BOOLEAN :
         /\ toggle => a = ~row.active
         /\ ~toggle => next_run(clock) # NoTime     \* validate_rrule
         /\ form' = [pc |-> "computed", active |-> a,
                     next |-> IF toggle /\ ~a THEN NoTime ELSE next_run(clock)]
    /\ UNCHANGED <<clock, row, lock, loop, started, recorded, claimed, restored, crashes>>

\* o was claimed after the edit under way had computed it as the next run.
Outdated(o) == form.next = o /\ row.live /\ row.next # o /\ claimed[o] > 0

\* update_by_id and toggle commit it, whatever was claimed since.
EditCommit ==
    /\ form.pc = "computed" /\ lock = Nobody
    /\ row' = IF row.live THEN [row EXCEPT !.active = form.active, !.next = form.next] ELSE row
    /\ restored' = [o \in Occurrences |-> restored[o] + (IF Outdated(o) THEN 1 ELSE 0)]
    /\ form' = IdleForm
    /\ UNCHANGED <<clock, lock, loop, started, recorded, claimed, edits, crashes>>

\* run_automation_by_id starts an execution and claims nothing.
RunNow(i) ==
    /\ row.live /\ edits < MaxEdits
    /\ edits' = edits + 1
    /\ started' = [started EXCEPT ![i] = @ + 1]
    /\ UNCHANGED <<clock, row, lock, loop, form, recorded, claimed, restored, crashes>>

DeleteAutomation ==
    /\ row.live /\ edits < MaxEdits /\ lock = Nobody
    /\ edits' = edits + 1
    /\ row' = [row EXCEPT !.live = FALSE]
    /\ recorded' = 0
    /\ UNCHANGED <<clock, lock, loop, form, started, claimed, restored, crashes>>

Crash(i) ==
    /\ crashes < MaxCrashes
    /\ crashes' = crashes + 1
    /\ loop' = [loop EXCEPT ![i] = IdleLoop]
    /\ lock' = IF lock = i THEN Nobody ELSE lock
    /\ started' = [started EXCEPT ![i] = 0]
    /\ UNCHANGED <<clock, row, form, recorded, claimed, restored, edits>>

Tick ==
    /\ clock < MaxTime /\ clock' = clock + 1
    /\ UNCHANGED <<row, lock, loop, form, started, recorded, claimed, restored, edits, crashes>>

Next ==
    \/ \E i \in Instances : ClaimSelect(i) \/ ClaimCommit(i) \/ Execute(i) \/ RunNow(i) \/ Crash(i)
    \/ EditCompute \/ EditCommit \/ DeleteAutomation \/ Tick

Spec == Init /\ [][Next]_vars

-----------------------------------------------------------------------------
\* No two claims take the same occurrence, whatever instances poll, crash, or start
\* late: a second claim of it needs an edit that had computed it as the next run
\* before the first claim and was committed after that.
ClaimedOnce == \A o \in Occurrences : claimed[o] <= 1 + restored[o]
=============================================================================
