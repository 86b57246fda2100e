------------------------------ MODULE Schedules ------------------------------
(***************************************************************************)
(* One browser schedule: its row at the server, the Chrome alarm that      *)
(* wakes it, and the ScheduleManager of the extension's service worker.    *)
(* Other schedules only delay the loops of `sync`, so every step of the    *)
(* loop may be delayed for any time.  Chrome may kill the worker between   *)
(* any two steps: its maps are lost, alarms and requests at the server     *)
(* are not.  Times are ticks; the recurrence rule is an interval.          *)
(***************************************************************************)
EXTENDS Integers, FiniteSets

CONSTANTS
    Interval,   \* ticks between two occurrences (FREQ and INTERVAL)
    MaxTime,    \* bound: the clock stops here
    Slots,      \* the Map objects `sync` builds, one per call under way
    NoSlot,     \* the run was started by an alarm
    NoTime,     \* null, no alarm
    MaxEdits,   \* bound: edits of the row by its owner
    MaxKills    \* bound: times Chrome kills the worker; 0 forbids it

\* What the bounds are.
BoundsAssumption ==
    /\ Interval \in Nat \ {0}
    /\ MaxTime \in Nat /\ MaxEdits \in Nat /\ MaxKills \in Nat
    /\ NoTime \notin Int /\ NoSlot \notin Slots

VARIABLES
    clock,
    row,        \* the browser_schedule row: [live, active, mine, next, last]
    alarm,      \* when Chrome fires the schedule's alarm
    paired,     \* auth.status().deviceId is this device
    maps,       \* the Map objects: the next run they hold for the schedule
    current,    \* which of them this.schedules is
    handled,    \* handledOccurrences
    sync,       \* the calls of sync under way, by the Map they build
    run,        \* the call of run under way: [pc, by, seen, last, next]
    posts,      \* completions sent by workers killed since
    edits, kills,
    boot,       \* the worker has started and not synchronised yet
    missed      \* history: this worker had a list or a completion fail, or an
                \* alarm fire before the Map that holds its schedule was in place

vars == <<clock, row, alarm, paired, maps, current, handled, sync, run, posts,
          edits, kills, boot, missed>>

Time == 0..MaxTime
Occurrence == 0..(MaxTime + 2 * Interval)   \* a late alarm may run the next one
Post == [last : Time, next : Occurrence]
Row == [live : BOOLEAN, active : BOOLEAN, mine : BOOLEAN,
        next : Occurrence \cup {NoTime}, last : Time \cup {NoTime}]

IdleSync == [pc |-> "idle", row |-> NoTime]
IdleRun == [pc |-> "idle", by |-> NoSlot, seen |-> NoTime, last |-> NoTime, next |-> NoTime]

\* Types: maps hold occurrences, and the run under way has what its step needs.
TypeOK ==
    /\ clock \in Time
    /\ row \in Row
    /\ alarm \in Occurrence \cup {NoTime}
    /\ paired \in BOOLEAN
    /\ maps \in [Slots -> Occurrence \cup {NoTime}]
    /\ current \in Slots
    /\ handled \subseteq Occurrence
    /\ sync \in [Slots -> [pc : {"idle", "asked", "listed", "running", "clearing", "ending"},
                           row : Row \cup {NoTime}]]
    /\ run \in [pc : {"idle", "fetching", "replaying", "sent", "recorded", "refused"},
                by : Slots \cup {NoSlot}, seen : Occurrence \cup {NoTime},
                last : Time \cup {NoTime}, next : Occurrence \cup {NoTime}]
    /\ posts \subseteq Post
    /\ edits \in 0..MaxEdits /\ kills \in 0..MaxKills /\ {boot, missed} \subseteq BOOLEAN

Init ==
    /\ clock = 0
    /\ row \in [live : {TRUE}, active : {TRUE}, mine : {TRUE}, next : {1}, last : {NoTime}]
    /\ alarm = NoTime
    /\ paired = TRUE
    /\ maps = [s \in Slots |-> NoTime]
    /\ current \in Slots
    /\ handled = {}
    /\ sync = [s \in Slots |-> IdleSync]
    /\ run = IdleRun
    /\ posts = {}
    /\ edits = 0 /\ kills = 0 /\ boot = TRUE /\ missed = FALSE

-----------------------------------------------------------------------------
\* nextOccurrence: the first point of the rule's grid after a time.
nextOccurrence(next, after) ==
    IF next > after THEN next
    ELSE next + Interval * ((after - next) \div Interval + 1)

Later(t, u) == IF t > u THEN t ELSE u

\* What sync keeps: an active schedule of this device with a next run.
Runnable(r) == r.live /\ r.active /\ r.mine /\ r.next # NoTime

\* run(): what it starts with the Map m, called by `by` (a sync or an alarm).
CanRun(m, s) == m[s] # NoTime /\ run.pc = "idle" /\ paired
Started(m, s, by) == [IdleRun EXCEPT !.pc = "fetching", !.by = by, !.seen = m[s]]

\* syncSchedules asks for the list, when the worker starts or the side panel or a
\* pairing wants it; its Map is a new one.
StartSync(s) ==
    /\ paired
    /\ sync[s].pc = "idle" /\ s # current
    /\ sync' = [sync EXCEPT ![s].pc = "asked"]
    /\ maps' = [maps EXCEPT ![s] = NoTime]
    /\ boot' = FALSE
    /\ UNCHANGED <<clock, row, alarm, paired, current, handled, run, posts,
                   edits, kills, missed>>

\* list_schedules reads the rows; the answer may still travel.
ListSchedules(s) ==
    /\ sync[s].pc = "asked"
    /\ sync' = [sync EXCEPT ![s] = [pc |-> "listed", row |-> row]]
    /\ UNCHANGED <<clock, row, alarm, paired, maps, current, handled, run, posts,
                   edits, kills, boot, missed>>

\* The request failed: syncSchedules rejects.
ListFails(s) ==
    /\ sync[s].pc \in {"asked", "listed"}
    /\ sync' = [sync EXCEPT ![s] = IdleSync]
    /\ missed' = TRUE
    /\ UNCHANGED <<clock, row, alarm, paired, maps, current, handled, run, posts,
                   edits, kills, boot>>

\* The body of sync's loop for this schedule.  The list omits a deleted row and
\* one of another device: their alarms are left alone.
SyncDrops(s) ==
    /\ ~Runnable(sync[s].row)
    /\ alarm' = IF sync[s].row.live /\ sync[s].row.mine THEN NoTime ELSE alarm
    /\ sync' = [sync EXCEPT ![s].pc = "clearing"]
    /\ UNCHANGED <<maps, current, handled, run>>

SyncArmsLess(s) ==
    /\ Runnable(sync[s].row) /\ sync[s].row.next > clock
    /\ maps' = [maps EXCEPT ![s] = sync[s].row.next]
    /\ sync' = [sync EXCEPT ![s].pc = "clearing"]
    /\ UNCHANGED <<alarm, current, handled, run>>

SyncArms(s) ==
    /\ Runnable(sync[s].row) /\ sync[s].row.next > clock
    /\ maps' = [maps EXCEPT ![s] = sync[s].row.next]
    /\ alarm' = sync[s].row.next
    /\ sync' = [sync EXCEPT ![s].pc = "clearing"]
    /\ UNCHANGED <<current, handled, run>>

\* A missed occurrence: at most one catch-up run, whatever was missed since.
SyncCatchesUp(s) ==
    LET next == sync[s].row.next
        m == [maps EXCEPT ![s] = next]
    IN  /\ Runnable(sync[s].row) /\ next <= clock
        /\ maps' = m
        /\ IF next \in handled
             THEN /\ sync' = [sync EXCEPT ![s].pc = "clearing"]
                  /\ UNCHANGED <<current, handled, run>>
             ELSE /\ handled' = handled \cup {next}
                  /\ current' = s
                  /\ run' = IF CanRun(m, s) THEN Started(m, s, s) ELSE run
                  /\ sync' = [sync EXCEPT ![s].pc = IF CanRun(m, s) THEN "running" ELSE "clearing"]
        /\ UNCHANGED alarm

SyncRow(s) ==
    /\ sync[s].pc = "listed"
    /\ SyncDrops(s) \/ SyncArms(s) \/ SyncCatchesUp(s)
    /\ UNCHANGED <<clock, row, paired, posts, edits, kills, boot, missed>>

\* The last loop of sync clears the alarm of a schedule that vanished.
SyncClear(s) ==
    /\ sync[s].pc = "clearing"
    /\ alarm' = IF maps[current] # NoTime /\ maps[s] = NoTime THEN NoTime ELSE alarm
    /\ sync' = [sync EXCEPT ![s].pc = "ending"]
    /\ UNCHANGED <<clock, row, paired, maps, current, handled, run, posts,
                   edits, kills, boot, missed>>

SyncEnd(s) ==
    /\ sync[s].pc = "ending"
    /\ current' = s
    /\ sync' = [sync EXCEPT ![s] = IdleSync]
    /\ UNCHANGED <<clock, row, alarm, paired, maps, handled, run, posts,
                   edits, kills, boot, missed>>

\* onAlarm: a fired alarm is gone, whether or not a run starts.
AlarmFires ==
    /\ alarm # NoTime /\ alarm <= clock
    /\ alarm' = NoTime
    /\ run' = IF CanRun(maps, current) THEN Started(maps, current, NoSlot) ELSE run
    /\ missed' = (missed \/ (maps[current] = NoTime /\ \E s \in Slots : maps[s] # NoTime))
    /\ UNCHANGED <<clock, row, paired, maps, current, handled, sync, posts,
                   edits, kills, boot>>

\* run(): the workflow is fetched and its steps begin.
Replay ==
    /\ run.pc = "fetching"
    /\ run' = [run EXCEPT !.pc = "replaying"]
    /\ UNCHANGED <<clock, row, alarm, paired, maps, current, handled, sync, posts,
                   edits, kills, boot, missed>>

\* run(): the replay ended, was paused or failed, or the workflow could not be
\* fetched; the completion is sent with the time it has become.
Outcome ==
    /\ run.pc \in {"fetching", "replaying"}
    /\ run' = [run EXCEPT !.pc = "sent", !.last = clock,
                          !.next = nextOccurrence(run.seen, Later(clock, run.seen))]
    /\ UNCHANGED <<clock, row, alarm, paired, maps, current, handled, sync, posts,
                   edits, kills, boot, missed>>

\* mark_run's condition, and the values it writes.
CanMark(p) == row.live /\ row.mine /\ row.active /\ (row.last = NoTime \/ row.last < p.last)
Marked(p) == [row EXCEPT !.last = p.last, !.next = p.next]

\* complete_schedule_run serves the live worker's completion: 200, or 403,
\* 404 or 409.
CompleteRun ==
    /\ run.pc = "sent"
    /\ LET p == [last |-> run.last, next |-> run.next] IN
       /\ row' = IF CanMark(p) THEN Marked(p) ELSE row
       /\ run' = [run EXCEPT !.pc = IF CanMark(p) THEN "recorded" ELSE "refused"]
       /\ missed' = (missed \/ ~CanMark(p))
    /\ UNCHANGED <<clock, alarm, paired, maps, current, handled, sync, posts,
                   edits, kills, boot>>

\* The request does not reach the server, or its answer does not come back.
PostFails ==
    /\ run.pc \in {"sent", "recorded"}
    /\ run' = [run EXCEPT !.pc = "refused"]
    /\ missed' = TRUE
    /\ UNCHANGED <<clock, row, alarm, paired, maps, current, handled, sync, posts,
                   edits, kills, boot>>

\* complete_schedule_run serves a completion whose worker is gone.
CompleteLate(p) ==
    /\ p \in posts
    /\ posts' = posts \ {p}
    /\ row' = IF CanMark(p) THEN Marked(p) ELSE row
    /\ UNCHANGED <<clock, alarm, paired, maps, current, handled, sync, run,
                   edits, kills, boot, missed>>

\* The sync that awaited the run goes on, or rejects with it.
AfterRun(ok) ==
    sync' = [s \in Slots |->
               IF run.by # s THEN sync[s]
               ELSE IF ok THEN [sync[s] EXCEPT !.pc = "clearing"] ELSE IdleSync]

\* run(): the completion was accepted; the next alarm is set.
RunEnds ==
    /\ run.pc = "recorded"
    /\ maps' = [maps EXCEPT ![current] = run.next]
    /\ alarm' = run.next
    /\ run' = IdleRun
    /\ AfterRun(TRUE)
    /\ UNCHANGED <<clock, row, paired, current, handled, posts, edits, kills, boot, missed>>

\* run(): the completion failed; only the running mark is cleared.
RunFails ==
    /\ run.pc = "refused"
    /\ run' = IdleRun
    /\ AfterRun(FALSE)
    /\ UNCHANGED <<clock, row, alarm, paired, maps, current, handled, posts,
                   edits, kills, boot, missed>>

-----------------------------------------------------------------------------
\* The owner edits or deletes the schedule in the web interface.
UpdateSchedule ==
    /\ row.live /\ edits < MaxEdits
    /\ edits' = edits + 1
    /\ \E a, m \in BOOLEAN, n \in ({clock + 1} \cap Time) \cup {NoTime} :
         row' = [row EXCEPT !.active = a, !.mine = m, !.next = n]
    /\ UNCHANGED <<clock, alarm, paired, maps, current, handled, sync, run, posts,
                   kills, boot, missed>>

DeleteSchedule ==
    /\ row.live /\ edits < MaxEdits
    /\ edits' = edits + 1
    /\ row' = [row EXCEPT !.live = FALSE]
    /\ UNCHANGED <<clock, alarm, paired, maps, current, handled, sync, run, posts,
                   kills, boot, missed>>

\* signOut: the device was revoked.  A later pairing is another device.
SignOut ==
    /\ paired /\ edits < MaxEdits
    /\ edits' = edits + 1
    /\ paired' = FALSE
    /\ UNCHANGED <<clock, row, alarm, maps, current, handled, sync, run, posts,
                   kills, boot, missed>>

ForgetButHandled ==
    /\ maps' = [s \in Slots |-> NoTime]
    /\ sync' = [s \in Slots |-> IdleSync]
    /\ run' = IdleRun
    /\ posts' = IF run.pc = "sent" THEN posts \cup {[last |-> run.last, next |-> run.next]}
                                   ELSE posts
    /\ boot' = TRUE /\ missed' = FALSE
    /\ UNCHANGED <<clock, row, alarm, paired, current, handled, edits>>

\* What is left when Chrome ends the worker; its last request may be served, and
\* the heartbeat alarm starts another worker.
Forget ==
    /\ maps' = [s \in Slots |-> NoTime]
    /\ handled' = {}
    /\ sync' = [s \in Slots |-> IdleSync]
    /\ run' = IdleRun
    /\ posts' = IF run.pc = "sent" THEN posts \cup {[last |-> run.last, next |-> run.next]}
                                   ELSE posts
    /\ boot' = TRUE /\ missed' = FALSE
    /\ UNCHANGED <<clock, row, alarm, paired, current, edits>>

Quiet == run.pc = "idle" /\ \A s \in Slots : sync[s].pc = "idle"

WorkerKilled == ~Quiet /\ kills < MaxKills /\ kills' = kills + 1 /\ Forget
\* Chrome ends a worker that has been idle for 30 seconds.
IdleKilled == Quiet /\ MaxKills > 0 /\ ~boot /\ Forget /\ UNCHANGED kills

Tick ==
    /\ clock < MaxTime
    /\ clock' = clock + 1
    /\ UNCHANGED <<row, alarm, paired, maps, current, handled, sync, run, posts,
                   edits, kills, boot, missed>>

SyncStep(s) == ListSchedules(s) \/ SyncRow(s) \/ SyncClear(s) \/ SyncEnd(s)
RunStep == Replay \/ Outcome \/ CompleteRun \/ RunEnds \/ RunFails

Next ==
    \/ \E s \in Slots : StartSync(s) \/ SyncStep(s) \/ ListFails(s)
    \/ AlarmFires \/ RunStep \/ PostFails
    \/ \E p \in posts : CompleteLate(p)
    \/ UpdateSchedule \/ DeleteSchedule \/ SignOut
    \/ WorkerKilled \/ IdleKilled \/ Tick

Spec == Init /\ [][Next]_vars

\* A worker synchronises when it starts, the event loop runs what is under way,
\* alarms fire and time goes on.  No sync is made again, no worker ended and no
\* request lost for certain.
Fairness ==
    /\ WF_vars(boot /\ \E s \in Slots : StartSync(s))
    /\ \A s \in Slots : WF_vars(SyncStep(s))
    /\ WF_vars(RunStep) /\ WF_vars(AlarmFires) /\ WF_vars(Tick)

FairSpec == Spec /\ Fairness

-----------------------------------------------------------------------------
\* A schedule its owner leaves alone, held by the idle manager for a coming time,
\* has its alarm at that time: overlapping calls of sync, catch-up runs, failed and
\* late completions and killed workers never leave it armed at another or not at all.
FutureHasAlarm ==
    edits = 0 /\ Quiet /\ maps[current] # NoTime /\ maps[current] > clock => alarm = maps[current]

\* A due schedule that its owner leaves alone is run, or at least recorded as run,
\* unless a list or a completion of the present worker fails or its alarm fires
\* before the sync that set it is over: overlapping calls of sync, catch-up runs and
\* workers killed at any step never leave it waiting, and a worker that starts after
\* such a failure makes up for it.
DueIsRun ==
    (Runnable(row) /\ paired /\ row.next <= clock)
        ~> (~Runnable(row) \/ ~paired \/ row.next > clock \/ missed \/ edits > 0)

=============================================================================
