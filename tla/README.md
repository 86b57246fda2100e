# Tide-Bot: TLA+ models, checks and proofs

Tide-Bot is Open WebUI with two additions of its own, a Chrome extension that lets a chat drive one
browser tab and Ted-Bot, a companion window that follows the chat the user has open, and with its
own chat timers, automations, sub-agents and tool approval on the server. This project models the
concurrent cores of the program, checks them with TLC on small instances and proves most of their
safety properties with TLAPS for instances of any size.

Source paths are relative to the repository root; `b/` stands for `backend/open_webui/` and `x/`
for `browser-extension/src/background/`.

## 1. Inventory

| Component | State | Operations | Module |
|---|---|---|---|
| Browser command broker and its socket service, `b/utils/browser_extension_broker.py`, `b/socket/browser_extension.py` | device and session pools, pending commands, busy marks, sequence counters, a future and a transport task per command | join, open/close session, dispatch, result, cancel, timeout, disconnect, revoke | `BrowserBroker`; abstractly `DeviceLock` |
| Extension transport, approvals, executor, `x/transport.ts`, `approvals.ts`, `service-worker.ts` | joined flag, replay cache, sequence table, prompts, running commands | connect, request, approve, execute, session changes, worker restart | `ExtensionCommands` |
| Single tab controller and debugger, `x/tab-controller.ts`, `debugger.ts` | the controlled session, the facade's tab, what Chrome has attached | open, close, tab activated, removed, replaced | `ControlledTab` |
| Pairing and tokens, `b/routers/browser_extension.py`, `b/models/browser_extension.py`, `x/auth.ts` | grants, device rows, rotating credential, the client's copies in memory and storage | pair, approve, exchange, claim, refresh, revoke | `DeviceTokens` |
| Schedules, `x/schedules.ts` and their endpoints | schedule row, alarm, maps, handled occurrences | sync, run, complete, edit | `Schedules` |
| Companion presence, `b/socket/companion_presence.py`, `src/lib/ted-bot/presence.ts` | entries and leases with time to live, revision, emission lock; last applied revision of a companion | update, clear, subscribe, disconnect, expire, emit | `Presence` (in memory), `PresenceEmission` (Redis) |
| Shared documents, `b/socket/main.py`, `b/socket/utils.py` | update list, users, room | join, update, leave, disconnect, compact | `SharedDocument` |
| Session and usage pools, same files | session pool with heartbeats, Redis lock of the cleanup; usage entries | connect, heartbeat, sweep, disconnect; report, clean up | `SessionPool`, `UsagePool` |
| Task registry, `b/tasks.py` | Redis hash, sets and streams; or the lists of one process | create, save, stop, clean up, listen | `TaskRegistry`, `LocalTasks` |
| Rate limits, `b/utils/rate_limit.py` | buckets in Redis or in memory | check | `RateLimit` |
| Scheduler loop: chat timers, automations, calendar alerts, `b/utils/timers.py`, `b/utils/automations.py`, `b/models/automations.py` | timer, automation and event rows; claims under way | create, claim, execute, put back, cancel, edit, alert | `ChatTimers`, `Automations`, `CalendarAlerts` |
| Messages of a chat, `b/models/chats.py`, `chat_messages.py`, `b/main.py` | tree in the chat JSON, message rows, copies in tabs | send, save, delete, load, walk | `ChatTree` |
| Tool approval, `b/utils/tool_approval.py`, `middleware.py` | calls and results in the stored reply, permission mode, completions | resolve, drain, execute, pause, reply, stop, switch mode | `ToolApproval` |
| Sub-agents, `b/utils/subagents.py` | semaphore, background set, pending results in the parent chat | delegate, stop, deliver, answer | `SubagentSlots`, `SubagentResults` |

What is hard here: the server is one asyncio loop per process, and every `await` lets other
handlers run with values read before it; several processes share Redis and the database, where a
read and the write that depends on it are separate commands; the extension's worker is killed at
any time and keeps half of its state in memory only; commands, tasks, prompts and sub-agents can
be ended from several sides in the same turn; expiry and retries race with late answers.
`PROJECT.json` lists under "hazards" where that bites, line by line, with the property that would
catch it.

How the parts interact: chat tools call `dispatch` of the broker, which sends to the extension and
waits; `ExtensionCommands` therefore runs against `DeviceLock`, the abstract specification the
broker is shown to implement, and not against the whole broker. The socket server owns the pools
and tells presence and documents of disconnects. The scheduler loop runs its three jobs one after
another; timers and sub-agents put messages into chats and wait for the task registry to be empty.

## 2. Modules

One module per component. An action is one uninterrupted run of an event loop, or one Redis or
database command where processes compete. Requests the code refuses before it assigns anything are
stutter steps without an action. The names of variables and actions follow the code; `PROJECT.json`
maps each definition to its lines. Operators named `...Keeps`, `...Unlocked` and so on that stand
just before a definition are slips of it used as mutants and occur in no specification.

* `BrowserBroker`: `devices`, `sessions`, `pending`, `mutating`, `reading`, `sequences` are the
  broker's dictionaries, `req`, `future`, `transport` the fields of a pending command, `caller` the
  suspended `dispatch`. `Settle` is the one place where commands leave the table. `join` is two
  actions, since sockets close and join while it awaits; `DispatchAbandon` may win although the
  future has just been set, because `wait_for` shields it. Command contents, user ids and
  `heartbeat` are abstracted.
* `DeviceLock`: per device, any number of readers or one writer; `Begin`, `End`.
  `BrowserBroker!ImplementsDeviceLock` instantiates it with the broker's pending commands.
* `ExtensionCommands`: one browser. Requests may be delayed, repeated and reordered; the clock of
  the server may be ahead by `Skew`; the policy answers allow, ask or deny; `WorkerKilled` loses
  the replay cache, the sequences and what is running. `dropped` remembers ids that a full cache
  gave up, `rejoined` the commands handled before a later join, which clears the sequence table.
* `ControlledTab`: methods and tab events of the controller cut at their awaits, the messages to the
  server in order, Chrome's attachments beside what the facade believes.
* `DeviceTokens`: requests as they stand between read and conditional update, with lost answers,
  kills between commit and storage, and a grace window counted in ticks.
* `Schedules`: every call of `sync` builds a map of its own; completions of killed workers may
  still arrive. Occurrences are a grid of ticks. `boot` says that a worker has started and not yet
  synchronised, `missed` remembers that a request of the present worker failed or that its alarm found
  no schedule.
* `Presence`: time is what is left of each time to live; `reads` are updates between their session
  check and `store.update`; the emission lock is an asyncio lock, first come first served. Delivery
  is part of the send. The rate limit is left out.
* `PresenceEmission`: the revision, the Redis lock with its life and deadline, handlers and expiry
  loops of two instances.
* `SharedDocument`: the handlers of both modes (`redis` is chosen at the start) cut at awaits and
  Redis commands; updates are numbered.
* `SessionPool`, `UsagePool`, `TaskRegistry`, `LocalTasks`, `RateLimit`: one Redis command per step,
  or one step between awaits.
* `ChatTimers`, `Automations`, `CalendarAlerts`: the claim is a select and a commit; `Postgres` says
  whether the select locks.
* `ChatTree`: each request is a transaction on the JSON (read and locked, written whole) followed by
  row writes; a send is four such transactions. A load is different: `get_chat_by_id` reads the row
  without a lock and, when `Repair` changed the current message (one that does not exist, a reply
  without parent and timestamp, or a compacted message with others below it), writes the whole JSON
  back later (`LoadWrite`), over what was committed meanwhile; `overwritten` remembers what that lost.
  The endpoints that begin with `get_chat_by_id` stand as such a load; compaction is a load and an
  upsert of the summary. Ids are given in order, contents are left out.
* `ToolApproval`: the stored reply holds a status, an approval mark and a result per call; clicks
  and completions read it and write all of it back later. The drain's two writes of the same output
  are one step, and so are its reading of the message and its pause, although other awaits lie between
  them (`middleware.py:3265-3293`). The scope is a saved chat with a message id and native function
  calling: only there does the code pause (`middleware.py:5602-5605`). Temporary chats and legacy
  function calling (`middleware.py:3058-3070`) run their tools without asking.
* `SubagentSlots`, `SubagentResults`: `delegate` and the delivery of background results; a
  completion is a step that ends. A stop of a sub-agent while it delivers (`subagents.py:601-660`) and a
  tab whose save puts a result back that a turn has taken are not in the model.
* `Selection`: the comprehensions with which `ChatTree` and `SubagentResults` select from sequences,
  as a recursive function.

Components that run in the same process and share no state the models keep are put side by side in
one module: `ExtensionWorker` (`DeviceTokens`, `ControlledTab`, `Schedules`), `PresenceStores`
(`Presence`, `PresenceEmission`), `SocketState` (`SharedDocument`, `UsagePool`), `TaskRegistries`
(`TaskRegistry`, `LocalTasks`, `RateLimit`), `SchedulerLoop` (`ChatTimers`, `Automations`,
`CalendarAlerts`) and `ChatParts` (`ToolApproval`, `ChatTree`, `SubagentSlots`, `SubagentResults`). Each extends the first and instantiates the others, for
any value of the constants, and names the properties that the runs check and the theorems state.

The MC modules extend these, add the session pool, about which nothing is proved, with the small values
it is checked with, and let a variable chosen at the start say which of the parts takes steps. No
property relates two of the parts, so checking the parts one at a time loses no behaviour that matters to
them. The fairness of a part is assumed in its behaviours only, and its liveness property is stated
for them only.

The proofs are in `BrowserBrokerProofs` and `ExtensionCommandsProofs`, which extend their component, and
in `ExtensionWorkerProofs`, `PresenceProofs`, `SocketStateProofs`, `TasksProofs`, `SchedulerProofs` and
`ChatProofs`, which extend the modules just named.

## 3. Runs

| Run | Parts | Properties | Result |
|---|---|---|---|
| `broker` | `BrowserBroker` | `TypeOK`, `SettledOnce`, `OneLiveSessionPerDevice`, `PendingSessionsAreLive`, `BusyMarksMatchPending`, `OutcomeIsFinal`, `ImplementsDeviceLock`, `BusyDeviceFrees` | hold |
| `extension` | `ExtensionCommands`, `DeviceLock` | `AtMostOnce`, `SequenceBacksCache` | hold |
| `worker` | `Schedules`, `ControlledTab`, `DeviceTokens` | `FutureHasAlarm`, `DueScheduleIsRun`; `ServerHoldsOurs`, `FacadeIsAttached`; `GrantUsedOnce`, `LostAnswersAreForgiven`, `RevokedGetsNothing` | hold |
| `presence` | `Presence`, `PresenceEmission` | `QuietCompanionsAgree`, `LeaseKeepsRevision`; `EmittedInOrder`, `ChangesAreTold` | hold |
| `socket_state` | `SharedDocument`, `SessionPool`, `UsagePool`, `Presence` | `NothingLost`, `MembersConverge`; `OrphansReaped`; `UsageListed`; `ClosedSocketLeaves` | hold |
| `tasks` | `TaskRegistry`, `LocalTasks`, `RateLimit` | `GoneWhenDone`, `StoppedTaskEnds`; `MissesOnlyMoved`; `LimitIsKept` | hold |
| `scheduler` | `ChatTimers`, `Automations`, `CalendarAlerts` | `FiredOnce`, `CancelledStays`, `TimerFires`; `ClaimedOnce`; `AlertNotMissed` | hold |
| `chat` | `ToolApproval`, `ChatTree`, `SubagentSlots`, `SubagentResults` | `RunsOnlyApproved`, `NeverStuck`; `NothingDropped`; `SlotsAreHeld`; `AnsweredExactlyOnce` | hold |
| `broker_revoke` | `BrowserBroker` | `NoDispatchAfterRevoke` | violated |
| `ext_stale_prompt` | `ExtensionCommands` | `RunsInItsSession` | violated |
| `presence_reset` | `Presence` | `SubscribersAgree` | violated |
| `tool_twice` | `ToolApproval` | `RunsOnce` | violated |

The passing runs have between about thirty thousand and two million states. Every property of a
passing run has a mutant in `PROJECT.json`: a plausible slip in one definition under which TLC finds
the property violated. Deadlock is not checked: users may stop using the program, and every
instance has finitely many commands, messages and requests. The other modules' type invariants
hold on the same instances; the runs keep to what can go wrong.

What the violated runs show:

* `broker_revoke`: the design says revocation takes effect immediately; the endpoint updates the
  row and nothing tells the broker, so a registered device goes on receiving commands.
* `ext_stale_prompt`: the session is compared before the approval prompt; an approval given after
  another session was opened runs the command there.
* `presence_reset`: a connected companion without a lease has applied revision 2; the counter
  restarts, and it drops the next windows' revisions 1 and 2. `QuietCompanionsAgree` shows that a
  reset is the only way to such a disagreement, `LeaseKeepsRevision` that a lease prevents it.
* `tool_twice`: an approved call stays `queued` until its tool has run, and a second approval is
  accepted meanwhile; both completions run the tool.

### Bounds

* Broker: two sockets are what displacement, a late join and a reconnect need; two commands give a
  read or write beside another, and `MaxPending = 2` fills the table. One device: the theorems hold
  for any number.
* Extension: two commands and a cache of one entry make the cache overflow; a clock of one tick with
  `ReplayTTL = 1` reaches expiry and `MaxLife = 1` the deadline.
* Worker: an interval of one tick and a clock of two give a due, a coming and a missed occurrence; two
  overlapping calls of `sync`; two handlers race over two sessions and two tabs; three tokens are
  the current, the previous and one replayed; the clock passes the grace window.
* Presence: a time to live of two makes the boundary differ from expired and fresh; two revisions
  and one waiting emission order two states differently from their changes. Over Redis the lock
  lives longer than the deadline, as in the code (30 s and 5 s).
* Socket state: three updates reach the compaction threshold; two instances, one crash and one Redis
  error for the session pool; three sessions of one process for usage.
* Tasks: two tasks on two instances, one lost subscription, one crash; three tasks for the iterator
  to skip one; a limit of two in a window of two buckets over four buckets.
* Scheduler: three claims let a timer be put back and claimed again; occurrences at 1, 2 and 4 make
  the grid uneven; the alert's window of 5 against an interval of 3 and 2 of jitter keeps the ratio
  of the code.
* Chat: two calls and two completions at once, three clicks from two tabs; six messages, three
  requests and one failed row write, from a chat in order, a compacted one and one whose reply has lost
  its parent; two delegations of each kind for one slot; two results in two
  processes beside a prompt of the user, so at most three turns.

`SYMMETRY` is used in the `extension` run only, which has no liveness property and whose properties
name no command.

### Fairness

* broker: a `dispatch` whose future is done resumes and its timer fires. Nothing is assumed of the
  extension, the sockets or the transport.
* schedules: the event loop runs on, Chrome's alarms fire, time passes, and a worker that starts calls
  `syncSchedules` once (`service-worker.ts:167-171`; the heartbeat alarm of `lifecycle.ts:26` starts it
  again after a kill). Nothing is assumed of kills, of further calls of `sync`, or of requests
  succeeding: `DueScheduleIsRun` says instead what a failure costs, namely the wait for the next start.
* presence: time passes, the expiry loop runs, reads end, sends complete, an asyncio lock goes to
  its first waiter; over Redis, instances that ended come back.
* session pool: loops run on, time passes, instances come back; at most one error.
* task registry: Redis answers, coroutines and listeners go on; a task itself need never end.
* timers: every instance polls again and again (strong fairness, since another may hold the row),
  executors go on, a busy chat becomes free.
* sub-agent results: something under way goes on, that is, turns and sub-agents end.

## 4. Proofs

`BrowserBrokerProofs` proves, for every set of devices, sockets, sessions and tabs, every finite set
of commands and every value of the limits: `TypeCorrect`, `BusyMarksCorrect`, `MutationExclusive`,
`EveryCommandSettledOnce`, `SequencesCorrect`, `PendingOnLiveSessions`, `SingleLiveSession`,
`SessionsDieWithSocket`, the action property `OutcomesFinal`, and the refinement
`BrokerIsDeviceLock`. The only assumption is `BrokerAssumption`: session ids belong to a device, the
limits are naturals, commands are finitely many and `None` is not a value.

Most actions end commands through `Settle`, so `CommandShape` first shows that every step
dispatches one command, settles a subset of the pending ones, resumes a caller, ends a transport or
leaves the commands alone; each invariant is then proved once per shape. They are not inductive
alone: that settling keeps the marks right needs mutation to be exclusive, exclusiveness needs the
marks to be right, and both need pending commands to have requests and undecided futures;
`CommandInv` is their conjunction. `PoolInv` does the same for the pools: a session dies with its
socket only if it sits on its device's socket, and a pending command is on a live session only if
the device has no other. For the refinement, a dispatch is `Begin` because the marks it checks are
those of the pending commands, and every settling is an `End` of a set of active commands.

`ExtensionCommandsProofs` proves `TypeCorrect` and `ExecutedAtMostOnce` for any number of commands
and sessions and any delays, repeats and restarts, under `SkewAssumption`: the clock skew plus the
longest life of a command is at most the time to live of the replay cache. The inductive invariant
`OnceInv` says why a command that was handled cannot be accepted again: its id is cached, or its
deadline has passed, or its session is neither open nor about to be opened again; and that the
cache keeps an id at least until the deadline. The reason has to be one of three because each of
them is lost separately: the cache by a killed worker, the session by a reconnect.

The second result there, `HandledOnceSinceJoin`, is about a cache that is full: `SequenceInv` adds to
`OnceInv` that while a socket is joined the table holds, for the session of every command handled since
the join, at least its sequence number; so whatever repeats of it arrive are refused although the cache
has given the id up. A join clears the table, and section 6 has what follows.

`ChatProofs` is about `ToolApproval`, `SubagentSlots`, `ChatTree` and `SubagentResults`.
`OnlyApprovedRun`: for any number of tabs, calls, completions, clicks, mode switches, stops and
failures, a tool call is executed only if the user approved it or it was made with full
permissions. It assumes that the bounds are naturals. `RunsOnlyApproved` alone is not
inductive: a completion executes what it read earlier, and writes back the whole output over what
others wrote since. `MarksAreAllowed` adds that every approval mark, in the stored reply, in each
copy a click or a completion will still write, and in each list of calls about to run, is of an
allowed call. Two further facts carry it: a pause or a resolution never marks another call, and a
completion that is about to execute has a call left (`MinIn`, by well-founded induction on the
naturals, gives it a first one). `ReplyIsNeverStuck` rests on `UnstuckInv`, which holds as long as
nothing was stopped, failed or switched: every completion works in the mode of the reply, none of the
copies asks in full mode, calls are known to whoever holds them, a drain that is about to write has
all approved calls of its copy behind it, and without a completion the reply is finished or asks.
`MaxTasks # 0`, one completion at least, is the only assumption added for it. `SlotsAreNotLost`
counts: the permits left are the limit less the foreground delegations that hold one, and the active set
is the background delegations under way, under `SlotAssumption` (finitely many delegations, limits of
one at least).

`MessagesAreKept` is about the tree, under `TreeAssumption` (the bounds are naturals, two messages at
least) and with `Locked` as a hypothesis, PostgreSQL's row lock. `NothingDropped` speaks of quiet
states only; `TreeInv` says of every state that a message created and not deleted is stored or `Due`,
that is, in the data of a request under way which its next transaction will add, and that a
transaction has the row to itself, so that what it read is still what is stored. Only the write-back of
a load can break that, and what it removes is in `overwritten`, by which the property is weakened: it
says that there is no other way to lose a message. One lemma per operation on a history says what it
stores: repairing the current message, summarising and linking change no message, an upsert adds one, a
merge keeps both sides, a delete removes what it names. They rest on `OnlyFacts`: what `Selection!Only`
selects.

`ResultsAreGivenOnce` is about the results of background sub-agents, under `ResultAssumption`
(sub-agents are not turns) and with `Postgres` as a hypothesis: no result is given to two turns, and one
that reached the chat waits there, is about to be given to a turn or has been, unless a completion failed
to start. That is the safety half of `AnsweredExactlyOnce`. `ResultInv` says that a result is in one
place only, and that whoever is between reading the chat and committing has the row, so that the
batch it read still waits when it takes it.

`ExtensionWorkerProofs` is about the three parts of the extension's worker.

* Pairing and tokens, under `TokenAssumption` (the grace window and the bounds are naturals).
  `MadeInv` says that a device exists once its grant is consumed or its claim served, and that
  nobody holds a credential or refreshes before; `OneDevicePerGrant` and the action property
  `RevokedDeviceGetsNothing` follow from it. `LossesAreForgiven` needs `ForgiveInv`: as long as the
  refreshes of a device do not overlap, whatever the client has in memory, in storage, or in the one
  answer it still waits for is the row's current token or its previous one, and the previous one
  only while the grace window lets it be replayed. Each lost answer, lost connection and kill moves
  the client to another place of this relation, and none leaves it.
* The controlled tab. `DebuggerIsReal` is inductive as it stands. `ServerAgrees`, under
  `TabAssumption`, needs the order of the messages: `TabInv` says that every message has a handler
  that awaits its answer, that opens and closes alternate on the way, that the server is ready for
  the first and that the last is about the session the controller holds.
* Schedules. `ComingRunsAreArmed`, under `BoundsAssumption` (an interval of one tick at least). While
  the owner leaves the schedule alone, the row's next run is the first occurrence after its last
  run; alarm, maps and lists under way hold only times the row had before; a map with a coming time
  has its alarm; and the completion of a run names the first occurrence after it was sent, those of
  killed workers earlier ones. Without the last part an old completion could move the row to a time
  nobody has an alarm for.

`PresenceProofs` is about `Presence` and `PresenceEmission`.
`CompanionsAgree` follows from `PresenceInv`: since the last reset, what waits to be sent and what a
companion has applied is never newer than the store, names the active record if it has the store's
revision, and a companion behind the store has a state waiting for it. The proof goes through a
relation `Succeeds` between the store before and after an operation, shown once per operation of the
store. `RevisionIsKept` is an action property, for every lease. `StatesAreEmittedInOrder` is about Redis:
whoever is past the acquisition owns the key, because the work ends before the lock's life does
(`EmissionAssumption`, `MaxHold < LockTtl`; 5 s and 30 s in the code), and what it has read is not
older than what was sent last.

`SocketStateProofs` is about `SharedDocument` and `UsagePool`.
`UpdatesAreNotLost` and `ClientsConverge` share `DocInv`: what a session is owed it has or
a handler is about to send, a compacted list holds what the list held, and until the first compaction
over Redis or exit the list is complete. `ModelInUseIsListed` is for one process
(`\A m, n \in Nodes : m = n`), where the copy a handler works on is still the entry; section 6 has
what two processes do.

`TasksProofs` is about `TaskRegistry`, `LocalTasks` and `RateLimit`. `CleanedTasksAreGone`
needs that a task is cleaned up only when it is over, so that its save has been answered;
`StopsMissOnlyMoved` counts: `StopInv` says, for every call of `stop_item_tasks` in its loop, that the tasks it
was asked to stop and has not met, and that still run, are in the list at or after its index, except
for at most one per cleanup that took an earlier entry away. It rests on the list having no entry twice,
so that `list.remove` removes the one and moves those behind it by one.

`RateLimitIsKept` proves both halves of `LimitIsKept` for any limit, any finite set of processes and
any window of whole buckets (`RateAssumption`). `RateInv` counts per bucket: Redis has counted no more
than was asked, less the processes about to count (`CountsAsked`), and, as long as Redis answers and for
the buckets a check adds up, no less than was let through, plus the processes that have counted and
not answered (`CountsLet`). `Lives` is the hazard at the expiry: a bucket outlives every check that
adds it up. The rest is arithmetic about sums, stated once: sums are numbers and grow with
their terms (`TotalGrows`), add up (`TotalAdds`), and the sum over the seconds of some buckets is
the sum of the buckets' sums (`SumByBucket`); `WindowOfBuckets` relates windows to buckets.

`SchedulerProofs` is about `ChatTimers` and `Automations` and `CalendarAlerts`.
`TimerFiresOnce`, `TimerStaysCancelled` and `OccurrencesAreClaimedOnce` have `Postgres` as a
hypothesis, because they are false on SQLite (section 6): `TimerInv` says that a selected row is
locked and unchanged, that one executor at most is between its check and its send, with nothing sent
yet, and that after the send nothing makes the row claimable again. For automations `Accounted` counts,
per occurrence, the claims made and those the row can still bring, against one and the times an edit put
the occurrence back that was claimed after the edit had computed it. `AlertsAreSent` needs
`SlackAssumption`: the slack covers the jitter and one sleep for each crash and one more. Every loop
then wakes in the window with room for the crashes to come, and `Product` does the arithmetic.

The provers take no induction scheme. Where a fact is about every length of a sequence or of a sum, the
proof takes a least counterexample instead: `NoLeast` says that a set of naturals in which every element
has a smaller one is empty, from the library's `WFMin`.

The inductive invariants, except those of the rate limiter, the tree, the results, the stop loop and the
automations, which were proved directly, were checked with TLC too, on the runs' instances or larger
ones. The assumptions of instantiated modules are operators, hypotheses of their theorems;
the MC modules assume them, so TLC evaluates them on every run. The hypotheses `Postgres` and one process
hold of the runs' instances too.

Only model-checked is all liveness (`BusyDeviceFrees`, `DueScheduleIsRun`, `ChangesAreTold`,
`OrphansReaped`, `ClosedSocketLeaves`, `StoppedTaskEnds`, `TimerFires`, `AnsweredExactlyOnce`), which is
outside the prover's reach. Every safety property of a passing run is also proved.

Next: the steps under the lock of the session pool.

## 5. What the models assume

* Calendar alerts: the work of a poll takes no time. Presence over Redis: an emission is shorter than
  the lock's life and a subscriber stays. Session pool: a sweep is shorter than the lock's life.
* Shared documents: a session has one handler at work at a time beside its disconnect; adding and
  removing a user is one step.
* Rate limits: a check is faster than the clock; with Redis down each process counts for itself; a
  window is a whole number of buckets, as with the defaults of every limiter the routers make.
* Chat tree: a tab has one request at a time; PostgreSQL's row locks.
* Sub-agents: one limit for the life of the process.
* Task registry: Redis serves the commands of one process in order.

## 6. Weaknesses the properties step around

Where a property above says "unless", the model has a behaviour in which that happens:

* a command the broker gave up (deadline, cancel) goes on in the page beside the next mutation: the
  extension has no handler for the cancel message;
* a replay cache that was full and a join that cleared the sequence table together let a repeated request
  execute a command a second time before its deadline (`AtMostOnce`, `SequenceBacksCache`);
* a Stop pressed while the session moves to another tab does nothing, and the move opens the session
  again; a session closed while the debugger is being attached leaves it attached;
* a refresh still at the server when the next one with the same credential comes revokes the device
  inside the grace window (`LostAnswersAreForgiven`);
* a run that ends after a `sync` removed its schedule puts the schedule and its alarm back; a schedule
  whose list or completion failed stays unrun until the worker starts again, since the occurrence remains
  marked as handled, and so does one whose alarm fires before the `sync` that set it has put its map in
  place (`schedules.ts:136-146`; `DueScheduleIsRun`);
* with a window that is no multiple of the bucket the limiter rounds the number of buckets down and lets
  more than the limit through: with a window of 5 and buckets of 3, requests in seconds 2 and 6 are both
  let through under a limit of one. `OAUTH_TOKEN_EXCHANGE_RATE_LIMIT_WINDOW` can be set so
  (`LimitIsKept`);
* a timer whose instance ended after the claim stays running for ever (`TimerFires`); on SQLite two
  instances can both claim a timer or an automation; an edit computed before a claim makes the
  occurrence due again, although the docstring of `claim_due` says "the row can never be double-claimed"
  (`models/automations.py:293-294`; `ClaimedOnce`); two instances can both send an alert, and a moved
  event keeps its mark (`AlertNotMissed`);
* a stop published while the owner's listener reconnects reaches nobody (`StoppedTaskEnds`); the
  entries of a crashed instance stay; the stop loop of one process steps over
  the task after a removed one and answers that all are stopped, which is also what its docstring
  promises, "Stop all tasks associated with a specific item ID." (`tasks.py:268`; `MissesOnlyMoved`);
* over Redis a compaction deletes an update pushed since its read (`NothingLost`), two processes
  overwrite each other's usage, a crash under the emission lock ends the expiry loops that time out
  (`ChangesAreTold`), an error of Redis ends an instance's session cleanup for good;
* two rate checks slower than a bucket do not see each other (`LimitIsKept`);
* a message stored between the unlocked read of `get_chat_by_id` (or `get_chat_by_id_and_user_id`,
  `models/chats.py:1674-1683`, `1715-1725`) and its write-back is dropped, on PostgreSQL too
  (`NothingDropped`); on SQLite so is one stored between any read and write; a row can be written back
  after its message was deleted (`NothingDropped` is about the history);
* a delegation stopped before its task began keeps its slot, one whose registration failed gives it
  back too early (`SlotsAreHeld`); a completion that fails to start loses results
  (`AnsweredExactlyOnce`);
* a stop while approved calls are executed leaves them queued with nothing to resolve, and switching
  to full permissions leaves the calls queued behind the approved one (`NeverStuck`).

They are of the same kind as the four violated runs and are recorded here so that each run keeps to
one question. Some disagree with a document too: timers are documented as "Durable one-shot timers".

## 7. Not modelled

* The bulk of upstream Open WebUI (about 120,000 lines with it): retrieval, provider adapters,
  configuration, OAuth, file and user administration, and the web interface. These are request
  handlers over single rows, data conversions and rendering; a model of them would restate the code
  and leave nothing to check.
* The `ask_user` tool, channels, folders, sharing and search of chats; the stream of a reply; the
  checkpoints that automatic compaction writes during a completion (`b/utils/context_compaction.py:113-123`)
  and the removal of null bytes on load, both further reasons for a write like those in `ChatTree`.
* Contents of commands, pages and audit rows, argument validation and redaction; cryptography; the
  wrappers of Chrome's downloads and HTTP interfaces; the desktop shell.
* Several broker processes over shared pools: busy marks are per process, and the model is one.
* Recording and editing of workflows; their steps go through the executor `ExtensionCommands` models.
