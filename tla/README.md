# Cybion: models and proofs of the Controller

Cybion runs AI agents. A user talks to *Threads*; a Thread is a durable,
append-only history and a loop that asks a model for the next step, runs the
tools the model calls and asks again until the model ends its turn. Tools run on
the user's devices, through *Workers* that keep one event stream to the
Controller. The Controller (`src/src/`, Rust, Tokio, one SQLite file per user)
is what these modules are about. Line numbers are those of the files under
`src/`.

## 1. Inventory

What each part keeps, what is done to it, with whom it interacts, what is hard
about it, and what makes it correct. The core logic is in the first parts of the table.

| part | code | state |
|---|---|---|
| Thread execution | `cloud.rs` (`process_request`, `request_agent`, compaction, finalization), `thread_controls.rs`, `recovery.rs`, `continuation.rs`, `blocked.rs` | `history_records`, `threads.status/retry_count/next_retry_at/blocked`, the in-memory map `active_requests` |
| Worker calls | `cloud.rs` (`enqueue_worker_call_tx` .. `worker_call_received`), `worker_protocol.rs` | `worker_calls`, `workers.boot_id`, event streams |
| Worker upgrade | `worker_protocol.rs` | `workers.upgrade_*` |
| Worker sharing | `worker_sharing.rs` | `worker_grants`, call intents in the caller's database, calls in the owner's |
| Pairing, device checks | `worker_onboarding.rs` | `device_pairings`, `worker_checks` |
| Ultimate Machines | `machines.rs` | `machines`, their runs, repair Threads |
| eXe devices | `exe.rs` | relay identity, submitted calls |
| User databases | `user_databases.rs` | one queue and one connection per file |
| Manual loads, model switch | `manual_loads.rs`, `cloud.rs` | `thread_manual_loads`; `model_switch`, `manual_loaded` records |
| Context compilation | `cloud.rs` | none: a function of the history |
| Responses stream | `responses.rs`, `responses/`, `cloud.rs` | state of one SSE response, `reasoning_audits` |
| Thread sharing | `thread_sharing.rs` | grants, revisions, copies in readers' databases |
| Manuals tree | `cloud.rs`, `common_manuals.rs` | parent, fractional sort key |
| Usage statistics | `stats.rs` | `stats_*` cells, totals, views, pending and dirty rows |
| Performance records | `route_performance.rs`, `sql_performance.rs` | counters in memory, buckets in `default.sqlite3` |
| Notes, history windows, notifications, settings, traffic, clients | see `PROJECT.json` | rows without a protocol |

**Thread execution.** *Operations*: record a prompt, Continue or Compact and
spawn a task for it; Stop; the supervisor's scan for Threads that run without a
task; the task itself (wait for the retry time, settle saved tool calls, compile
the context, stream a response, answer its calls, retry, compact, checkpoint,
continue for open notes, finalize); results of Worker calls; a process restart.
*Interactions*: `user_db` closures are serialised per user; the registry is a
Tokio mutex; a task has a cancellation watch. *Hard*: every `.await` between two
closures is a point where another boundary, a Stop, the supervisor or a crash
lies; the registry is changed after the boundary is committed; a registry entry
may outlive its task. *Correct when*: requests do not write into each other's
history, Stop holds, an accepted prompt is never lost, calls are answered once
and before the model is asked again, a checkpoint separates no call from its
output, retry and continuation budgets hold, every turn ends.

**Worker calls.** *Operations*: enqueue by the turn; its wait loop with timeout,
cancel and answer; register, claim, replay and cancel notices of the event
stream; receipt and result posts; the supervisor's sweep; Stop. *Hard*: a
delivered call is sent again until its receipt arrives; processes restart with
calls in hand; connection requests and posts arrive late or twice; the timeout
competes with the result. *Correct when*: a call runs at most once, is answered
exactly once, is cancelled only when its request is over, and never hangs.

**Worker upgrade.** *Operations*: an owner asks for an upgrade, or a process
registers with the recommended version installed (its heartbeats write the same again); the stream sends the event once delivered
calls have settled; claims pause meanwhile; the device reports `installing` or
`failed`; a device check shares the stream. *Hard*: the upgrade waits for calls and
claims wait for the upgrade; reports of an earlier upgrade or process arrive late.
*Correct when*: no call is at work while the device installs, and the wait ends.

**Worker sharing.** The caller's database holds an intent, the owner's the call;
results are projected back by phases that may be repeated. *Hard*: a crash
between the two commits, a grant revoked and given again, a Thread that is stopped,
superseded or deleted, a database that is busy. *Correct when*: a call starts only
under the grant cycle it was made under, and is answered once.

**Pairing.** A device shows a code, an account approves it, the device polls. An
approval is three transactions over two databases. *Hard*: expiry, cancellation,
another account, removal of the Worker and a dropped request come in between.
*Correct when*: the Worker belongs to one account, and one that is announced exists.

**Ultimate Machines.** A scheduler, "Run now" and the end of a repair turn start
runs of a script; a run that is not heard of is declared lost; a failed one asks a
repair Thread. *Hard*: late and repeated results, runs of the same second.
*Correct when*: each run is told of once and an enabled machine is run again.

**eXe devices.** A driver takes calls of the ledger to a relay and settles them.
*Hard*: it works on rows it read before; a post may be lost or accepted unheard.
*Correct when*: a settled call stays settled and every call is settled.

**Thread sharing.** Grants are copied to the viewer's list and read in pages.
*Hard*: a Thread may be gone before its revocation was copied; rows change between
pages. *Correct when*: a revocation arrives and no page skips a Thread.

**Context, manuals, model switch.** Each attempt compiles a range of the history:
regrouped tool turns, copies of loaded Manuals, no envelopes of another model.
*Hard*: switches, edits, checkpoints, restarts and superseding inputs between any
two attempts. *Correct when*: calls and outputs are contiguous, loaded copies are
current, no foreign envelope is sent.

**Responses stream.** Items come in pieces, in full, again at the end, with ids or
without. *Correct when*: each item is recorded once and whole.

**Usage statistics.** A patrol folds settled hours into cells, totals and views,
forward and backward, and corrects them when a row settles or vanishes later.
*Hard*: every edge of the closed range moves while rows change. *Correct when*:
totals are the sum of cells, views that claim to be fresh are.

**Performance records.** Lock-free counters of requests and SQL statements, flushed
once a minute and read by a page. *Correct when*: nothing is counted twice or lost.

**User databases, Manuals tree, Notes, history windows, settings, notifications,
clients.** One transaction per request, or no protocol at all.

`PROJECT.json` lists all components, and under `hazards` each such danger at its
line, with the properties that watch it.

## 2. Modules

| module | contents |
|---|---|
| `ThreadRun` | one Thread: handlers, supervisor, tasks, restart, late results |
| `MCThreadRun` | `ThreadRun` for TLC: symmetry of task slots |
| `ThreadRunProofs` | theorems about `ThreadRun`: types, histories, Stop, idle Threads |
| `ThreadRunCallsProofs` | theorems about `ThreadRun`: its tasks, its budgets and its calls |
| `WorkerCalls` | the ledger, the turns, the streams and a device |
| `CallPromise` | what the Controller promises about one call; `WorkerCalls` implements it |
| `WorkerCallsProofs` | theorems about `WorkerCalls`, the refinement of `CallPromise` among them |
| `WorkerUpgrade` | upgrades and device checks of one Worker, its process and its calls |
| `Pairing` | one device pairing over two databases |
| `SharedCalls` | calls to another account's Worker |
| `ExeDriver` | the driver of an account's eXe devices and the relay |
| `RoutePerf`, `SqlPerf` | the recorders of request durations and of SQL statements |
| `MCDevices` | these six for TLC |
| `WorkersProofs` | theorems about `WorkerUpgrade` and `SharedCalls` |
| `DevicesProofs` | theorems about the other four, and about the six side by side |
| `ThreadSharing` | grants of Threads, the viewer's list and its pages |
| `Machines` | one Ultimate Machine and its repair Thread |
| `StatsFold` | the patrol over the usage statistics of one user |
| `MCRecords` | these three for TLC |
| `RecordsProofs` | theorems about these three, each alone and side by side |
| `ContextCompile` | what one Thread sends upstream |
| `ContextProofs` | theorems about `ContextCompile`, and about the sum of `MCThreadTurns` |
| `ResponseStream` | the events of one response |
| `ResponseProofs` | theorems about `ResponseStream` |
| `MCThreadTurns` | `ThreadRun`, twice, and these two for TLC |
| `MCWorkerCalls` | `WorkerCalls` for TLC |

### ThreadRun

An action is one `user_db` closure (these are atomic: a user's queue admits one
at a time) or one change of the registry. Whatever lies between two closures is
a change of the task's program counter `pc`.

- `hist` is `history_records` for one Thread; a record's id is its index.
  `req` is the request it was written for, `ref` the call it answers. Records
  that decide nothing (progress lines, errors, titles) are left out;
  `model_switch` and `manual_loaded` records are `note`, the continuation records
  `nudge` and `stopped`. The answer of a stale call, an `activity` record, is `late`.
- `status`, `retry`, `blocked` are the columns of `threads`. Times are left out:
  the retry wait is an arbitrary delay.
- `active` is the Thread's entry in `active_requests`: the slot of the task it
  was created for, even after that task panicked (`LiveEntry` is
  `receiver_count() > 0`). `lock` is the mutex together with what its holder is
  about to register: `enqueue`, `cancel_for` and `ensure_thread_loop` hold the
  mutex over a closure, so each is two actions (`EnqueueCommit`/`EnqueueRegister`,
  `CancelCommit`/`CancelSignal`, `EnsureRead`/`EnsureRegister`). A handler whose
  caller went away between them commits only (`EnqueueDropped`,
  `CancelDropped`): `user_databases.rs` runs a queued closure to its end.
- `task[t]` is one `process_request`: `rec` its `record_idx`, `op` the operation,
  `sig` its watch, `pend`/`call`/`back` the calls it settles and where it goes
  from there, `tail` the `idx_tail` of its context, `over` and `pro` its two
  compaction counters, `resp` and `res` what the response and the turn came to.
- `Crash` is a restart: tasks, registry and mutex are gone, the database stays.
  `Panic` ends a task without clearing its entry, `StorageError` fails the
  closure a task is at. `faults` counts them.

The labels follow the code: `start` and `wait`/`waiting` are the loop head and
`wait_retry`, `settle`/`tools` `settle_tools`, `waitcall`, `effect` and `answer`
a Worker call's wait, a Controller tool and `append_tool_output_item`, `context`
`current_context`, `infer`/`enqueue` the stream of one response, `responded` and
`decide` what follows it, `compacting`/`checkpoint` compaction, `succeed`,
`fail`, `clear` finalization. The settings of one request (model, budgets) are
free choices of the steps that read them, as are open notes and what the model
answers.

### WorkerCalls

`call[c]` is a row of `worker_calls`: its status, the boot it was delivered to,
and whether it was received, asked to cancel, notified, given a result and
answered (`out` is `output_record_id`). `request` is what a call can tell of its
request, `turn` the wait loop of the turn that made it. Calls belong to requests
of different Threads: the newest boundary of one says nothing of another.
`boot` is `workers.boot_id`; `streams` the event streams of that boot that the
Controller still feeds: the one the device reads (`open`) and one that is broken
without the Controller's knowing (`dead`), which swallows what it is given.
`frames` are events under way. `posts` only grows: a report may arrive late,
again or never. The device (`device`, `TakeCall`, `TakeCancel`, `Finish`,
`Restart`) is not code of the repository. It does what `docs/thread-recovery.md`
and the handlers require of it: it acknowledges every copy of a call, runs it
once, and may or may not be able to interrupt it.

`CallPromise` is the abstract specification: the phases of a call and when it
may be dispatched, run and answered. `KeepsPromise` is `Promise!Spec` under the
mapping that stands before it in `WorkerCalls`.

### Devices and sharing

- `WorkerUpgrade`: `upWorker` is the row (`boot_id`, `version`, `upgrade_id`,
  `upgrade_status`), `upCall` and `upCheck` the calls and the check it waits for,
  `upStream` the one event stream, in whose order `next_call` hands out checks,
  upgrades, replays and claims. The device, its process swap and the report it
  posts (`upDevice`, `upPost`, `upLate`) are external.
- `Pairing`: `pairing` is the row of `pairings.sqlite3`, `tenant[u]` the Worker in
  an account's database, `pairLock` the holder of `worker_pairing_lock`; `approval`
  and `removal` say between which closures the requests are. `DropRequest` ends a
  request whose closure still runs.
- `SharedCalls`: the owner's grant, Worker and ledger (`shGrant`, `shWorker`,
  `shLedger`) and the caller's view of the grant, Thread, intents and answers
  (`shSeen`, `shThread`, `shIntent`, `shHistory`). Each closure is an action; a
  write to the other database and its acknowledgement are one, with the outcomes
  both can leave.
- `ExeDriver`: `driver` is the pass: the rows as it read them, the call at hand and
  where in `notice`, `submit`, `poll`, `settle` it stands; `exeCall` are the rows
  as they are now. The relay is external.
- `RoutePerf`: a request is three atomic steps (`Find`, `Count`, `Band`), the flush
  one per lock or cell, the page two. `SqlPerf`: a statement probes, claims and adds
  in steps, the flush walks the table slot by slot. Which durations are meant is
  left out.

### Background records

- `ThreadSharing`: `tsGrant` are `thread_grants` with their revisions (also the
  rows a deleted Thread's trigger leaves), `tsSeen` the viewer's list, `tsPage` a
  reader going through it.
- `Machines`: time as far as the code compares it; of the runs the latest one and
  one hidden behind it (same second). `maOwed` is what a handler does after its
  transaction.
- `StatsFold`: `stRaw` the rows to be counted, `stBook` the edges of the closed
  range, pending and dirty lists, `stCell`, `stTotal`, `stView` how often a row is
  counted in each, and as what. `patrol` is where the pass stands; the actions of
  requests lie between any two of its commits.

### Contexts and responses

- `ContextCompile`: `ccHist` are the protocol records of a Thread, each with the
  target that sealed its envelope and the call or Manual it is about; `ccTarget`,
  `ccAudit` what the barrier compares, `bound` the loads. `Sent` is the compiled
  request, a function of the history: the records of the range that are sent,
  each at its place in the history (`Strip`, `Paired`, `ReplayableContextItems`,
  after the functions they translate), and the order they are sent in.
  `regroup_tool_calls` is that order: `Precedes` compares two records by their turn,
  then by what `FlushToolTurn` puts first (the rest, the calls, the outputs), then
  by their place.
- `ResponseStream`: `rsScript` is the provider: its items and how it tells each;
  `rsState` is `ResponseState`, changed by `Applied` (`apply`), `Remember` and
  `MergedItem`; the loops of the code, over the events that wait (`Replay`), the
  items of the last event (`Listed`) and the items to record (`RecordAll`), are
  recursive functions from one round to the next. `rsHistory` is what was recorded, `rsAudit` the snapshot and the
  end of the audit.

## 3. Runs

The instance of each run is in its `.cfg`. All properties are stated, in words,
above their definitions.

| run | question | instance |
|---|---|---|
| `thread_safety` | Do requests stay apart, does Stop hold, is nothing lost, is each call answered once and before the next inference? | 2 slots, 3 boundaries, 1 item, 1 fault |
| `thread_turns` | Can a checkpoint come between a call and its output, can an input be handed back more than `MaxPerTurn` times? Is what is sent contiguous, current and free of foreign envelopes? Is each item of a response recorded once? | 4 parts, see below |
| `thread_liveness` | Does every turn end, does every cancelled task leave? | 2 boundaries, 1 fault, no item, notes loop on with its budget used up, fairness |
| `calls_safety` | Does a call run once, get answered once, stay with the registered process, keep `CallPromise`; is it claimed and answered in the end? | 1 call, 3 processes, 2 frames, 2 faults, fairness |
| `calls_pair` | Does a pass of claim, replay or sweep over two calls cancel only the right one? | 2 calls, 1 process |
| `devices` | Are pairings sound, do upgrades lose nothing and end, does a shared call start under its grant and get one answer, does an eXe answer stand, is everything measured once? | 6 parts, fairness |
| `records` | Do pages skip nothing and revocations arrive, is a run told of once and the machine run again, do the statistics add up and catch up? | 3 parts, fairness |
| `stop_after_continuation` | finding 1 | continuation on |
| `stale_block` | finding 2 | 2 boundaries |
| `newer_input` | finding 3 | 1 call, 1 process, 1 fault |
| `cancel_notice` | finding 4 | 1 call, 1 process, no fault |
| `title_switch` | finding 5 | 2 models, 1 call id, 2 events |

**Parts.** `MCThreadTurns`, `MCDevices` and `MCRecords` put components side by side
that share no variable. `part` chooses one in the initial state; the others never
leave theirs. A behaviour of the sum is a behaviour of one component with the rest
stuttering, so a property of a component holds of the sum exactly if it holds of
the component alone, and the same for its fairness, which each MC module states
for its part. One state space per run stays the sum of its parts, not their
product. `thread_turns` has `ThreadRun` as two deployments: without notes loop, with
one proactive compaction and one retry of it, 2 boundaries (`compacting`); and,
through `INSTANCE`, with the notes loop, one continuation, one boundary and one
fault (`noting`).

**Why the bounds are enough.** Two slots are a task and the one that supersedes
it; the supervisor may use either for a third. Three boundaries give a request,
the one that replaces it and a Stop or Continue of that. `MaxFailures` is 2
instead of 5 and `MaxPerTurn` 0 or 1 instead of 3: each counter still has a value
below its limit (for continuations in `noting`), at it and, were a guard missing,
above. One streamed item is
one call, which is what answers and checkpoints compete for. One fault already
puts a crash, panic, storage error or dropped caller at each point of each
behaviour. One call over three processes has every race of result, timeout,
restart and replay, because the steps of one call read no other call, save the
passes over the queue, which `calls_pair` has two calls for; a third process can
meet the late reports of both earlier ones.

Two upgrades let the reports of one meet the other, with a call to wait for and a
crash. Two accounts can race for a pairing. Three revisions of a grant are given,
revoked, given again (or revoked after a change of label), two inputs a request and
the one that supersedes it. Two eXe calls with a batch of one put a call behind
another in the driver's pass. Two requests and three minutes have a flush cross each
step of a request; two statements whose keys share a first slot (2 and 4 of 2 slots)
collide in the table. Two Threads and pages of one entry make a cursor between two
rows of the same or of different seconds. One row for each of two tables, four hours
and one hour of lag have a fold forward, a jump, a backfill and a correction; rows
are counted each for itself, so that a second row of a table adds nothing. One
restart, lost answer or failed transaction is at every step of every behaviour.
In `ContextCompile` two targets, one call id, one Manual, four records and two
events (switch, edit, title, restart) hold a call, its output, a barrier and a copy
between two attempts. `ResponseStream` has all scripts of two items (a message or a
call, with or without id, told in any way) of two pieces each. No script uses a call
id twice, so the error path for a reused id with other contents is not taken.
The theorems of section 5 hold without any of these bounds.

Deadlock is not checked: a Thread that is idle, with its boundaries used up,
really has nothing to do, and so has a ledger of settled calls. That nothing
stops too early is what the liveness properties and `IdleIsExplained` say.

**Fairness.** For a Thread: a task whose step is enabled again and again takes
it (Tokio runs ready tasks, its mutex is fair, and upstream calls and Worker
waits have timeouts); a handler that holds the mutex goes on; the supervisor
scans every five seconds (`recovery.rs:5-12`). Nothing obliges a user to act, a
fault to happen or a result to arrive. For calls: the wait loop polls and its
timeouts expire, a Worker keeps reconnecting, a dead stream ends, a pass of the
open stream alternates claim and replay (`next_call`), the supervisor sweeps, and
a live process reads its events and repeats its posts. That a call ever finishes
on the device is not assumed.

For upgrades: the device registers, takes events, prepares, replaces itself and
repeats its report, the stream replays and hands out the upgrade, delivered calls
finish, a check grows old. For shared calls: `recover` runs every five seconds and
brings grants and results over, a busy database is not busy for ever. For eXe: the
driver's loop goes on, the relay ends what it holds, the grace period runs out. For
grants: a sync that is enabled is made. For machines: the scheduler looks every
thirty seconds and time passes. For the statistics: the patrol wakes every thirty
seconds, time passes, a deletion that began ends; a view is rebuilt once its
interval is over, which is strong fairness, since corrections may mark it stale and
fresh again in between. Pairing, contexts, responses and the recorders have no
liveness property and no fairness.

## 4. Findings

1. **Stop undone by the notes continuation.** `decide_in`
   (`continuation.rs:98`) sets the Thread to `running` without asking whether its
   request is still the newest boundary. A Stop between the commit of the final
   response and the decision leaves a stopped Thread running. What that
   sets running is a request whose task has left or is about to: the supervisor
   registers a second task for it, the first one's `clear_current` removes the
   entry of the second, a third may follow, and two of them answer one call. So
   with the continuation on, which is its default (`notes.rs:333`),
   `LoopIsRegistered`, `AnsweredOnce` and `CheckpointKeepsPairs` fail as well; the
   runs check them with it off. The theorems about them hold with it on too, under
   a hypothesis that excludes these decisions and nothing else (`StopsAreKept`,
   section 5).
2. **A stale `block_thread` blocks.** `block` (`blocked.rs:21`) does not ask
   whether its request was superseded, so an old turn's call raises the flag that
   the user's newer message has just cleared.
3. **A newer input leaves a received call delivered.** `record_request` settles
   no calls, the turn that would is gone after it failed, and the sweep passes
   over calls with a receipt. `docs/worker-sharing.md:116-118` says otherwise.
4. **A cancellation is lost with its connection.** `cancel_notice` marks a call
   as notified when the event is handed to a stream, also to a broken one.
   `docs/thread-recovery.md:43-44` promises it to a process that reconnects.
5. **A title hides a model switch.** `ensure_model_switch_barrier`
   (`cloud.rs:6189`) compares the Thread with its newest audit, whatever that
   request was for. A title generated between a switch and the next attempt is
   such a request, with the new target: no barrier is written and the old
   envelopes go to the new model, against the comment above the function and
   `docs/context.md:303-305`. `SwitchStripsEnvelopes` shows the barrier is right
   otherwise.

Noticed on the way, not checked by a run. Where a property excuses one of these,
its definition says so.

- *Threads.* Stop of an idle Thread still removes and signals its registry entry,
  though `docs/threads.md:103` calls it a no-op; `current_context` commits the
  barrier before it finds out that its request is stale; audits of an idle or
  stopped Thread stay `in_flight` over a restart. The wait loop may answer with the
  result of a call that had been failed or cancelled; the late phase then records
  it again as activity.
- *Contexts.* The upstream is loaded once per turn: a switch of the upstream during
  a run sends the new model to the old upstream and writes a barrier at each
  attempt. The model is read and compared in different closures, so a switch away
  and back in between is missed ("race"). A manual compaction that fails hides a
  switch as a title does, and a title itself replays foreign envelopes. Reasoning
  after a call starts a new turn and parts the call from a late output
  (`docs/context.md:284-286`). The fingerprint of a Manual ignores its children,
  lock and parent.
- *Responses.* Id-less items are told apart by their order; deltas after an item's
  done event are not recorded. `Habits` names what makes `state.rs:82` and
  `state.rs:374` fail: pieces under an id that no event announced, or a full item
  after unannounced pieces. The runs have none.
- *Upgrades, sharing, pairing.* `installing` after `failed` of one upgrade sets
  `installing` again. A shared call that was received and whose turn left stays
  delivered until the device answers or restarts, and an upgrade waits for it. An
  approval that expires leaves a Worker row nobody can use; a dropped request
  releases `worker_pairing_lock` while its closure runs.
- *Machines, eXe.* Two runs may be in flight although the docs say one; a lost run
  created in the second of `last_run_at` is never reported; `apply_effect` reads the
  Thread's status and then enqueues; pausing does not stop a pending run when the
  repair Thread is idle (`docs/machines.md:23`). A cancellation counts as told even
  if the relay refused it; a repeated post may run a command twice
  (`docs/exe-devices.md:71`).
- *Statistics.* `process_pending` drops a watch and queues the hour in two commits:
  a restart in between loses the correction. `finish_reasoning_audit` may change an
  audit that was counted; only the first 500 pending rows are looked at; calls
  outlive their Thread (`docs/usage-statistics.md`, deletion); `latest_record_at`
  never goes back.
- *Recorders.* A page reads memory before the buckets: a flush in between shows a
  request twice. A failed flush loses what it took. Two first executions of a
  statement may race on the compare-exchange and claim two slots for one key; the
  flush then sees two counters under one key and writes differences twice
  (`sql_performance.rs:275`, `:453`).

## 5. Proofs

Every safety and action property of the passing runs is a theorem of the
component's specification. The theorems
hold for all values of the constants. They assume what each module's `ASSUME`
says: limits are natural numbers, a count that the code needs is not zero, a value
that means "none" is no other value, and where a count of elements is argued with,
the set is finite. TLC evaluates the same formulas in the runs. Each proof has a lemma for the
initial states, lemmas for the actions that can disturb the invariant, one for all
of the next-state relation, and ends in a PTL step.

### Threads: `ThreadRunProofs`, `ThreadRunCallsProofs`

| theorem | says |
|---|---|
| `TypeCorrect` | `[]TypeOK` |
| `HistoryIsOwned` | `[]BoundaryOwnsHistory` |
| `NothingIsLost` | `[]IdleIsExplained` |
| `ContinuationsAreBounded` | `[]NudgeBudget` |
| `StopHolds` | `[]StoppedStaysStopped`, of `Spec /\ StopsAreKept` |
| `OneLoopPerThread` | `[]LoopIsRegistered`, likewise |
| `BudgetHolds` | `[]RetryBudget`, likewise |
| `CallsAreAnsweredOnce` | `[]AnsweredOnce`, likewise |
| `CheckpointsCoverPairs` | `[]CheckpointKeepsPairs`, likewise |
| `InferenceIsSettled` | `SettledBeforeInference`, likewise |

*The hypothesis.* `StopsAreKept == NotesContinuation => [][UndoesNoStop]_vars`: with
the notes continuation off it is true and the theorems say of `Spec` what the first
four say; with it on it leaves out the behaviours of finding 1, in which a
decision sets a Thread running again that a Stop had stopped or is about to, or
whose request is no longer the newest. Decisions that re-arm an idle Thread
for its newest request are in.

*HistoryIsOwned.* A step writes a record for its request only after it looked, in
the same closure, for a newer boundary. `Owned(hist)` is the property itself, but
it is not inductive: it has to be known that the `rec` of a task or of a
registration under way is a boundary of the history, of the kind its operation
says. So the invariant is `HistoryInv == TypeOK /\ RequestsExist /\ Owned(hist)`.
Most steps extend the history by records that are no boundaries (`Quiet`) and that
no superseded request owns (`Fits`); lemmas about these two carry the actions.

*StopHolds.* Who sets a Thread running or failed looks first whether its request
is current and the Thread still runs. `StopInv` adds to `HistoryInv` that no task
runs a Stop (`NoCancelRuns`): a boundary of that kind starts none.

*NothingIsLost.* Three steps make a Thread idle: Stop, the commit of a final
response or checkpoint (which puts the request into `done`), and
`finalize_request_success`, which asks no more than whether its request is current
and the Thread running. What makes the last one safe is `ConclusionsHold`: a task
that concluded its turn (from the final response to `succeed`) is in `done` or
stale. `IdleInv` adds it to `HistoryInv`.

*OneLoopPerThread.* `LoopInv` adds to `HistoryInv` and the property that no two
tasks run one request, that a task is told to stop only when its request is moot
(superseded, or the Thread does not run), and `LockInv`: what a handler knows
while it holds the mutex between its closure and its change of the registry. That
last part is the one that decides the races: the supervisor registers a task for a
request only if none runs it, and no closure in between can give it one.

*BudgetHolds.* `BudgetInv` adds to `LoopInv` that of a spent budget (`Spent`) only
a task that is giving up and tasks of superseded requests are left, so that nobody
counts past it.

*CallsAreAnsweredOnce, CheckpointsCoverPairs, InferenceIsSettled* share
`CallsInv == LoopInv /\ AnswersInv /\ TurnsInv`. `AnswersInv` is about the history:
outputs answer earlier calls, one each, and behind a checkpoint no call of the newest
request is open (`Sealed`). `TurnsInv` is about what a task carries through its
awaits: the calls in `pend` are open calls of its own request, while it settles
it forgets none, and none is open up to the tail of the context it compiled.
`LoopInv` is what keeps a second task from answering them meanwhile.

### Calls: `WorkerCallsProofs`

`CallTypes` (`TypeOK`), `CallsHappenOnce` (`OnceOnly`), `DeliveriesAreCurrent`,
`CancellationsAreJustified` and `PromiseKept`: `Spec => KeepsPromise`, the
refinement of `CallPromise` by its initial states and step by step. The invariant
is `LedgerInv == TypeOK /\ WireInv /\ \A c : CallInv(c)`. `OnceOnly` needs `CallInv`:
a call is dispatched to one boot, the process that ran it has seen it, and a later
process has another boot; an answer is written exactly when `out` is set.
`WireInv` says the same of events in flight: an event was dispatched to the process
that reads it. The refinement needs it where a device takes a call off the wire.

### Devices: `WorkersProofs`, `DevicesProofs`

- `UpgradeLosesNoCall` (`UpgradeLosesNothing`), by `UpgradeInv`: the event a device
  will act on is that of the running upgrade and nothing was claimed since it was
  sent (`EventInv`), reports that may still arrive are of upgrades that were
  attempted (`PostInv`), and the upgrade at work is the one of the row (`WorkInv`).
  `TriedInv` is what makes an event that comes again harmless.
- `OneAnswer` (`OneAnswerPerPhase`), `LedgersAgree` and `StartsAreGranted`
  (`StartsUnderItsGrant`), by `HistoryInv`: what the owner's ledger calls recorded
  is in the caller's history, discarded means the Thread is gone, and a late result
  comes after the answer it is late for.
- `PairingIsSound` (`PairingSound`), by `PairingInv`: what an approval or removal
  between two of its closures may rely on (`AccountInv`), and that two accounts
  never both have the Worker (`TenantInv`).
- `ExeTypes` and `AnswersStand` (`ExeAnswerStands`): whatever a pass read before,
  its `UPDATE` is guarded by the row as it is then.
- `RoutesAreCountedOnce` (`RecordedOnce`), by `RecordInv`: a request that was counted
  is in one place, its cell, the hands of the flush or the table, and a page that no
  flush crossed shows it once.
- `StatementsAddUp` (`SqlAddsUp`), by `SumsInv`: for each key with one slot, what was
  written and what the pass holds are together what the pass saw, unless a
  transaction of it failed; a page has not shown more before its walk comes to the
  slot, and what a walk read there is no less than what was seen.
- `MeasuredIsOnce` (`MeasuredOnce`) and `DevicesTypes` (`DevicesTypeOK`) compose
  them: a step of `DevicesSpec` is one of each component or leaves it alone.

### Records: `RecordsProofs`

- `MachineTypes`, `RunsAreToldOnce` (`OneEffectPerRun`), by `MachineInv`: a run that
  can still be told of was not told of.
- `SharingTypes`, `PagesAreComplete` (`PagesSkipNothing`), by `PageInv`: a Thread that
  stayed in the list is on a page the reader saw, on the one it reads, or behind
  its cursor.
- `StatsTypes`, `StatisticsAddUp` (`StatsAddUp`), by `StatsInv`: a row has at most one
  cell, of its own hour and only in the closed range, totals have the same, only
  closed hours are to be corrected, and views that are not marked are fresh. That
  an hour is folded or emptied in the transaction that moves the edge past it is
  the heart of it.
- `RecordsTypes` (`RecordsTypeOK`), of the three side by side.

### Contexts: `ContextProofs`

Of `CcSpec`, for any targets and call ids, finitely many Manuals and histories of
any length:

- `ContextTypes` (`CcTypeOK`).
- `ToolRunsStayTogether` (`ToolRunsAreContiguous`), by `ToolsInv`: each output answers
  one call before it with only the assistant's items between them (`PairsAnswered`), a
  call id comes again only for a newer input (`IdsApart`), and calls that may still
  be answered are of the turn that runs (`OpenOnly`). That the order `Precedes` then
  keeps them together is a lemma about the operators alone (`Contiguous`).
- `CopiesAreCurrent` (`LoadedCopiesCurrent`), by `CopiesInv`: the newest notice of the
  compiled range tells what the Manual was when it was compiled. `ContextTells`
  proves it of the step that compiles; a history that is only appended to keeps it.
- `SwitchesStrip` (`SwitchStripsEnvelopes`), by `SealsInv`: as long as no request went
  out unbarred (`ccMasked` names those that do, finding 5 among them), all that
  follows the newest barrier was sealed by the target of the newest audit. This, not
  the property, is what a step preserves: the barrier is chosen by comparing with
  that audit.

`TurnsTypes` (`TurnsTypeOK`) is of contexts and responses side by side, as
`MCThreadTurns` has them.

The four rest on `RangeInv`: a request covers a range of the history that ends
at its end when it was compiled.

### Responses: `ResponseProofs`

For responses of any number of items, texts of any number of pieces and any faults:

- `ResponseTypes` (`RsTypeOK`), whatever the provider does.
- `ResponsesAreTold` (`RecordsTellTheResponse`) and `RecordsAreWhole`: the records of
  a request, also of one that was cancelled or failed half-way, are whole items of
  the provider, at most one of each; those of a completed response are all of them.

*The hypothesis.* `Habits = {}`, the value of the run: the provider does not restate
in full an unannounced item it sent in pieces, and does not name the pieces of a
message that has no event of its own. With a habit the theorem is false, because
the code is not made for it: the first doubles a text (pieces that waited are
appended to the full item, `state.rs:183`), the second leaves the pieces waiting for
an item with that id and records an empty message (`state.rs:94`). All scripts the run
has are in, of any length.

*The invariant.* The property looks at the end only, and says nothing of a response
on its way. `StreamInv` relates the four places a text can be in to how far the
provider is: `WireInv` (which item is told), `OutputInv` (the items told so far, in
the order of their telling, each with the pieces that came and the record it has
if it is done), `PendingInv` (what waits is the text of one item, from its first piece
on) and `HistoryInv` (the records are of the items that are done, whole). Each event
has a lemma. The last event is the hard one: `ListInv` says what holds after the
first k items of its list, known or remembered, and `RecordedTo` what holds after
the first o places were recorded.

*The loops.* A round of a loop is one lemma, and what a loop does is what holds
after 0 rounds and is kept by each (`CountsUp`). That is an induction over a number
with a fixed predicate, which needs no theorem with an operator as its parameter: a
predicate that fails somewhere fails at a least number (`LeastNumber`, from
`WFMin`), and that number is neither 0 nor after one where it holds.

*Model-checked only.* Liveness: the prover has no rule for fairness and `ENABLED`.

## 6. Not modelled

The parts with status `not_modelled` in `PROJECT.json` name their reasons: each of
their operations is one transaction on rows nobody else decides by, or reads only,
or lies outside the Controller. The queue of `user_databases.rs` is what all modules
assume: closures of a user one at a time, each atomic, running to the end when their
caller goes away, rolled back when they panic.

Within the modelled parts: Workers without a boot (0.1.x) and the batch limits of
the sweep; discovery and labels of shared Workers; random codes and rate limits of
pairing; pairing of eXe devices and their cryptography; scripts and texts of
machines; token estimates and media savings of contexts (they choose when to compact,
which is a free choice in `ThreadRun`); metadata events of a stream; prices, columns
and paging of the statistics; traffic and run phases. ThreadRun leaves out names of
Threads, notifications, audits, run phases and repair-turn hooks: none of them is
read back to decide about the Thread. Upstream, device and user are free: anything
they may do, they may do any time.

## 7. Plan

1. `ManualTree`: moves that may not close a cycle.
2. Prices of the usage statistics, as sums of what is counted now.
