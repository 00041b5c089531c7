------------------------------ MODULE ThreadRun ------------------------------
(***************************************************************************)
(* The execution of one Thread: its append-only history, its durable       *)
(* status, the process-local registry of running requests and the          *)
(* `process_request` tasks that race on all three.                         *)
(*                                                                         *)
(* Every closure handed to `user_db` is one atomic step: a user's database *)
(* admits one operation at a time.  Everything between two closures is a   *)
(* point where other tasks, handlers, the supervisor or a crash may run.   *)
(* Handlers that hold the `active_requests` lock across a closure take two *)
(* steps, because tasks write the database without that lock.              *)
(*                                                                         *)
(* `hist` keeps the records that decide something: request boundaries,     *)
(* protocol records, late answers and the continuation counters.  Purely   *)
(* informative activity is left out.  A record's identifier is its index.  *)
(* The sleeps (retry backoff, delayed calls) are arbitrary delays.         *)
(***************************************************************************)
EXTENDS Naturals, Sequences, FiniteSets

CONSTANTS
    Tasks,                 \* slots for spawned process_request tasks
    NoTask,                \* the registry holds no entry
    MaxFailures,           \* recovery::MAX_FAILURES
    MaxPerTurn,            \* continuation::MAX_PER_TURN
    CheckpointRetries,     \* CHECKPOINT_RETRY_LIMIT
    ProactiveCompactions,  \* PROACTIVE_COMPACTION_RETRY_LIMIT
    NotesContinuation,     \* the deployment switch notes.continuation
    MaxRequests,           \* bound: request boundaries users may record
    MaxItems,              \* bound: items streamed, notes added to contexts
    MaxFaults              \* bound: crashes, panics, storage errors, drops

ASSUME ThreadRunAssumption ==
    /\ NoTask \notin Tasks
    /\ MaxFailures \in Nat \ {0}
    /\ MaxPerTurn \in Nat
    /\ CheckpointRetries \in Nat
    /\ ProactiveCompactions \in Nat
    /\ NotesContinuation \in BOOLEAN
    /\ MaxRequests \in Nat /\ MaxItems \in Nat /\ MaxFaults \in Nat

VARIABLES
    hist,     \* history_records of the Thread, oldest first
    status,   \* threads.status
    retry,    \* threads.retry_count
    blocked,  \* threads.blocked
    lock,     \* who holds active_requests, and what it is about to register
    active,   \* the Thread's entry in active_requests
    task,     \* the process_request tasks
    done,     \* history variable: requests whose completion was committed
    faults    \* history variable: faults injected so far

vars == <<hist, status, retry, blocked, lock, active, task, done, faults>>
durable == <<hist, status, retry, blocked, done>>

-----------------------------------------------------------------------------
(* History.                                                                *)

BoundaryKinds == {"input", "continue", "compact", "cancel"}
CallKinds == {"call", "local"}   \* answered by a Worker, by the Controller
OwnedKinds == {"input", "message", "output", "checkpoint"} \cup CallKinds
ProtocolKinds == OwnedKinds \cup {"note"}   \* model_switch, manual_loaded ...
Kinds == BoundaryKinds \cup ProtocolKinds \cup {"late", "nudge", "stopped"}

\* `req` is the request a record was written for, `ref` the call it answers.
Record == [kind : Kinds, req : Nat, ref : Nat]

Rec(kind, req, ref) == [kind |-> kind, req |-> req, ref |-> ref]

IsBoundary(r) == r.kind \in BoundaryKinds
IsProtocol(r) == r.kind \in ProtocolKinds

\* request_superseded: a boundary newer than the request exists.
Superseded(h, req) == \E i \in DOMAIN h : i > req /\ IsBoundary(h[i])

\* latest_request_record_id = Some(req)
Current(h, req) ==
    /\ req \in DOMAIN h
    /\ IsBoundary(h[req])
    /\ ~Superseded(h, req)

\* MAX(id) over protocol records up to n is tail.
IsTail(h, n, tail) ==
    /\ tail \in DOMAIN h /\ tail <= n /\ IsProtocol(h[tail])
    /\ \A i \in DOMAIN h : i > tail /\ i <= n => ~IsProtocol(h[i])

\* A record answers call c: its tool_output, or the activity that
\* worker_calls.output_record_id points to.
Answered(h, c) == \E i \in DOMAIN h : h[i].ref = c

Outputs(h, c) == {i \in DOMAIN h : h[i].kind = "output" /\ h[i].ref = c}

\* Mutant: answered calls are started again.
CallsOf(h, req) == {i \in DOMAIN h : i > req /\ h[i].kind \in CallKinds}

Unanswered(h, req) ==
    {i \in DOMAIN h : i > req /\ h[i].kind \in CallKinds /\ Outputs(h, i) = {}}

Continuations(h, req, kind) ==
    Cardinality({i \in DOMAIN h : h[i].kind = kind /\ h[i].req = req})

\* Mutant: one continuation too many.
OneMoreContinuation(h, req) == Continuations(h, req, "nudge") <= MaxPerTurn

HasContinuation(h, req) == Continuations(h, req, "nudge") < MaxPerTurn

Items(h) == {i \in DOMAIN h : h[i].kind \in {"message", "note"} \cup CallKinds}

Requests(h) == {i \in DOMAIN h : IsBoundary(h[i])}

-----------------------------------------------------------------------------
(* Tasks and the registry.                                                 *)

Operations == {"inference", "compaction"}

\* Mutant: the boundary's type is taken for the operation.
OperationIsKind(kind) == kind

OperationOf(kind) == IF kind = "compact" THEN "compaction" ELSE "inference"

Labels == {"none", "start", "wait", "waiting", "settle", "tools", "waitcall",
           "effect", "answer", "context", "manual", "infer", "enqueue",
           "compacting", "checkpoint", "responded", "decide", "retry",
           "end", "succeed", "fail", "clear"}

TaskState ==
    [pc    : Labels,
     rec   : Nat,                 \* record_idx
     op    : Operations,
     sig   : BOOLEAN,             \* the value of its cancellation watch
     pend  : SUBSET Nat,          \* calls still to settle
     call  : Nat,                 \* the call being answered
     back  : {"none", "tools", "infer"},   \* where answering a call returns to
     tail  : Nat,                 \* idx_tail of the compiled context
     resp  : {"none", "message", "local", "worker", "again"},
     over  : Nat,                 \* checkpoint_retries
     pro   : Nat,                 \* proactive_compactions
     res   : {"ok", "error", "cancelled"}]

NewTask(pc, rec, op) ==
    [pc |-> pc, rec |-> rec, op |-> op, sig |-> FALSE, pend |-> {},
     call |-> 0, back |-> "none", tail |-> 0, resp |-> "none",
     over |-> 0, pro |-> 0, res |-> "ok"]

NoRun == NewTask("none", 0, "inference")

Live(t) == task[t].pc # "none"

\* Mutant: an entry whose task panicked still counts.
EntryAny == active # NoTask

\* The registry entry still has a receiver.
LiveEntry == active # NoTask /\ Live(active)

Free(t) == ~Live(t) /\ active # t

Unlocked == [op |-> "free", rec |-> 0, as |-> "inference"]

LockState ==
    [op : {"free", "enqueue", "cancel", "ensure"}, rec : Nat, as : Operations]

Init ==
    /\ hist = <<>>
    /\ status = "idle"
    /\ retry = 0
    /\ blocked = FALSE
    /\ lock = Unlocked
    /\ active = NoTask
    /\ task = [t \in Tasks |-> NoRun]
    /\ done = {}
    /\ faults = 0

Fault == faults < MaxFaults /\ faults' = faults + 1

\* Mutant: the entry is replaced, its task is not told.
RegisterSilently(t, rec, op) ==
    /\ active' = t
    /\ task' = [task EXCEPT ![t] = NewTask("start", rec, op)]

\* Replaces the entry of the registry, cancelling the one it held.
Register(t, rec, op) ==
    /\ active' = t
    /\ task' = [u \in Tasks |->
                  IF u = t THEN NewTask("start", rec, op)
                  ELSE IF u = active /\ Live(u)
                       THEN [task[u] EXCEPT !.sig = TRUE]
                       ELSE task[u]]

-----------------------------------------------------------------------------
(* Handlers: Prompt, Continue, Compact and Stop.                           *)

\* The checks of record_request.  A bound on requests, and a free slot for
\* the task the handler spawns.
Accepts(kind) ==
    /\ Cardinality(Requests(hist)) < MaxRequests
    /\ \E t \in Tasks : Free(t)
    /\ kind \in {"continue", "compact"} =>
          /\ status # "running"
          /\ \E i \in DOMAIN hist : IsProtocol(hist[i])

\* Mutant: a new request inherits the failures of the previous one.
RecordWithoutReset(kind) ==
    /\ hist' = Append(hist, Rec(kind, Len(hist) + 1, 0))
    /\ status' = "running"
    /\ blocked' = (blocked /\ kind # "input")
    /\ UNCHANGED <<retry, done>>

RecordRequest(kind) ==
    /\ hist' = Append(hist, Rec(kind, Len(hist) + 1, 0))
    /\ status' = "running"
    /\ retry' = 0
    /\ blocked' = (blocked /\ kind # "input")
    /\ UNCHANGED done

EnqueueCommit(kind) ==
    /\ lock.op = "free"
    /\ Accepts(kind)
    /\ RecordRequest(kind)
    /\ lock' = [op |-> "enqueue", rec |-> Len(hist) + 1, as |-> OperationOf(kind)]
    /\ UNCHANGED <<active, task, faults>>

\* The caller went away while its closure was queued: the closure still
\* commits, but the future that would register the request is gone.
EnqueueDropped(kind) ==
    /\ Fault
    /\ Accepts(kind)
    /\ RecordRequest(kind)
    /\ UNCHANGED <<lock, active, task>>

EnqueueRegister(t) ==
    /\ lock.op = "enqueue"
    /\ Free(t)
    /\ IF LiveEntry /\ task[active].rec = lock.rec
       THEN UNCHANGED <<active, task>>
       ELSE Register(t, lock.rec, lock.as)
    /\ lock' = Unlocked
    /\ UNCHANGED <<durable, faults>>

RecordCancel ==
    /\ Cardinality(Requests(hist)) < MaxRequests
    /\ hist' = Append(hist, Rec("cancel", Len(hist) + 1, 0))
    /\ status' = "idle"
    /\ UNCHANGED <<retry, blocked, done>>

\* Stopping a Thread that is not running commits nothing, but still goes on
\* to take its entry out of the registry.  With no entry it does nothing.
CancelCommit ==
    /\ lock.op = "free"
    /\ status = "running" \/ active # NoTask
    /\ IF status = "running" THEN RecordCancel ELSE UNCHANGED durable
    /\ lock' = [Unlocked EXCEPT !.op = "cancel"]
    /\ UNCHANGED <<active, task, faults>>

CancelDropped ==
    /\ Fault
    /\ status = "running"
    /\ RecordCancel
    /\ UNCHANGED <<lock, active, task>>

\* Mutant: Stop signals but keeps the registry locked.
CancelKeepsLock ==
    /\ lock.op = "cancel"
    /\ active' = NoTask
    /\ task' = [u \in Tasks |-> IF u = active /\ Live(u)
                                THEN [task[u] EXCEPT !.sig = TRUE]
                                ELSE task[u]]
    /\ UNCHANGED <<durable, lock, faults>>

CancelSignal ==
    /\ lock.op = "cancel"
    /\ active' = NoTask
    /\ task' = [u \in Tasks |-> IF u = active /\ Live(u)
                                THEN [task[u] EXCEPT !.sig = TRUE]
                                ELSE task[u]]
    /\ lock' = Unlocked
    /\ UNCHANGED <<durable, faults>>

-----------------------------------------------------------------------------
(* The supervisor.                                                         *)

EnsureRead ==
    /\ lock.op = "free"
    /\ ~LiveEntry
    /\ status = "running"
    /\ \E t \in Tasks : Free(t)
    /\ \E r \in DOMAIN hist :
          /\ Current(hist, r)
          /\ lock' = [op |-> "ensure", rec |-> r,
                      as |-> OperationOf(hist[r].kind)]
    /\ UNCHANGED <<durable, active, task, faults>>

EnsureRegister(t) ==
    /\ lock.op = "ensure"
    /\ Free(t)
    /\ Register(t, lock.rec, lock.as)
    /\ lock' = Unlocked
    /\ UNCHANGED <<durable, faults>>

\* The process dies and starts again: tasks, registry and lock are gone.
Crash ==
    /\ Fault
    /\ task' = [t \in Tasks |-> NoRun]
    /\ active' = NoTask
    /\ lock' = Unlocked
    /\ UNCHANGED durable

-----------------------------------------------------------------------------
(* process_request, one step per closure or cancellation check.            *)

At(t, pc) == task[t].pc = pc

Goto(t, pc) == task' = [task EXCEPT ![t].pc = pc]

\* The turn is over with a result; its other locals are dead.
Finish(t, res) ==
    task' = [task EXCEPT ![t] =
               [NewTask("end", @.rec, @.op) EXCEPT !.sig = task[t].sig, !.res = res]]

\* The next lap of the loop keeps the task's counters only.
NextLap(t) ==
    task' = [task EXCEPT ![t] =
               [NewTask("wait", @.rec, @.op) EXCEPT !.sig = task[t].sig,
                  !.over = task[t].over, !.pro = task[t].pro]]

Stale(t) == Superseded(hist, task[t].rec)

ReadOnly == UNCHANGED <<durable, lock, active, faults>>

\* The Thread and its upstream are loaded; without an upstream the request
\* fails at once.
Load(t) ==
    /\ At(t, "start")
    /\ Goto(t, "wait") \/ Finish(t, "error")
    /\ ReadOnly

\* The head of the loop and the first half of wait_retry.
Wait(t) ==
    /\ At(t, "wait")
    /\ IF task[t].sig \/ Stale(t) THEN Finish(t, "cancelled") ELSE Goto(t, "waiting")
    /\ ReadOnly

\* The backoff ends, or the cancellation is noticed.
Waited(t) ==
    /\ At(t, "waiting")
    /\ IF task[t].sig THEN Finish(t, "cancelled")
       ELSE Goto(t, IF task[t].op = "compaction" THEN "manual" ELSE "settle")
    /\ ReadOnly

\* Mutant: a resumed turn takes its saved calls for answered.
SettleNothing(t) ==
    /\ At(t, "settle")
    /\ IF Stale(t) THEN Finish(t, "cancelled") ELSE Goto(t, "tools")
    /\ ReadOnly

\* settle_tools reads the calls of this request that have no output yet.
Settle(t) ==
    /\ At(t, "settle")
    /\ IF Stale(t) THEN Finish(t, "cancelled")
       ELSE task' = [task EXCEPT ![t].pc = "tools",
                                 ![t].pend = Unanswered(hist, task[t].rec)]
    /\ ReadOnly

\* The oldest pending call is started again, or none is left.
SettleNext(t) ==
    /\ At(t, "tools")
    /\ IF task[t].pend = {} THEN Goto(t, "context")
       ELSE IF task[t].sig THEN Finish(t, "cancelled")
       ELSE \E c \in task[t].pend :
              /\ \A d \in task[t].pend : c <= d
              /\ IF hist[c].kind = "call" /\ Stale(t)
                 THEN Finish(t, "cancelled")
                 ELSE task' = [task EXCEPT
                        ![t].pc = IF hist[c].kind = "call" THEN "waitcall" ELSE "effect",
                        ![t].call = c,
                        ![t].pend = @ \ {c},
                        ![t].back = "tools"]
    /\ ReadOnly

\* Mutant: a call settled without an output is left without one.
WaitWithoutAnswer(t) ==
    /\ At(t, "waitcall")
    /\ IF task[t].sig THEN Finish(t, "cancelled") ELSE Goto(t, "tools")
    /\ ReadOnly

\* wait_worker_result: the call is settled with its output recorded, or
\* settled without one (refused, cancelled, timed out), or the wait ends.
WaitCall(t) ==
    /\ At(t, "waitcall")
    /\ IF task[t].sig THEN Finish(t, "cancelled")
       ELSE IF Answered(hist, task[t].call)
       THEN task' = [task EXCEPT ![t].pc = "tools", ![t].call = 0, ![t].back = "none"]
       ELSE Goto(t, "answer")
    /\ ReadOnly

\* A Controller tool runs; block_thread is the one that touches this state.
ToolEffect(t) ==
    /\ At(t, "effect")
    /\ blocked' \in {blocked, TRUE}
    /\ Goto(t, "answer")
    /\ UNCHANGED <<hist, status, retry, done, lock, active, faults>>

\* append_tool_output_item.  Call 0 was itself recorded as activity.
Answer(t) ==
    /\ At(t, "answer")
    /\ LET c == task[t].call
           worker == c # 0 /\ hist[c].kind = "call"
       IN hist' = IF c = 0 \/ (worker /\ Answered(hist, c)) THEN hist
                  ELSE IF ~Stale(t) THEN Append(hist, Rec("output", task[t].rec, c))
                  ELSE IF worker THEN Append(hist, Rec("late", task[t].rec, c))
                  ELSE hist
    /\ task' = [task EXCEPT ![t].pc = task[t].back, ![t].call = 0, ![t].back = "none"]
    /\ UNCHANGED <<status, retry, blocked, done, lock, active, faults>>

\* The history, perhaps with one more note that belongs to no request.
Noted(h) ==
    IF Cardinality(Items(h)) < MaxItems THEN {h, Append(h, Rec("note", 0, 0))} ELSE {h}

\* current_context: the note of a model switch is committed first, then the
\* request must be current; copies of loaded manuals are added to what it
\* compiles.  The estimate may call for a compaction instead of inference.
Context(t) ==
    /\ At(t, "context")
    /\ \E switched \in Noted(hist) :
          IF ~Current(switched, task[t].rec) \/ status # "running"
          THEN hist' = switched /\ Finish(t, "cancelled")
          ELSE \E h \in Noted(switched) : \E tail \in DOMAIN h :
                 /\ hist' = h
                 /\ IsTail(h, Len(h), tail)
                 /\ \/ task' = [task EXCEPT ![t].pc = "infer", ![t].tail = tail,
                                            ![t].resp = "none"]
                    \/ /\ task[t].pro < ProactiveCompactions
                       /\ task' = [task EXCEPT ![t].pc = "compacting",
                                               ![t].tail = tail, ![t].pro = @ + 1]
    /\ UNCHANGED <<status, retry, blocked, done, lock, active, faults>>

\* A manual compaction compiles the records before its own boundary.
ManualContext(t) ==
    /\ At(t, "manual")
    /\ \E tail \in DOMAIN hist :
          /\ IsTail(hist, task[t].rec, tail)
          /\ task' = [task EXCEPT ![t].pc = "compacting", ![t].tail = tail]
    /\ ReadOnly

\* append_response_output_items: a completed item of the stream.  A stale
\* request keeps it as activity.
StreamItem(t, kind) ==
    /\ At(t, "infer")
    /\ task[t].resp \in {"none", "message"}
    /\ Cardinality(Items(hist)) < MaxItems
    /\ kind = "message" => ~Stale(t)
    /\ LET id == IF Stale(t) THEN 0 ELSE Len(hist) + 1
       IN /\ hist' = IF Stale(t) THEN hist ELSE Append(hist, Rec(kind, task[t].rec, 0))
          /\ task' = CASE kind = "message" -> [task EXCEPT ![t].resp = "message"]
                       [] kind = "call" -> [task EXCEPT ![t].resp = "worker",
                                                        ![t].pc = "enqueue"]
                       [] OTHER -> [task EXCEPT ![t].resp = "local", ![t].pc = "effect",
                                                ![t].call = id, ![t].back = "infer"]
    /\ UNCHANGED <<status, retry, blocked, done, lock, active, faults>>

\* start_response_tool on a Worker call: its row is there unless stale.
StreamEnqueue(t) ==
    /\ At(t, "enqueue")
    /\ IF Stale(t) THEN Finish(t, "cancelled") ELSE Goto(t, "infer")
    /\ ReadOnly

\* save_response_state of a completed response: the snapshot, the retry
\* budget and the terminal status commit together.
Complete(t, endTurn) ==
    /\ At(t, "infer")
    /\ ~endTurn => task[t].resp = "message"
    /\ LET final == endTurn /\ task[t].resp \in {"none", "message"}
       IN /\ IF Stale(t) THEN UNCHANGED <<retry, status, done>>
             ELSE /\ retry' = 0
                  /\ status' = IF final /\ status = "running" THEN "idle" ELSE status
                  /\ done' = IF final THEN done \cup {task[t].rec} ELSE done
          /\ task' = [task EXCEPT ![t].pc = "responded", ![t].tail = 0,
                                  ![t].resp = IF endTurn THEN @ ELSE "again"]
    /\ UNCHANGED <<hist, blocked, lock, active, faults>>

\* The request fails: a transport error, a refusal, an overflow of the
\* window, or the cancellation that the stream is waiting on.
StreamError(t) ==
    /\ At(t, "infer")
    /\ \/ task' = [task EXCEPT ![t].pc = "retry", ![t].tail = 0, ![t].resp = "none"]
       \/ Finish(t, "error")
       \/ /\ task[t].resp # "worker" /\ task[t].over < CheckpointRetries
          /\ task' = [task EXCEPT ![t].pc = "compacting", ![t].over = @ + 1,
                                  ![t].resp = "none"]
       \/ task[t].sig /\ Finish(t, "cancelled")
    /\ ReadOnly

\* After the response: go round again, end the turn or ask for more.
Responded(t) ==
    /\ At(t, "responded")
    /\ IF task[t].sig THEN Finish(t, "cancelled")
       ELSE IF task[t].resp \in {"local", "worker", "again"} THEN NextLap(t)
       ELSE IF NotesContinuation THEN Goto(t, "decide")
       ELSE Finish(t, "ok")
    /\ ReadOnly

\* continuation::decide_in.  Open notes are read here, whoever writes them.
Decide(t) ==
    /\ At(t, "decide")
    /\ LET rec == task[t].rec
       IN \/ /\ Finish(t, "ok")
             /\ UNCHANGED <<hist, status>>
          \/ /\ ~blocked /\ ~HasContinuation(hist, rec)
             /\ hist' = IF Continuations(hist, rec, "stopped") = 0
                        THEN Append(hist, Rec("stopped", rec, 0)) ELSE hist
             /\ Finish(t, "ok")
             /\ UNCHANGED status
          \/ /\ ~blocked /\ HasContinuation(hist, rec)
             /\ hist' = Append(hist, Rec("nudge", rec, 0))
             /\ status' = "running"
             /\ NextLap(t)
    /\ UNCHANGED <<retry, blocked, done, lock, active, faults>>

\* Mutant: a failure is counted without asking whose turn it is.
RetryUnchecked(t) ==
    /\ At(t, "retry")
    /\ retry' = retry + 1
    /\ status' = IF retry + 1 >= MaxFailures THEN "failed" ELSE status
    /\ IF retry + 1 < MaxFailures THEN NextLap(t) ELSE Finish(t, "error")
    /\ UNCHANGED <<hist, blocked, done, lock, active, faults>>

\* recovery::retry after a transient error.
Retry(t) ==
    /\ At(t, "retry")
    /\ IF Stale(t) \/ status # "running"
       THEN /\ Finish(t, "cancelled")
            /\ UNCHANGED <<retry, status>>
       ELSE /\ retry' = retry + 1
            /\ status' = IF retry + 1 >= MaxFailures THEN "failed" ELSE status
            /\ IF retry + 1 < MaxFailures THEN NextLap(t) ELSE Finish(t, "error")
    /\ UNCHANGED <<hist, blocked, done, lock, active, faults>>

\* compact_protocol_context: the summary is asked for.  A completed response
\* resets the retry budget; only a manual compaction retries a failure.
Compacting(t) ==
    /\ At(t, "compacting")
    /\ \/ /\ retry' = IF Stale(t) THEN retry ELSE 0
          /\ Goto(t, "checkpoint")
       \/ /\ UNCHANGED retry
          /\ \/ Finish(t, "error")
             \/ task[t].op = "compaction" /\ Goto(t, "retry")
             \/ task[t].sig /\ Finish(t, "cancelled")
    /\ UNCHANGED <<hist, status, blocked, done, lock, active, faults>>

\* persist_thread_checkpoint
Checkpoint(t) ==
    /\ At(t, "checkpoint")
    /\ IF task[t].sig \/ Stale(t)
       THEN Finish(t, "cancelled") /\ UNCHANGED durable
       ELSE IF ~IsTail(hist, Len(hist), task[t].tail)
       THEN Finish(t, "error") /\ UNCHANGED durable
       ELSE /\ hist' = Append(hist, Rec("checkpoint", task[t].rec, 0))
            /\ IF hist[task[t].rec].kind = "compact"
               THEN /\ status' = IF status = "running" THEN "idle" ELSE status
                    /\ retry' = IF status = "running" THEN 0 ELSE retry
                    /\ done' = done \cup {task[t].rec}
               ELSE UNCHANGED <<status, retry, done>>
            /\ IF task[t].op = "compaction" THEN Finish(t, "ok") ELSE NextLap(t)
            /\ UNCHANGED blocked
    /\ UNCHANGED <<lock, active, faults>>

\* The end of process_request: is this still the registered request?
Ending(t) ==
    /\ At(t, "end")
    /\ task[t].sig \/ lock.op = "free"
    /\ LET registered == active # NoTask /\ task[active].rec = task[t].rec
       IN Goto(t, IF task[t].res = "error" THEN "fail"
                  ELSE IF task[t].res = "ok" /\ ~task[t].sig /\ registered
                  THEN "succeed" ELSE "clear")
    /\ ReadOnly

\* Mutant: the turn that ended idles the Thread, whoever runs by now.
FinalizeAnyway(t) ==
    /\ At(t, "succeed")
    /\ status' = "idle"
    /\ Goto(t, "clear")
    /\ UNCHANGED <<hist, retry, blocked, done, lock, active, faults>>

FinalizeSuccess(t) ==
    /\ At(t, "succeed")
    /\ status' = IF Current(hist, task[t].rec) /\ status = "running" THEN "idle" ELSE status
    /\ Goto(t, "clear")
    /\ UNCHANGED <<hist, retry, blocked, done, lock, active, faults>>

FinalizeFailure(t) ==
    /\ At(t, "fail")
    /\ status' = IF Current(hist, task[t].rec) /\ status = "running" THEN "failed" ELSE status
    /\ Goto(t, "clear")
    /\ UNCHANGED <<hist, retry, blocked, done, lock, active, faults>>

ClearCurrent(t) ==
    /\ At(t, "clear")
    /\ lock.op = "free"
    /\ active' = IF active # NoTask /\ task[active].rec = task[t].rec
                 THEN NoTask ELSE active
    /\ task' = [task EXCEPT ![t] = NoRun]
    /\ UNCHANGED <<durable, lock, faults>>

\* A storage error ends the step it hits: the request fails, a decision or a
\* finalization is given up.
StorageError(t) ==
    /\ Fault
    /\ Live(t)
    /\ \/ task[t].pc \in {"start", "wait", "settle", "effect", "answer", "context",
                          "manual", "infer", "enqueue", "retry", "checkpoint",
                          "waitcall", "compacting", "tools"}
          /\ Finish(t, "error")
       \/ At(t, "decide") /\ Finish(t, "ok")
       \/ task[t].pc \in {"succeed", "fail"} /\ Goto(t, "clear")
    /\ UNCHANGED <<durable, lock, active>>

\* A panic drops the receiver; the registry keeps the entry.
Panic(t) ==
    /\ Fault
    /\ Live(t)
    /\ task' = [task EXCEPT ![t] = [NoRun EXCEPT !.rec = task[t].rec]]
    /\ UNCHANGED <<durable, lock, active>>

-----------------------------------------------------------------------------
(* settle_worker_call_result: the first result of a Worker call is written  *)
(* to the history, as activity when its request is stale.                  *)

\* Mutant: a late result is written into the history of the next request.
ResultUnchecked(c) ==
    /\ c \in DOMAIN hist /\ hist[c].kind = "call"
    /\ ~Answered(hist, c)
    /\ hist' = Append(hist, Rec("output", hist[c].req, c))
    /\ UNCHANGED <<status, retry, blocked, done, lock, active, task, faults>>

WorkerResult(c) ==
    /\ c \in DOMAIN hist /\ hist[c].kind = "call"
    /\ ~Answered(hist, c)
    /\ hist' = Append(hist,
         Rec(IF Superseded(hist, hist[c].req) THEN "late" ELSE "output", hist[c].req, c))
    /\ UNCHANGED <<status, retry, blocked, done, lock, active, task, faults>>

-----------------------------------------------------------------------------

\* What a task does by itself, once it is scheduled.
Run(t) ==
    \/ Load(t) \/ Wait(t) \/ Waited(t) \/ Settle(t) \/ SettleNext(t)
    \/ WaitCall(t) \/ ToolEffect(t) \/ Answer(t)
    \/ Context(t) \/ ManualContext(t)
    \/ \E kind \in {"message", "call", "local"} : StreamItem(t, kind)
    \/ StreamEnqueue(t)
    \/ \E endTurn \in BOOLEAN : Complete(t, endTurn)
    \/ StreamError(t) \/ Responded(t) \/ Decide(t) \/ Retry(t)
    \/ Compacting(t) \/ Checkpoint(t)
    \/ FinalizeSuccess(t) \/ FinalizeFailure(t)

Handlers ==
    \/ \E kind \in {"input", "continue", "compact"} :
          EnqueueCommit(kind) \/ EnqueueDropped(kind)
    \/ CancelCommit \/ CancelDropped \/ CancelSignal
    \/ \E t \in Tasks : EnqueueRegister(t)

Supervisor == EnsureRead \/ \E t \in Tasks : EnsureRegister(t)

Next ==
    \/ Handlers
    \/ Supervisor
    \/ \E t \in Tasks : Run(t) \/ Ending(t) \/ ClearCurrent(t)
    \/ \E t \in Tasks : StorageError(t) \/ Panic(t)
    \/ Crash
    \/ \E c \in DOMAIN hist : WorkerResult(c)

Spec == Init /\ [][Next]_vars

\* Tokio runs every ready task and hands its fair mutex out in order; a
\* handler finishes what it locked; the supervisor scans every five seconds;
\* upstreams and tools answer or fail within their timeouts.
Fairness ==
    /\ \A t \in Tasks : SF_vars(Run(t) \/ Ending(t) \/ ClearCurrent(t))
    /\ WF_vars(CancelSignal \/ \E t \in Tasks : EnqueueRegister(t) \/ EnsureRegister(t))
    /\ SF_vars(EnsureRead)

FairSpec == Spec /\ Fairness

-----------------------------------------------------------------------------
(* Properties.                                                             *)

\* Every variable keeps its type.
TypeOK ==
    /\ hist \in Seq(Record)
    /\ status \in {"idle", "running", "failed"}
    /\ retry \in Nat
    /\ blocked \in BOOLEAN
    /\ lock \in LockState
    /\ active \in Tasks \cup {NoTask}
    /\ task \in [Tasks -> TaskState]
    /\ done \subseteq Nat
    /\ faults \in Nat

\* A request writes protocol history only while no newer boundary exists:
\* between a request and each protocol record written for it lies no other
\* boundary, whoever wrote the record (the turn, a recovered turn, a late
\* Worker result, a checkpoint) and however late.  It is what keeps late
\* responses and concurrent requests isolated.
BoundaryOwnsHistory ==
    \A i \in DOMAIN hist : hist[i].kind \in OwnedKinds =>
        /\ hist[i].req \in 1..i
        /\ \A j \in DOMAIN hist :
              hist[i].req < j /\ j < i => ~IsBoundary(hist[j])

\* Stop holds: while a cancel is the newest boundary nothing puts the Thread
\* back to running or to failed, so the supervisor cannot resume it either.
StoppedStaysStopped ==
    \A r \in DOMAIN hist :
        hist[r].kind = "cancel" /\ Current(hist, r) => status = "idle"

\* A task that was not told to stop is the registered one: no running loop
\* is out of reach of Stop and of a superseding prompt, and a Thread never
\* has two of them.
LoopIsRegistered ==
    \A t \in Tasks : Live(t) /\ ~task[t].sig => active = t

\* An idle Thread owes nothing: its newest boundary is a Stop or a request
\* whose final response or checkpoint was committed.  No crash, race or
\* storage error loses an accepted prompt.
IdleIsExplained ==
    status = "idle" => \A r \in DOMAIN hist :
        Current(hist, r) => hist[r].kind = "cancel" \/ r \in done

\* A call has at most one tool output, although a Worker result, a timeout
\* answer and a turn resumed after a crash may all try to write it.
AnsweredOnce == \A c \in DOMAIN hist : Cardinality(Outputs(hist, c)) <= 1

\* A checkpoint replaces what precedes it in the model's context, so it never
\* separates a call from its output: compaction starts from settled calls, and
\* a late result may not answer a call that was summarised unanswered.
CheckpointKeepsPairs ==
    \A k \in DOMAIN hist : hist[k].kind = "checkpoint" =>
        \A c \in 1..k : \A o \in Outputs(hist, c) : o < k

\* The model is asked again only when every call of the request is answered:
\* recovery settles saved calls before it compiles the history.
SettledBeforeInference ==
    [][\A t \in Tasks : At(t, "context") /\ At(t, "infer")' =>
          Unanswered(hist, task[t].rec) = {}]_vars

\* The retry budget is durable: a running Thread has some of it left, also
\* after a restart in the middle of a backoff.
RetryBudget == status = "running" => retry < MaxFailures

\* One input is handed back to the model at most MaxPerTurn times, over all
\* the tasks that ever ran it.
NudgeBudget ==
    \A r \in DOMAIN hist : Continuations(hist, r, "nudge") <= MaxPerTurn

\* Only a request that is still the newest one blocks the Thread: the user's
\* next message clears the flag and stale work does not raise it again.
BlockedByCurrent ==
    [][~blocked /\ blocked' =>
          \E t \in Tasks : task'[t] # task[t] /\ ~Stale(t)]_vars

\* A running Thread does not stay so: its turn is served (by its task, or
\* by one the supervisor starts) until it ends.
RunningEnds == status = "running" ~> status # "running"

\* A request that was superseded or stopped leaves the process.
SignalledEnds ==
    \A t \in Tasks : (Live(t) /\ task[t].sig) ~> ~Live(t)

=============================================================================
