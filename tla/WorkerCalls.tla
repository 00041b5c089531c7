----------------------------- MODULE WorkerCalls -----------------------------
(***************************************************************************)
(* The durable ledger of the tool calls a Thread sends to one Worker of    *)
(* its own user: the turn that waits for them, the event stream that       *)
(* dispatches them, the device that runs them and the reports it posts.    *)
(*                                                                         *)
(* The Controller side is the code; every closure run by `user_db` is one  *)
(* step.  The device is outside the repository: docs and handlers fix what *)
(* it sends.  A device process is its boot number; 0 is no boot.  Posts    *)
(* stay in `posts` for ever: any of them may arrive late, again, or never. *)
(* Calls belong to requests of different Threads.                          *)
(*                                                                         *)
(* Left out here: calls of other users (grants), Worker upgrades, checks   *)
(* of a new device, the 0.1.x Workers without a boot, deleted Threads and  *)
(* Workers.  Timeouts may expire at any moment after the call started.     *)
(***************************************************************************)
EXTENDS Naturals, Sequences, FiniteSets

CONSTANTS
    Calls,      \* rows of worker_calls
    MaxBoots,   \* bound: device processes
    MaxFrames,  \* bound: events in flight on the open stream
    MaxFaults   \* bound: turns killed, obsolete connections

ASSUME WorkerCallsAssumption ==
    /\ IsFiniteSet(Calls)
    /\ MaxBoots \in Nat \ {0}
    /\ MaxFrames \in Nat \ {0}
    /\ MaxFaults \in Nat

VARIABLES
    call,     \* the ledger
    request,  \* the request a call belongs to
    turn,     \* the wait loop of a call, in the turn that made it
    boot,     \* workers.boot_id
    streams,  \* event streams of that boot the Controller still feeds
    frames,   \* events in flight on the open one
    device,   \* the device process
    posts,    \* every report a device process ever sent
    runs,     \* history variable: executions of a call, on any process
    writes,   \* history variable: answers of a call written to history
    faults    \* history variable: faults injected so far

ledger == <<call, writes>>
wire == <<boot, streams, frames>>
outside == <<device, posts, runs>>
vars == <<ledger, request, turn, wire, outside, faults>>

Boots == 0..MaxBoots
Pending == {"queued", "delivered"}
Settled == {"completed", "failed", "cancelled"}

Call ==
    [status   : {"none"} \cup Pending \cup Settled,
     boot     : Boots,                          \* worker_boot_id
     received : BOOLEAN,                        \* received_at
     asked    : BOOLEAN,                        \* cancel_requested_at
     told     : BOOLEAN,                        \* cancel_notified_at
     result   : {"none", "done", "stopped"},    \* result_json
     out      : {"none", "output", "activity"}] \* output_record_id

NoCall == [status |-> "none", boot |-> 0, received |-> FALSE, asked |-> FALSE,
           told |-> FALSE, result |-> "none", out |-> "none"]

Frame == [event : {"tool_call", "cancel"}, call : Calls]

Post == [report : {"receipt", "done", "stopped"}, call : Calls, boot : Boots]

Device ==
    [proc : Boots, seen : SUBSET Calls, running : SUBSET Calls, heard : SUBSET Calls]

Process(b) == [proc |-> b, seen |-> {}, running |-> {}, heard |-> {}]

Init ==
    /\ call = [c \in Calls |-> NoCall]
    /\ request = [c \in Calls |-> "current"]
    /\ turn = [c \in Calls |-> "off"]
    /\ boot = 0
    /\ streams = {}
    /\ frames = <<>>
    /\ device = Process(1)
    /\ posts = {}
    /\ runs = [c \in Calls |-> 0]
    /\ writes = [c \in Calls |-> 0]
    /\ faults = 0

Fault == faults < MaxFaults /\ faults' = faults + 1

Stale(c) == request[c] = "superseded"

\* Mutant: a kind of record the history does not know.
AnswerKindLate(c) == IF Stale(c) THEN "late" ELSE "output"

\* The kind of history record an answer written now gets.
AnswerKind(c) == IF Stale(c) THEN "activity" ELSE "output"

-----------------------------------------------------------------------------
(* Requests, as far as a call can tell: the newest one of a running        *)
(* Thread, the newest one of a Thread that failed, or superseded.          *)

\* A newer input; the turn that still waits learns it from its signal.
Supersede(c) ==
    /\ ~Stale(c)
    /\ request' = [request EXCEPT ![c] = "superseded"]
    /\ UNCHANGED <<ledger, turn, wire, outside, faults>>

\* Stop settles the pending calls of the Thread in its own transaction.
Stop(c) ==
    /\ request[c] = "current"
    /\ request' = [request EXCEPT ![c] = "superseded"]
    /\ call' = IF call[c].status \in Pending
               THEN [call EXCEPT ![c].status = "cancelled"] ELSE call
    /\ UNCHANGED <<writes, turn, wire, outside, faults>>

\* The process dies, the request survives: it is resumed later.
TurnDies(c) ==
    /\ Fault
    /\ turn[c] # "off"
    /\ turn' = [turn EXCEPT ![c] = "off"]
    /\ UNCHANGED <<ledger, request, wire, outside>>

\* An error ends the turn and fails the Thread; its calls stay.
TurnFails(c) ==
    /\ Fault
    /\ turn[c] # "off"
    /\ turn' = [turn EXCEPT ![c] = "off"]
    /\ request' = [request EXCEPT ![c] = IF @ = "current" THEN "failed" ELSE @]
    /\ UNCHANGED <<ledger, wire, outside>>

-----------------------------------------------------------------------------
(* The turn.                                                               *)

\* enqueue_worker_call_tx: a call that is already in the ledger is waited
\* for again (the turn resumed), never inserted twice.
Enqueue(c) ==
    /\ turn[c] = "off"
    /\ request[c] = "current"
    /\ call[c].out = "none"
    /\ call' = IF call[c].status = "none"
               THEN [call EXCEPT ![c].status = "queued"] ELSE call
    /\ turn' = [turn EXCEPT ![c] = "wait"]
    /\ UNCHANGED <<writes, request, wire, outside, faults>>

\* Mutant: a settled call without an answer is taken for answered.
ObserveOnly(c) ==
    /\ turn[c] = "wait"
    /\ call[c].status \in Settled
    /\ turn' = [turn EXCEPT ![c] = "off"]
    /\ UNCHANGED <<ledger, request, wire, outside, faults>>

\* wait_worker_result sees a settled call.
Observe(c) ==
    /\ turn[c] = "wait"
    /\ call[c].status \in Settled
    /\ turn' = [turn EXCEPT ![c] = IF call[c].out = "none" THEN "answer" ELSE "off"]
    /\ UNCHANGED <<ledger, request, wire, outside, faults>>

\* The call outlived its timeout: the device is asked to cancel it.
AskCancel(c) ==
    /\ turn[c] = "wait"
    /\ call[c].status = "delivered" /\ ~call[c].asked
    /\ call' = [call EXCEPT ![c].asked = TRUE]
    /\ UNCHANGED <<writes, request, turn, wire, outside, faults>>

\* answer_unconfirmed_timeout: the device did not confirm in time.
GiveUp(c) ==
    /\ turn[c] = "wait"
    /\ call[c].asked
    /\ call[c].status = "delivered"
    /\ call' = [call EXCEPT ![c].status = "failed"]
    /\ turn' = [turn EXCEPT ![c] = "answer"]
    /\ UNCHANGED <<writes, request, wire, outside, faults>>

\* cancel_worker_call: the turn is told to stop while it waits.
CancelCall(c) ==
    /\ turn[c] = "wait"
    /\ Stale(c)
    /\ call' = IF call[c].status \in Pending
               THEN [call EXCEPT ![c].status = "cancelled", ![c].asked = TRUE]
               ELSE call
    /\ turn' = [turn EXCEPT ![c] = "off"]
    /\ UNCHANGED <<writes, request, wire, outside, faults>>

\* append_tool_output_item: an answer that is already recorded stands.
Answer(c) ==
    /\ turn[c] = "answer"
    /\ IF call[c].out = "none"
       THEN /\ call' = [call EXCEPT ![c].out = AnswerKind(c)]
            /\ writes' = [writes EXCEPT ![c] = @ + 1]
       ELSE UNCHANGED ledger
    /\ turn' = [turn EXCEPT ![c] = "off"]
    /\ UNCHANGED <<request, wire, outside, faults>>

-----------------------------------------------------------------------------
(* The event stream.                                                       *)

\* Mutant: only the calls that process had acknowledged are failed.
LostReceived(b) ==
    {c \in Calls : call[c].status = "delivered" /\ call[c].boot # b /\ call[c].received}

\* Calls of another process that were never settled.
Lost(b) == {c \in Calls : call[c].status = "delivered" /\ call[c].boot # b}

\* Mutant: lost calls go back to the queue.
RegisterRequeues(b, stream) ==
    /\ boot' = b
    /\ streams' = (IF boot = b THEN streams ELSE {}) \cup {stream}
    /\ call' = [c \in Calls |-> IF c \in Lost(b)
                                THEN [call[c] EXCEPT !.status = "queued"] ELSE call[c]]
    /\ UNCHANGED <<writes, request, turn, outside>>

\* register: a new process fails the calls another one took with it.
\* Streams of another boot end at their next pass.
Register(b, stream) ==
    /\ boot' = b
    /\ streams' = (IF boot = b THEN streams ELSE {}) \cup {stream}
    /\ call' = [c \in Calls |-> IF c \in Lost(b)
                                THEN [call[c] EXCEPT !.status = "failed",
                                                     !.out = AnswerKind(c)]
                                ELSE call[c]]
    /\ writes' = [c \in Calls |-> IF c \in Lost(b) THEN writes[c] + 1 ELSE writes[c]]
    /\ UNCHANGED <<request, turn, outside>>

\* The device process connects, or connects again.
Connect ==
    /\ "open" \notin streams
    /\ Register(device.proc, "open")
    /\ frames' = <<>>
    /\ UNCHANGED faults

\* A connection request of an earlier process arrives late.
ObsoleteConnect ==
    /\ Fault
    /\ \E b \in 1..device.proc : b # device.proc /\ b # boot /\ Register(b, "dead")
    /\ UNCHANGED frames

\* A connection breaks.  The Controller may go on feeding it for a while.
Drop ==
    /\ "open" \in streams
    /\ \/ streams' = {"dead"}
       \/ streams' = streams \ {"open"}
    /\ frames' = <<>>
    /\ UNCHANGED <<ledger, request, turn, boot, outside, faults>>

DeadEnds ==
    /\ "dead" \in streams
    /\ streams' = streams \ {"dead"}
    /\ UNCHANGED <<ledger, request, turn, boot, frames, outside, faults>>

\* The next event goes out on a stream; a dead one swallows it.
Emit(s, event, c) ==
    IF s = "open"
    THEN /\ Len(frames) < MaxFrames
         /\ frames' = Append(frames, [event |-> event, call |-> c])
    ELSE UNCHANGED frames

\* Mutant: the gate forgets to look at the Thread.
AlwaysActive(c) == TRUE

\* gate: the request is the newest one of a running Thread.
Active(c) == request[c] = "current"

\* Cancellations the registered process was not told of yet.
Notices ==
    {c \in Calls : /\ call[c].boot = boot /\ boot # 0
                   /\ ~call[c].told
                   /\ call[c].status = "cancelled" \/ call[c].asked}

\* cancel_notice: before any call, one notification per call.
CancelNotice(s) ==
    /\ s \in streams
    /\ \E c \in Notices :
          /\ call' = [call EXCEPT ![c].told = TRUE]
          /\ Emit(s, "cancel", c)
    /\ UNCHANGED <<writes, request, turn, boot, streams, outside, faults>>

\* Mutant: the pass over the queue cancels what it does not claim.
QueuedCalls == {c \in Calls : call[c].status = "queued"}

\* Queued calls a claim finds inactive.
Refused == {c \in Calls : call[c].status = "queued" /\ ~Active(c)}

\* claim: the first active call of the queue is bound to this process, the
\* inactive ones before it are cancelled.  The order of the queue is open.
Claim(s) ==
    /\ s \in streams
    /\ Notices = {}
    /\ \E c \in Calls : \E before \in SUBSET Refused :
          /\ call[c].status = "queued" /\ Active(c)
          /\ call' = [d \in Calls |->
                IF d = c THEN [call[d] EXCEPT !.status = "delivered", !.boot = boot]
                ELSE IF d \in before THEN [call[d] EXCEPT !.status = "cancelled"]
                ELSE call[d]]
          /\ Emit(s, "tool_call", c)
    /\ UNCHANGED <<writes, request, turn, boot, streams, outside, faults>>

\* A claim that finds inactive calls only.
ClaimNothing(s) ==
    /\ s \in streams
    /\ Notices = {}
    /\ Refused # {}
    /\ Refused = {c \in Calls : call[c].status = "queued"}
    /\ call' = [c \in Calls |-> IF c \in Refused
                                THEN [call[c] EXCEPT !.status = "cancelled"] ELSE call[c]]
    /\ UNCHANGED <<writes, request, turn, wire, outside, faults>>

\* replay: a delivered call without a receipt is sent again.
Replay(s, c) ==
    /\ s \in streams
    /\ Notices = {}
    /\ call[c].status = "delivered" /\ call[c].boot = boot /\ ~call[c].received
    /\ IF Active(c)
       THEN UNCHANGED call /\ Emit(s, "tool_call", c)
       ELSE call' = [call EXCEPT ![c].status = "cancelled"] /\ UNCHANGED frames
    /\ UNCHANGED <<writes, request, turn, boot, streams, outside, faults>>

\* cancel_stale, by the supervisor, with or without a connection.
Sweep ==
    /\ \E c \in Calls : ~Active(c) /\ call[c].status \in Pending
                                   /\ (call[c].status = "delivered" => ~call[c].received)
    /\ call' = [c \in Calls |->
          IF ~Active(c) /\ (\/ call[c].status = "queued"
                            \/ call[c].status = "delivered" /\ ~call[c].received)
          THEN [call[c] EXCEPT !.status = "cancelled"] ELSE call[c]]
    /\ UNCHANGED <<writes, request, turn, wire, outside, faults>>

-----------------------------------------------------------------------------
(* Reports.                                                                *)

\* worker_call_received
Receipt(p) ==
    /\ p.report = "receipt"
    /\ call[p.call].boot = p.boot
    /\ ~call[p.call].received
    /\ call' = [call EXCEPT ![p.call].received = TRUE]
    /\ UNCHANGED <<writes, request, turn, wire, outside, faults>>

\* settle_worker_call_result: the first result of a started call.  A pending
\* call is settled by it, a settled one keeps its status; the answer is
\* recorded unless there is one.  Sent again, the same result changes
\* nothing and another one is refused.
Result(p) ==
    /\ p.report # "receipt"
    /\ call[p.call].boot # 0
    /\ call[p.call].result = "none"
    /\ LET c == p.call
           status == IF call[c].status \notin Pending THEN call[c].status
                     ELSE IF p.report = "done" THEN "completed" ELSE "failed"
       IN IF call[c].out # "none"
          THEN /\ call' = [call EXCEPT ![c].result = p.report]
               /\ UNCHANGED writes
          ELSE /\ call' = [call EXCEPT ![c].result = p.report, ![c].status = status,
                                       ![c].received = TRUE, ![c].out = AnswerKind(c)]
               /\ writes' = [writes EXCEPT ![c] = @ + 1]
    /\ UNCHANGED <<request, turn, wire, outside, faults>>

-----------------------------------------------------------------------------
(* The device: code that is not in the repository.                         *)

Report(kind, c) == [report |-> kind, call |-> c, boot |-> device.proc]

\* A process posts a receipt for every copy of a call and runs it once; it may
\* refuse one it was told to cancel before.
TakeCall ==
    /\ frames # <<>> /\ Head(frames).event = "tool_call"
    /\ LET c == Head(frames).call
       IN \/ /\ c \in device.seen
             /\ posts' = posts \cup {Report("receipt", c)}
             /\ UNCHANGED <<device, runs>>
          \/ /\ c \notin device.seen
             /\ posts' = posts \cup {Report("receipt", c)}
             /\ device' = [device EXCEPT !.seen = @ \cup {c}, !.running = @ \cup {c}]
             /\ runs' = [runs EXCEPT ![c] = @ + 1]
          \/ /\ c \in device.heard \ device.seen
             /\ posts' = posts \cup {Report("receipt", c), Report("stopped", c)}
             /\ device' = [device EXCEPT !.seen = @ \cup {c}]
             /\ UNCHANGED runs
    /\ frames' = Tail(frames)
    /\ UNCHANGED <<ledger, request, turn, boot, streams, faults>>

\* A running call is interrupted, or cannot be.
TakeCancel ==
    /\ frames # <<>> /\ Head(frames).event = "cancel"
    /\ LET c == Head(frames).call
       IN \/ /\ c \in device.running
             /\ device' = [device EXCEPT !.running = @ \ {c}, !.heard = @ \cup {c}]
             /\ posts' = posts \cup {Report("stopped", c)}
          \/ /\ device' = [device EXCEPT !.heard = @ \cup {c}]
             /\ UNCHANGED posts
    /\ frames' = Tail(frames)
    /\ UNCHANGED <<ledger, request, turn, boot, streams, runs, faults>>

Finish(c) ==
    /\ c \in device.running
    /\ device' = [device EXCEPT !.running = @ \ {c}]
    /\ posts' = posts \cup {Report("done", c)}
    /\ UNCHANGED <<ledger, request, turn, wire, runs, faults>>

Restart ==
    /\ device.proc < MaxBoots
    /\ device' = Process(device.proc + 1)
    /\ frames' = <<>>
    /\ \/ streams' = streams \ {"open"}
       \/ "open" \in streams /\ streams' = {"dead"}
    /\ UNCHANGED <<ledger, request, turn, boot, posts, runs, faults>>

-----------------------------------------------------------------------------

Turn(c) ==
    \/ Enqueue(c) \/ Observe(c) \/ AskCancel(c) \/ GiveUp(c)
    \/ CancelCall(c) \/ Answer(c)

Stream(s) == CancelNotice(s) \/ Claim(s) \/ ClaimNothing(s) \/ \E c \in Calls : Replay(s, c)

Next ==
    \/ \E c \in Calls : Supersede(c) \/ Stop(c) \/ TurnDies(c) \/ TurnFails(c) \/ Turn(c)
    \/ Connect \/ ObsoleteConnect \/ Drop \/ DeadEnds \/ Sweep
    \/ \E s \in streams : Stream(s)
    \/ \E p \in posts : Receipt(p) \/ Result(p)
    \/ TakeCall \/ TakeCancel \/ (\E c \in Calls : Finish(c)) \/ Restart

Spec == Init /\ [][Next]_vars

\* Turns poll and timeouts expire; the Worker keeps reconnecting; each pass of
\* a stream alternates claims and replays; the supervisor sweeps; a live
\* process reads its events and retries its reports.  Nothing makes a call
\* finish on the device.
Fairness ==
    /\ \A c \in Calls : WF_vars(Turn(c)) /\ SF_vars(Replay("open", c))
    /\ WF_vars(Connect) /\ WF_vars(DeadEnds) /\ WF_vars(Sweep)
    /\ SF_vars(CancelNotice("open"))
    /\ SF_vars(Claim("open") \/ ClaimNothing("open"))
    /\ SF_vars(TakeCall \/ TakeCancel)
    /\ \A p \in Post :
          WF_vars(p \in posts /\ p.boot = device.proc /\ (Receipt(p) \/ Result(p)))

FairSpec == Spec /\ Fairness

-----------------------------------------------------------------------------
(* Properties.                                                             *)

\* Every variable keeps its type.
TypeOK ==
    /\ call \in [Calls -> Call]
    /\ request \in [Calls -> {"current", "failed", "superseded"}]
    /\ turn \in [Calls -> {"off", "wait", "answer"}]
    /\ boot \in Boots
    /\ streams \subseteq {"open", "dead"}
    /\ frames \in Seq(Frame)
    /\ device \in Device
    /\ posts \subseteq Post
    /\ runs \in [Calls -> Nat]
    /\ writes \in [Calls -> Nat]
    /\ faults \in Nat

\* A call runs at most once on any device process, although its event is
\* sent again until a receipt comes, over broken connections and restarts.
RunsOnce == \A c \in Calls : runs[c] <= 1

\* A call is answered at most once in the history: a result, a restart, the
\* timeout fallback and a resumed turn may all want to write the answer.
WrittenOnce == \A c \in Calls : writes[c] <= 1

\* Both.
OnceOnly == RunsOnce /\ WrittenOnce

\* Only the registered process holds delivered calls: whatever process
\* registers, and in whatever order, no call stays delivered to another one,
\* where nothing would replay it, cancel it or fail it any more.
DeliveredIsCurrent ==
    \A c \in Calls : call[c].status = "delivered" => call[c].boot = boot

\* A call is cancelled only when its request is no longer the newest one of a
\* running Thread, whichever of Stop, turn, claim, replay or sweep does it.
CancelIsJustified ==
    [][\A c \in Calls : call[c].status \in Pending /\ call'[c].status = "cancelled"
          => request'[c] # "current"]_vars

\* The ledger, the streams and the devices keep the promise of CallPromise.
Promise == INSTANCE CallPromise WITH promise <-
    [c \in Calls |->
        [phase      |-> CASE call[c].status = "none" -> "none"
                          [] call[c].status = "queued" -> "waiting"
                          [] call[c].status = "delivered" -> "sent"
                          [] OTHER -> "settled",
         dispatched |-> call[c].boot # 0,
         stale      |-> Stale(c),
         runs       |-> runs[c],
         answer     |-> call[c].out]]

KeepsPromise == Promise!Spec

\* A call the model waits for is answered once it was delivered: by a result,
\* by a restart of the Worker or by the timeout, also when the turn crashes;
\* and replays, notices and broken connections do not starve the queue.
CallsMoveOn ==
    \A c \in Calls :
        /\ []<>(request[c] = "current" /\ call[c].status \notin {"none", "queued"}
                    => call[c].out # "none")
        /\ []<>(call[c].status # "queued")

\* A newer input settles the calls it affects.
NewerInputSettles ==
    \A c \in Calls : Stale(c) /\ call[c].status = "delivered"
        ~> call[c].status # "delivered"

\* The cancellation of a timed out call that the device did not confirm stays
\* pending: the process that still runs the call is told.
PendingCancelArrives ==
    \A c \in Calls :
        call[c].asked /\ call[c].status = "failed" /\ c \in device.running
        ~> c \notin device.running \/ c \in device.heard

=============================================================================
