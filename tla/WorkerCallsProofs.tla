-------------------------- MODULE WorkerCallsProofs --------------------------
(***************************************************************************)
(* Theorems about WorkerCalls, for any number of calls, device processes,  *)
(* events in flight and faults.                                            *)
(***************************************************************************)
EXTENDS WorkerCalls, TLAPS

-----------------------------------------------------------------------------
(* The inductive invariant.                                                *)

\* What is true of one call in every state: whether it was dispatched, where
\* it may be delivered, when it may be answered, how often it ran and was
\* answered.  A process that has run it has seen it, and a later one cannot:
\* a call is dispatched to one boot.
CallInv(c) ==
    /\ call[c].status \in {"none", "queued"} => call[c].boot = 0
    /\ call[c].status = "delivered" => call[c].boot # 0 /\ call[c].boot = boot
    /\ call[c].boot <= device.proc
    /\ call[c].out # "none" => call[c].status \in Settled
    /\ turn[c] = "answer" => call[c].status \in Settled
    /\ writes[c] = IF call[c].out = "none" THEN 0 ELSE 1
    /\ runs[c] = 0 \/ runs[c] = 1
    /\ runs[c] = 1 => call[c].boot # 0 /\ (call[c].boot = device.proc => c \in device.seen)

\* The open stream is the one of the process that runs, and what is in flight
\* on it was dispatched to that process.
WireInv ==
    /\ device.proc # 0
    /\ boot <= device.proc
    /\ streams # {} => boot # 0
    /\ "open" \in streams => boot = device.proc
    /\ \A i \in DOMAIN frames :
          frames[i].event = "tool_call" => call[frames[i].call].boot = device.proc

LedgerInv == TypeOK /\ WireInv /\ \A c \in Calls : CallInv(c)

-----------------------------------------------------------------------------
(* Types.                                                                  *)

Statuses == {"none", "queued", "delivered", "completed", "failed", "cancelled"}

LEMMA ProcessType ==
    ASSUME NEW b \in Boots
    PROVE  Process(b) \in Device
  BY DEF Process, Device

\* What an answer is recorded as.
LEMMA AnswerKindType ==
    \A c \in Calls : AnswerKind(c) \in {"output", "activity"}
  BY DEF AnswerKind

\* The changes steps make to a row keep it a row.
LEMMA RowTypes ==
    ASSUME NEW r \in Call
    PROVE  /\ r.status \in Statuses
           /\ [r EXCEPT !.asked = TRUE] \in Call
           /\ [r EXCEPT !.told = TRUE] \in Call
           /\ [r EXCEPT !.received = TRUE] \in Call
           /\ \A status \in Statuses :
                 /\ [r EXCEPT !.status = status] \in Call
                 /\ [r EXCEPT !.status = status, !.asked = TRUE] \in Call
           /\ \A out \in {"output", "activity"} :
                 /\ [r EXCEPT !.out = out] \in Call
                 /\ [r EXCEPT !.status = "failed", !.out = out] \in Call
           /\ \A b \in Boots : [r EXCEPT !.status = "delivered", !.boot = b] \in Call
           /\ \A result \in {"done", "stopped"} : [r EXCEPT !.result = result] \in Call
  BY DEF Call, Statuses, Pending, Settled

LEMMA ResultType ==
    ASSUME NEW r \in Call, NEW result \in {"done", "stopped"},
           NEW status \in Statuses, NEW out \in {"output", "activity"}
    PROVE  [r EXCEPT !.result = result, !.status = status,
                     !.received = TRUE, !.out = out] \in Call
  BY DEF Call, Statuses, Pending, Settled

LEMMA InitType == Init => TypeOK
  <1> SUFFICES ASSUME Init PROVE TypeOK
    OBVIOUS
  <1>1. 0 \in Boots /\ 1 \in Boots
    BY WorkerCallsAssumption DEF Boots
  <1>2. Process(1) \in Device
    BY <1>1, ProcessType
  <1>3. NoCall \in Call
    BY <1>1 DEF NoCall, Call
  <1> QED BY <1>1, <1>2, <1>3 DEF Init, TypeOK

\* Registration settles calls and answers them, and keeps all types.
LEMMA RegisterType ==
    ASSUME TypeOK, NEW b \in Boots, NEW stream \in {"open", "dead"}, Register(b, stream)
    PROVE  /\ call' \in [Calls -> Call] /\ writes' \in [Calls -> Nat]
           /\ boot' \in Boots /\ streams' \subseteq {"open", "dead"}
  <1>1. \A c \in Calls : [call[c] EXCEPT !.status = "failed", !.out = AnswerKind(c)] \in Call
    BY RowTypes, AnswerKindType DEF TypeOK
  <1>2. call' \in [Calls -> Call]
    BY <1>1 DEF Register, TypeOK
  <1>3. writes' \in [Calls -> Nat]
    <2>1. writes \in [Calls -> Nat]
      BY DEF TypeOK
    <2>2. writes' = [c \in Calls |-> IF c \in Lost(b) THEN writes[c] + 1 ELSE writes[c]]
      BY Zenon DEF Register
    <2> QED BY <2>1, <2>2
  <1> QED BY <1>2, <1>3 DEF Register, TypeOK

\* The ends of a sequence.
LEMMA SequenceEnds ==
    ASSUME NEW S, NEW q \in Seq(S)
    PROVE  /\ <<>> \in Seq(S)
           /\ \A x \in S : Append(q, x) \in Seq(S)
           /\ q # <<>> => Head(q) \in S /\ Tail(q) \in Seq(S)
  OBVIOUS

LEMMA FrameType ==
    ASSUME TypeOK, NEW s, NEW c \in Calls, NEW event \in {"tool_call", "cancel"},
           Emit(s, event, c)
    PROVE  frames' \in Seq(Frame)
  <1>1. [event |-> event, call |-> c] \in Frame
    BY DEF Frame
  <1>2. frames \in Seq(Frame)
    BY DEF TypeOK
  <1>3. Append(frames, [event |-> event, call |-> c]) \in Seq(Frame)
    BY <1>1, <1>2, SequenceEnds
  <1> QED BY <1>2, <1>3 DEF Emit

\* The device keeps its type, whatever it hears.
LEMMA DeviceTypes ==
    ASSUME TypeOK, NEW c \in Calls
    PROVE  /\ [device EXCEPT !.seen = @ \cup {c}, !.running = @ \cup {c}] \in Device
           /\ [device EXCEPT !.seen = @ \cup {c}] \in Device
           /\ [device EXCEPT !.running = @ \ {c}, !.heard = @ \cup {c}] \in Device
           /\ [device EXCEPT !.heard = @ \cup {c}] \in Device
           /\ [device EXCEPT !.running = @ \ {c}] \in Device
           /\ \A kind \in {"receipt", "done", "stopped"} : Report(kind, c) \in Post
  BY DEF TypeOK, Device, Report, Post

\* The event at the head of the stream is about a call, and what follows it is
\* a sequence of events.
LEMMA HeadType ==
    ASSUME TypeOK, frames # <<>>
    PROVE  Head(frames) \in Frame /\ Head(frames).call \in Calls
           /\ Tail(frames) \in Seq(Frame)
  <1>1. Head(frames) \in Frame /\ Tail(frames) \in Seq(Frame)
    BY SequenceEnds DEF TypeOK
  <1> QED BY <1>1 DEF Frame

\* What a result does to a call that has no answer, and to one that has.
ResultStatus(c, report) ==
    IF call[c].status \notin Pending THEN call[c].status
    ELSE IF report = "done" THEN "completed" ELSE "failed"

LEMMA ResultEffect ==
    ASSUME NEW p, Result(p)
    PROVE  /\ call[p.call].out # "none" =>
                 /\ call' = [call EXCEPT ![p.call] = [call[p.call] EXCEPT !.result = p.report]]
                 /\ writes' = writes
           /\ call[p.call].out = "none" =>
                 /\ call' = [call EXCEPT ![p.call] =
                       [call[p.call] EXCEPT !.result = p.report,
                                            !.status = ResultStatus(p.call, p.report),
                                            !.received = TRUE,
                                            !.out = AnswerKind(p.call)]]
                 /\ writes' = [writes EXCEPT ![p.call] = @ + 1]
  <1>1. CASE call[p.call].out # "none"
    BY <1>1, Zenon DEF Result
  <1>2. CASE call[p.call].out = "none"
    <2>1. writes' = [writes EXCEPT ![p.call] = @ + 1]
      BY <1>2, Zenon DEF Result
    <2>2. call' = [call EXCEPT ![p.call].result = p.report,
                               ![p.call].status = ResultStatus(p.call, p.report),
                               ![p.call].received = TRUE,
                               ![p.call].out = AnswerKind(p.call)]
      BY <1>2, Zenon DEF Result, ResultStatus
    <2> QED BY <1>2, <2>1, <2>2
  <1> QED BY <1>1, <1>2

LEMMA StepType == TypeOK /\ [Next]_vars => TypeOK'
  <1> SUFFICES ASSUME TypeOK, [Next]_vars PROVE TypeOK'
    OBVIOUS
  <1> USE DEF TypeOK, ledger, wire, outside
  <1>1. ASSUME NEW c \in Calls, Supersede(c) PROVE TypeOK'
    BY <1>1 DEF Supersede
  <1>2. ASSUME NEW c \in Calls, Stop(c) PROVE TypeOK'
    <2>1. [call[c] EXCEPT !.status = "cancelled"] \in Call
      BY RowTypes DEF Statuses
    <2> QED BY <1>2, <2>1 DEF Stop
  <1>3. ASSUME NEW c \in Calls, TurnDies(c) PROVE TypeOK'
    BY <1>3 DEF TurnDies, Fault
  <1>4. ASSUME NEW c \in Calls, TurnFails(c) PROVE TypeOK'
    BY <1>4 DEF TurnFails, Fault
  <1>5. ASSUME NEW c \in Calls, Enqueue(c) PROVE TypeOK'
    <2>1. [call[c] EXCEPT !.status = "queued"] \in Call
      BY RowTypes DEF Statuses
    <2> QED BY <1>5, <2>1 DEF Enqueue
  <1>6. ASSUME NEW c \in Calls, Observe(c) PROVE TypeOK'
    BY <1>6 DEF Observe
  <1>7. ASSUME NEW c \in Calls, AskCancel(c) PROVE TypeOK'
    <2>1. [call[c] EXCEPT !.asked = TRUE] \in Call
      BY RowTypes
    <2> QED BY <1>7, <2>1 DEF AskCancel
  <1>8. ASSUME NEW c \in Calls, GiveUp(c) PROVE TypeOK'
    <2>1. [call[c] EXCEPT !.status = "failed"] \in Call
      BY RowTypes DEF Statuses
    <2> QED BY <1>8, <2>1 DEF GiveUp
  <1>9. ASSUME NEW c \in Calls, CancelCall(c) PROVE TypeOK'
    <2>1. [call[c] EXCEPT !.status = "cancelled", !.asked = TRUE] \in Call
      BY RowTypes DEF Statuses
    <2>2. call' = call \/ call' = [call EXCEPT ![c] =
                             [call[c] EXCEPT !.status = "cancelled", !.asked = TRUE]]
      BY <1>9 DEF CancelCall
    <2> QED BY <1>9, <2>1, <2>2 DEF CancelCall
  <1>10. ASSUME NEW c \in Calls, Answer(c) PROVE TypeOK'
    <2>1. [call[c] EXCEPT !.out = AnswerKind(c)] \in Call
      BY RowTypes, AnswerKindType
    <2>2. writes' \in [Calls -> Nat] /\ call' \in [Calls -> Call]
      <3>1. CASE call[c].out = "none"
        <4>1. /\ call' = [call EXCEPT ![c] = [call[c] EXCEPT !.out = AnswerKind(c)]]
              /\ writes' = [writes EXCEPT ![c] = @ + 1]
          BY <1>10, <3>1, Zenon DEF Answer
        <4> QED BY <2>1, <4>1
      <3>2. CASE call[c].out # "none"
        <4>1. call' = call /\ writes' = writes
          BY <1>10, <3>2, Zenon DEF Answer
        <4> QED BY <4>1
      <3> QED BY <3>1, <3>2
    <2> QED BY <1>10, <2>2 DEF Answer
  <1>11. CASE Connect
    <2>1. Register(device.proc, "open") /\ frames' = <<>> /\ faults' = faults
      BY <1>11 DEF Connect
    <2>2. device.proc \in Boots
      BY DEF Device
    <2>3. /\ call' \in [Calls -> Call] /\ writes' \in [Calls -> Nat]
          /\ boot' \in Boots /\ streams' \subseteq {"open", "dead"}
      BY <2>1, <2>2, RegisterType
    <2> QED BY <2>1, <2>3, SequenceEnds DEF Register
  <1>12. CASE ObsoleteConnect
    <2>1. PICK b \in 1..device.proc : Register(b, "dead")
      BY <1>12 DEF ObsoleteConnect
    <2>2. b \in Boots
      BY WorkerCallsAssumption DEF Device, Boots
    <2>3. /\ call' \in [Calls -> Call] /\ writes' \in [Calls -> Nat]
          /\ boot' \in Boots /\ streams' \subseteq {"open", "dead"}
      BY <2>1, <2>2, RegisterType
    <2>4. faults' = faults + 1 /\ frames' = frames
      BY <1>12 DEF ObsoleteConnect, Fault
    <2>5. UNCHANGED <<request, turn, device, posts, runs>>
      BY <2>1, Zenon DEF Register
    <2> QED BY <2>3, <2>4, <2>5
  <1>13. CASE Drop
    <2>1. streams' \subseteq {"open", "dead"}
      BY <1>13 DEF Drop
    <2> QED BY <1>13, <2>1, SequenceEnds DEF Drop
  <1>14. CASE DeadEnds
    BY <1>14 DEF DeadEnds
  <1>15. ASSUME NEW s \in streams, CancelNotice(s) PROVE TypeOK'
    <2>1. PICK c \in Notices : call' = [call EXCEPT ![c].told = TRUE] /\ Emit(s, "cancel", c)
      BY <1>15 DEF CancelNotice
    <2>2. c \in Calls
      BY DEF Notices
    <2>3. frames' \in Seq(Frame)
      BY <2>1, <2>2, FrameType
    <2>4. [call[c] EXCEPT !.told = TRUE] \in Call
      BY <2>2, RowTypes
    <2> QED BY <1>15, <2>1, <2>2, <2>3, <2>4 DEF CancelNotice
  <1>16. ASSUME NEW s \in streams, Claim(s) PROVE TypeOK'
    <2>1. PICK c \in Calls, before \in SUBSET Refused :
             /\ call' = [d \in Calls |->
                   IF d = c THEN [call[d] EXCEPT !.status = "delivered", !.boot = boot]
                   ELSE IF d \in before THEN [call[d] EXCEPT !.status = "cancelled"]
                   ELSE call[d]]
             /\ Emit(s, "tool_call", c)
      BY <1>16 DEF Claim
    <2>2. frames' \in Seq(Frame)
      BY <2>1, FrameType
    <2>3. \A d \in Calls : /\ [call[d] EXCEPT !.status = "delivered", !.boot = boot] \in Call
                           /\ [call[d] EXCEPT !.status = "cancelled"] \in Call
      BY RowTypes DEF Statuses
    <2> QED BY <1>16, <2>1, <2>2, <2>3 DEF Claim
  <1>17. ASSUME NEW s \in streams, ClaimNothing(s) PROVE TypeOK'
    <2>1. \A d \in Calls : [call[d] EXCEPT !.status = "cancelled"] \in Call
      BY RowTypes DEF Statuses
    <2> QED BY <1>17, <2>1 DEF ClaimNothing
  <1>18. ASSUME NEW s \in streams, NEW c \in Calls, Replay(s, c) PROVE TypeOK'
    <2>1. [call[c] EXCEPT !.status = "cancelled"] \in Call
      BY RowTypes DEF Statuses
    <2>2. frames' \in Seq(Frame)
      BY <1>18, FrameType DEF Replay
    <2> QED BY <1>18, <2>1, <2>2 DEF Replay
  <1>19. CASE Sweep
    <2>1. \A d \in Calls : [call[d] EXCEPT !.status = "cancelled"] \in Call
      BY RowTypes DEF Statuses
    <2> QED BY <1>19, <2>1 DEF Sweep
  <1>20. ASSUME NEW p \in posts, Receipt(p) PROVE TypeOK'
    <2>1. p.call \in Calls
      BY DEF Post
    <2>2. [call[p.call] EXCEPT !.received = TRUE] \in Call
      BY <2>1, RowTypes
    <2> QED BY <1>20, <2>1, <2>2 DEF Receipt
  <1>21. ASSUME NEW p \in posts, Result(p) PROVE TypeOK'
    <2> DEFINE c == p.call
    <2>1. c \in Calls /\ p.report \in {"done", "stopped"}
      BY <1>21 DEF Post, Result
    <2>2. ResultStatus(c, p.report) \in Statuses
      BY <2>1, RowTypes DEF Statuses, ResultStatus
    <2>3. [call[c] EXCEPT !.result = p.report] \in Call
      BY <2>1, RowTypes
    <2>4. [call[c] EXCEPT !.result = p.report, !.status = ResultStatus(c, p.report),
                          !.received = TRUE, !.out = AnswerKind(c)] \in Call
      BY <2>1, <2>2, ResultType, AnswerKindType
    <2>5. call' \in [Calls -> Call] /\ writes' \in [Calls -> Nat]
      <3>1. CASE call[c].out # "none"
        <4>1. call' = [call EXCEPT ![c] = [call[c] EXCEPT !.result = p.report]]
              /\ writes' = writes
          BY <1>21, <3>1, ResultEffect
        <4> QED BY <2>1, <2>3, <4>1
      <3>2. CASE call[c].out = "none"
        <4> DEFINE row == [call[c] EXCEPT !.result = p.report,
                                          !.status = ResultStatus(c, p.report),
                                          !.received = TRUE, !.out = AnswerKind(c)]
        <4>1. call' = [call EXCEPT ![c] = row] /\ writes' = [writes EXCEPT ![c] = @ + 1]
          BY <1>21, <3>2, ResultEffect
        <4>2. row \in Call
          BY <2>4
        <4> HIDE DEF row
        <4> QED BY <2>1, <4>1, <4>2
      <3> QED BY <3>1, <3>2
    <2> QED BY <1>21, <2>5 DEF Result
  <1>22. CASE TakeCall
    <2> DEFINE c == Head(frames).call
    <2>1. c \in Calls /\ Tail(frames) \in Seq(Frame)
      BY <1>22, HeadType DEF TakeCall
    <2>2. /\ [device EXCEPT !.seen = @ \cup {c}, !.running = @ \cup {c}] \in Device
          /\ [device EXCEPT !.seen = @ \cup {c}] \in Device
          /\ Report("receipt", c) \in Post /\ Report("stopped", c) \in Post
      BY <2>1, DeviceTypes
    <2>3. device' \in Device
      <3>1. \/ device' = device
            \/ device' = [device EXCEPT !.seen = @ \cup {c}, !.running = @ \cup {c}]
            \/ device' = [device EXCEPT !.seen = @ \cup {c}]
        BY <1>22, Zenon DEF TakeCall
      <3> QED BY <2>2, <3>1
    <2>4. posts' \subseteq Post
      <3>1. \/ posts' = posts \cup {Report("receipt", c)}
            \/ posts' = posts \cup {Report("receipt", c), Report("stopped", c)}
        BY <1>22, Zenon DEF TakeCall
      <3> QED BY <2>2, <3>1
    <2>5. runs' \in [Calls -> Nat]
      <3>1. runs' = runs \/ runs' = [runs EXCEPT ![c] = @ + 1]
        BY <1>22, Zenon DEF TakeCall
      <3>2. runs \in [Calls -> Nat] /\ c \in Calls
        BY <2>1
      <3> HIDE DEF c, TypeOK
      <3>3. CASE runs' = [runs EXCEPT ![c] = @ + 1]
        BY <3>2, <3>3
      <3> QED BY <3>1, <3>2, <3>3
    <2> QED BY <1>22, <2>1, <2>3, <2>4, <2>5 DEF TakeCall
  <1>23. CASE TakeCancel
    <2> DEFINE c == Head(frames).call
    <2>1. c \in Calls /\ Tail(frames) \in Seq(Frame)
      BY <1>23, HeadType DEF TakeCancel
    <2>2. /\ [device EXCEPT !.running = @ \ {c}, !.heard = @ \cup {c}] \in Device
          /\ [device EXCEPT !.heard = @ \cup {c}] \in Device
          /\ Report("stopped", c) \in Post
      BY <2>1, DeviceTypes
    <2>3. device' \in Device
      BY <1>23, <2>2, Zenon DEF TakeCancel
    <2>4. posts' \subseteq Post
      <3>1. posts' = posts \cup {Report("stopped", c)} \/ posts' = posts
        BY <1>23, Zenon DEF TakeCancel
      <3> QED BY <2>2, <3>1
    <2>5. /\ frames' = Tail(frames)
          /\ UNCHANGED <<ledger, request, turn, boot, streams, runs, faults>>
      BY <1>23, Zenon DEF TakeCancel
    <2> QED BY <2>1, <2>3, <2>4, <2>5
  <1>24. ASSUME NEW c \in Calls, Finish(c) PROVE TypeOK'
    BY <1>24, DeviceTypes DEF Finish
  <1>25. CASE Restart
    <2>1. device.proc + 1 \in Boots
      BY <1>25, WorkerCallsAssumption DEF Restart, Device, Boots
    <2>2. device' \in Device
      BY <1>25, <2>1, ProcessType DEF Restart
    <2>3. streams' \subseteq {"open", "dead"}
      BY <1>25 DEF Restart
    <2> QED BY <1>25, <2>2, <2>3, SequenceEnds DEF Restart
  <1>26. CASE UNCHANGED vars
    BY <1>26 DEF vars
  <1> QED
    BY <1>1, <1>2, <1>3, <1>4, <1>5, <1>6, <1>7, <1>8, <1>9, <1>10, <1>11, <1>12, <1>13,
       <1>14, <1>15, <1>16, <1>17, <1>18, <1>19, <1>20, <1>21, <1>22, <1>23, <1>24, <1>25,
       <1>26 DEF Next, Turn, Stream

\* Every variable keeps its type.
THEOREM CallTypes == Spec => []TypeOK
  BY InitType, StepType, PTL DEF Spec

-----------------------------------------------------------------------------
(* What one step may do to one call.                                       *)

\* Only flags of the row change, if anything.
Kept(d) ==
    /\ call'[d].status = call[d].status /\ call'[d].boot = call[d].boot
    /\ call'[d].out = call[d].out /\ writes'[d] = writes[d]

\* The turn puts the call into the ledger.
Queued(d) ==
    /\ call[d].status = "none" /\ call'[d].status = "queued"
    /\ request[d] = "current"
    /\ call'[d].boot = call[d].boot /\ call'[d].out = call[d].out /\ writes'[d] = writes[d]

\* A stream takes it to the registered process.
Dispatched(d) ==
    /\ call[d].status = "queued" /\ call'[d].status = "delivered"
    /\ request[d] = "current"
    /\ call'[d].boot = boot /\ boot # 0
    /\ call'[d].out = call[d].out /\ writes'[d] = writes[d]

\* It is settled without an answer; cancelled only if its request is over.
SettledOnly(d) ==
    /\ call[d].status \in Pending /\ call'[d].status \in Settled
    /\ call'[d].status = "cancelled" => request'[d] # "current"
    /\ call'[d].boot = call[d].boot /\ call'[d].out = call[d].out /\ writes'[d] = writes[d]

\* It is answered, settled before or by the same step.
AnsweredNow(d) ==
    /\ call[d].out = "none" /\ call'[d].out = AnswerKind(d)
    /\ writes'[d] = writes[d] + 1
    /\ call'[d].boot = call[d].boot
    /\ \/ call[d].status \in Settled /\ call'[d].status = call[d].status
       \/ call[d].status \in Pending /\ call'[d].status \in {"completed", "failed"}

RowStep(d) == Kept(d) \/ Queued(d) \/ Dispatched(d) \/ SettledOnly(d) \/ AnsweredNow(d)

\* A step of the ledger, whatever the boot and the turns do meanwhile.
LedgerStep ==
    \A d \in Calls :
        /\ RowStep(d)
        /\ boot' = boot \/ (call'[d].status = "delivered" => call'[d].boot = boot')
        /\ turn'[d] = "answer" => turn[d] = "answer" \/ call'[d].status \in Settled

\* Steps that touch no row, and steps that touch one.
LEMMA NoRow ==
    ASSUME call' = call, writes' = writes
    PROVE  \A d \in Calls : RowStep(d)
  BY DEF RowStep, Kept

LEMMA OneRow ==
    ASSUME TypeOK, NEW c \in Calls, NEW r, call' = [call EXCEPT ![c] = r], writes' = writes,
           RowStep(c)
    PROVE  \A d \in Calls : RowStep(d)
  <1> SUFFICES ASSUME NEW d \in Calls, d # c PROVE RowStep(d)
    OBVIOUS
  <1>1. call'[d] = call[d] /\ writes'[d] = writes[d]
    BY DEF TypeOK
  <1> QED BY <1>1 DEF RowStep, Kept

LEMMA LedgerSteps ==
    ASSUME LedgerInv, Next
    PROVE  LedgerStep
  <1> USE DEF ledger, wire, outside
  <1>0. TypeOK /\ \A c \in Calls : CallInv(c)
    BY DEF LedgerInv
  <1>t. /\ call \in [Calls -> Call] /\ turn \in [Calls -> {"off", "wait", "answer"}]
        /\ writes \in [Calls -> Nat] /\ request \in [Calls -> {"current", "failed", "superseded"}]
    BY <1>0 DEF TypeOK
  <1>r. \A c \in Calls : call[c] \in Call
    BY <1>t
  <1>s. /\ Pending = {"queued", "delivered"}
        /\ Settled = {"completed", "failed", "cancelled"}
    BY DEF Pending, Settled
  \* Requests and turns.
  <1>1. ASSUME NEW c \in Calls, Supersede(c) \/ TurnDies(c) \/ TurnFails(c) PROVE LedgerStep
    <2>1. call' = call /\ writes' = writes /\ boot' = boot
      BY <1>1 DEF Supersede, TurnDies, TurnFails
    <2>2. \A d \in Calls : turn'[d] = turn[d] \/ turn'[d] = "off"
      BY <1>1, <1>t DEF Supersede, TurnDies, TurnFails
    <2> QED BY <2>1, <2>2, NoRow DEF LedgerStep
  <1>2. ASSUME NEW c \in Calls, Stop(c) PROVE LedgerStep
    <2>1. writes' = writes /\ boot' = boot /\ turn' = turn
      BY <1>2 DEF Stop
    <2>2. CASE call' = call
      BY <2>1, <2>2, NoRow DEF LedgerStep
    <2>3. CASE call[c].status \in Pending
      <3>1. call' = [call EXCEPT ![c] = [call[c] EXCEPT !.status = "cancelled"]]
            /\ request'[c] = "superseded"
        BY <1>2, <1>t, <2>3 DEF Stop
      <3>2. SettledOnly(c)
        BY <1>r, <1>t, <1>s, <2>1, <2>3, <3>1 DEF SettledOnly, Call
      <3> QED BY <1>0, <2>1, <3>1, <3>2, OneRow DEF LedgerStep, RowStep
    <2> QED BY <1>2, <2>2, <2>3 DEF Stop
  <1>3. ASSUME NEW c \in Calls, Enqueue(c) PROVE LedgerStep
    <2>1. writes' = writes /\ boot' = boot /\ turn' = [turn EXCEPT ![c] = "wait"]
          /\ request[c] = "current"
      BY <1>3 DEF Enqueue
    <2>2. \A d \in Calls : turn'[d] = turn[d] \/ turn'[d] = "wait"
      BY <1>t, <2>1
    <2>3. CASE call' = call
      BY <2>1, <2>2, <2>3, NoRow DEF LedgerStep
    <2>4. CASE call[c].status = "none"
      <3>1. call' = [call EXCEPT ![c] = [call[c] EXCEPT !.status = "queued"]]
        BY <1>3, <2>4 DEF Enqueue
      <3>2. Queued(c)
        BY <1>r, <1>t, <2>1, <2>4, <3>1 DEF Queued, Call
      <3> QED BY <1>0, <2>1, <2>2, <3>1, <3>2, OneRow DEF LedgerStep, RowStep
    <2> QED BY <1>3, <2>3, <2>4 DEF Enqueue
  <1>4. ASSUME NEW c \in Calls, Observe(c) PROVE LedgerStep
    <2>1. call' = call /\ writes' = writes /\ boot' = boot
      BY <1>4 DEF Observe
    <2>2. \A d \in Calls : turn'[d] = turn[d] \/ turn'[d] = "off" \/ call[d].status \in Settled
      BY <1>4, <1>t DEF Observe
    <2> QED BY <2>1, <2>2, NoRow DEF LedgerStep
  <1>5. ASSUME NEW c \in Calls, AskCancel(c) PROVE LedgerStep
    <2>1. writes' = writes /\ boot' = boot /\ turn' = turn
          /\ call' = [call EXCEPT ![c] = [call[c] EXCEPT !.asked = TRUE]]
      BY <1>5 DEF AskCancel
    <2>2. Kept(c)
      BY <1>r, <1>t, <2>1 DEF Kept, Call
    <2> QED BY <1>0, <2>1, <2>2, OneRow DEF LedgerStep, RowStep
  <1>6. ASSUME NEW c \in Calls, GiveUp(c) PROVE LedgerStep
    <2>1. writes' = writes /\ boot' = boot /\ turn' = [turn EXCEPT ![c] = "answer"]
          /\ call' = [call EXCEPT ![c] = [call[c] EXCEPT !.status = "failed"]]
      BY <1>6 DEF GiveUp
    <2>2. SettledOnly(c)
      BY <1>6, <1>r, <1>t, <1>s, <2>1 DEF SettledOnly, Call, GiveUp
    <2>3. \A d \in Calls : turn'[d] = turn[d] \/ call'[d].status \in Settled
      BY <1>t, <1>r, <1>s, <2>1 DEF Call
    <2> QED BY <1>0, <2>1, <2>2, <2>3, OneRow DEF LedgerStep, RowStep
  <1>7. ASSUME NEW c \in Calls, CancelCall(c) PROVE LedgerStep
    <2>1. writes' = writes /\ boot' = boot /\ turn' = [turn EXCEPT ![c] = "off"]
          /\ request' = request /\ request[c] = "superseded"
      BY <1>7 DEF CancelCall, Stale
    <2>2. \A d \in Calls : turn'[d] = turn[d] \/ turn'[d] = "off"
      BY <1>t, <2>1
    <2>3. CASE call' = call
      BY <2>1, <2>2, <2>3, NoRow DEF LedgerStep
    <2>4. CASE call[c].status \in Pending
      <3>1. call' = [call EXCEPT ![c] =
                        [call[c] EXCEPT !.status = "cancelled", !.asked = TRUE]]
        BY <1>7, <2>4 DEF CancelCall
      <3>2. SettledOnly(c)
        BY <1>r, <1>t, <1>s, <2>1, <2>4, <3>1 DEF SettledOnly, Call
      <3> QED BY <1>0, <2>1, <2>2, <3>1, <3>2, OneRow DEF LedgerStep, RowStep
    <2> QED BY <1>7, <2>3, <2>4 DEF CancelCall
  <1>8. ASSUME NEW c \in Calls, Answer(c) PROVE LedgerStep
    <2>1. boot' = boot /\ turn[c] = "answer"
          /\ turn' = [turn EXCEPT ![c] = "off"]
      BY <1>8 DEF Answer
    <2>2. \A d \in Calls : turn'[d] = turn[d] \/ turn'[d] = "off"
      BY <1>t, <2>1
    <2>3. CASE call[c].out # "none"
      <3>1. call' = call /\ writes' = writes
        BY <1>8, <2>3, Zenon DEF Answer
      <3> QED BY <2>1, <2>2, <3>1, NoRow DEF LedgerStep
    <2>4. CASE call[c].out = "none"
      <3>1. /\ call' = [call EXCEPT ![c] = [call[c] EXCEPT !.out = AnswerKind(c)]]
            /\ writes' = [writes EXCEPT ![c] = @ + 1]
        BY <1>8, <2>4, Zenon DEF Answer
      <3>2. call[c].status \in Settled
        BY <1>0, <2>1 DEF CallInv
      <3>3. AnsweredNow(c)
        BY <1>r, <1>t, <1>s, <2>4, <3>1, <3>2 DEF AnsweredNow, Call
      <3>4. \A d \in Calls \ {c} : call'[d] = call[d] /\ writes'[d] = writes[d]
        BY <1>t, <3>1
      <3>5. \A d \in Calls : RowStep(d)
        BY <3>3, <3>4 DEF RowStep, Kept
      <3> QED BY <2>1, <2>2, <3>5 DEF LedgerStep
    <2> QED BY <2>3, <2>4
  \* Streams.
  <1>9. ASSUME NEW b \in Boots, NEW stream, Register(b, stream) PROVE LedgerStep
    <2>1. boot' = b /\ turn' = turn
      BY <1>9 DEF Register
    <2>2. ASSUME NEW d \in Calls
          PROVE  RowStep(d) /\ (call'[d].status = "delivered" => call'[d].boot = b)
      <3>1. CASE d \in Lost(b)
        <4>1. call'[d] = [call[d] EXCEPT !.status = "failed", !.out = AnswerKind(d)]
              /\ writes'[d] = writes[d] + 1
          BY <1>9, <3>1 DEF Register
        <4>2. call[d].status = "delivered" /\ call[d].out = "none"
          BY <1>0, <1>s, <3>1 DEF Lost, CallInv
        <4>3. AnsweredNow(d)
          BY <1>r, <1>s, <4>1, <4>2 DEF AnsweredNow, Call
        <4> QED BY <1>r, <4>1, <4>3 DEF RowStep, Call
      <3>2. CASE d \notin Lost(b)
        <4>1. call'[d] = call[d] /\ writes'[d] = writes[d]
          BY <1>9, <3>2 DEF Register
        <4> QED BY <3>2, <4>1 DEF RowStep, Kept, Lost
      <3> QED BY <3>1, <3>2
    <2> QED BY <2>1, <2>2 DEF LedgerStep
  <1>10. CASE Connect
    BY <1>0, <1>9, <1>10 DEF Connect, TypeOK, Device
  <1>11. CASE ObsoleteConnect
    <2>1. PICK b \in 1..device.proc : Register(b, "dead")
      BY <1>11 DEF ObsoleteConnect
    <2>2. b \in Boots
      BY <1>0, WorkerCallsAssumption DEF TypeOK, Device, Boots
    <2> QED BY <1>9, <2>1, <2>2
  <1>12. CASE Drop \/ DeadEnds
    <2>1. call' = call /\ writes' = writes /\ boot' = boot /\ turn' = turn
      BY <1>12 DEF Drop, DeadEnds
    <2> QED BY <2>1, NoRow DEF LedgerStep
  <1>13. ASSUME NEW s \in streams, CancelNotice(s) PROVE LedgerStep
    <2>1. writes' = writes /\ boot' = boot /\ turn' = turn
      BY <1>13 DEF CancelNotice
    <2>2. PICK c \in Notices : call' = [call EXCEPT ![c] = [call[c] EXCEPT !.told = TRUE]]
      BY <1>13 DEF CancelNotice
    <2>3. c \in Calls
      BY DEF Notices
    <2>4. Kept(c)
      BY <1>r, <1>t, <2>1, <2>2, <2>3 DEF Kept, Call
    <2> QED BY <1>0, <2>1, <2>2, <2>3, <2>4, OneRow DEF LedgerStep, RowStep
  <1>14. ASSUME NEW s \in streams, Claim(s) PROVE LedgerStep
    <2>1. writes' = writes /\ boot' = boot /\ turn' = turn /\ request' = request
      BY <1>14 DEF Claim
    <2>2. PICK c \in Calls, before \in SUBSET Refused :
             /\ call[c].status = "queued" /\ Active(c)
             /\ call' = [d \in Calls |->
                   IF d = c THEN [call[d] EXCEPT !.status = "delivered", !.boot = boot]
                   ELSE IF d \in before THEN [call[d] EXCEPT !.status = "cancelled"]
                   ELSE call[d]]
      BY <1>14 DEF Claim
    <2>3. boot # 0
      BY <1>14 DEF LedgerInv, WireInv
    <2>4. Dispatched(c)
      <3>1. call'[c] = [call[c] EXCEPT !.status = "delivered", !.boot = boot]
        BY <2>2
      <3> QED BY <1>r, <2>1, <2>2, <2>3, <3>1 DEF Dispatched, Active, Call
    <2>5. ASSUME NEW d \in Calls, d # c PROVE RowStep(d)
      <3>1. CASE d \in before
        <4>1. call'[d] = [call[d] EXCEPT !.status = "cancelled"]
          BY <2>2, <2>5, <3>1
        <4>2. call[d].status = "queued" /\ request[d] # "current"
          BY <3>1 DEF Refused, Active
        <4>3. SettledOnly(d)
          BY <1>r, <1>s, <2>1, <4>1, <4>2 DEF SettledOnly, Call
        <4> QED BY <4>3 DEF RowStep
      <3>2. CASE d \notin before
        <4>1. call'[d] = call[d]
          BY <2>2, <2>5, <3>2
        <4> QED BY <2>1, <4>1 DEF RowStep, Kept
      <3> QED BY <3>1, <3>2
    <2> QED BY <2>1, <2>4, <2>5 DEF LedgerStep, RowStep
  <1>15. ASSUME NEW D \in SUBSET Calls, UNCHANGED <<writes, boot, turn, request>>,
                \A d \in D : call[d].status \in Pending /\ request[d] # "current",
                call' = [d \in Calls |-> IF d \in D THEN [call[d] EXCEPT !.status = "cancelled"]
                                         ELSE call[d]]
         PROVE  LedgerStep
    <2>1. ASSUME NEW d \in Calls PROVE RowStep(d)
      <3>1. CASE d \in D
        <4>1. call'[d] = [call[d] EXCEPT !.status = "cancelled"]
          BY <1>15, <3>1
        <4>2. SettledOnly(d)
          BY <1>r, <1>s, <1>15, <3>1, <4>1 DEF SettledOnly, Call
        <4> QED BY <4>2 DEF RowStep
      <3>2. CASE d \notin D
        <4>1. call'[d] = call[d]
          BY <1>15, <3>2
        <4> QED BY <1>15, <4>1 DEF RowStep, Kept
      <3> QED BY <3>1, <3>2
    <2> QED BY <1>15, <2>1 DEF LedgerStep
  <1>16. ASSUME NEW s \in streams, ClaimNothing(s) PROVE LedgerStep
    <2>1. Refused \in SUBSET Calls
          /\ \A d \in Refused : call[d].status \in Pending /\ request[d] # "current"
      BY <1>s DEF Refused, Active
    <2>2. UNCHANGED <<writes, boot, turn, request>>
      BY <1>16 DEF ClaimNothing
    <2>3. call' = [c \in Calls |-> IF c \in Refused
                       THEN [call[c] EXCEPT !.status = "cancelled"] ELSE call[c]]
      BY <1>16 DEF ClaimNothing
    <2> HIDE DEF Refused
    <2> QED BY <1>15, <2>1, <2>2, <2>3
  <1>17. ASSUME NEW s \in streams, NEW c \in Calls, Replay(s, c) PROVE LedgerStep
    <2>1. writes' = writes /\ boot' = boot /\ turn' = turn /\ request' = request
          /\ call[c].status = "delivered"
      BY <1>17 DEF Replay
    <2>2. CASE Active(c)
      <3>1. call' = call
        BY <1>17, <2>2 DEF Replay
      <3> QED BY <2>1, <3>1, NoRow DEF LedgerStep
    <2>3. CASE ~Active(c)
      <3>1. call' = [call EXCEPT ![c] = [call[c] EXCEPT !.status = "cancelled"]]
        BY <1>17, <2>3 DEF Replay
      <3>2. SettledOnly(c)
        BY <1>r, <1>t, <1>s, <2>1, <2>3, <3>1 DEF SettledOnly, Call, Active
      <3> QED BY <1>0, <2>1, <3>1, <3>2, OneRow DEF LedgerStep, RowStep
    <2> QED BY <2>2, <2>3
  <1>18. CASE Sweep
    <2> DEFINE D == {c \in Calls : ~Active(c) /\ (\/ call[c].status = "queued"
                                                  \/ /\ call[c].status = "delivered"
                                                     /\ ~call[c].received)}
    <2>1. D \in SUBSET Calls /\ \A d \in D : call[d].status \in Pending /\ request[d] # "current"
      BY <1>s DEF Active
    <2>2. UNCHANGED <<writes, boot, turn, request>>
      BY <1>18 DEF Sweep
    <2>3. call' = [c \in Calls |-> IF c \in D
                       THEN [call[c] EXCEPT !.status = "cancelled"] ELSE call[c]]
      BY <1>18 DEF Sweep
    <2> HIDE DEF D
    <2> QED BY <1>15, <2>1, <2>2, <2>3
  \* Reports.
  <1>19. ASSUME NEW p \in posts, Receipt(p) PROVE LedgerStep
    <2>1. p.call \in Calls
      BY <1>0 DEF TypeOK, Post
    <2>2. writes' = writes /\ boot' = boot /\ turn' = turn
          /\ call' = [call EXCEPT ![p.call] = [call[p.call] EXCEPT !.received = TRUE]]
      BY <1>19 DEF Receipt
    <2>3. Kept(p.call)
      BY <1>r, <1>t, <2>1, <2>2 DEF Kept, Call
    <2> QED BY <1>0, <2>1, <2>2, <2>3, OneRow DEF LedgerStep, RowStep
  <1>20. ASSUME NEW p \in posts, Result(p) PROVE LedgerStep
    <2> DEFINE c == p.call
    <2>1. c \in Calls
      BY <1>0 DEF TypeOK, Post
    <2>2. boot' = boot /\ turn' = turn /\ call[c].boot # 0
      BY <1>20 DEF Result
    <2>3. CASE call[c].out # "none"
      <3>1. call' = [call EXCEPT ![c] = [call[c] EXCEPT !.result = p.report]]
            /\ writes' = writes
        BY <1>20, <2>3, ResultEffect
      <3>2. Kept(c)
        BY <1>r, <1>t, <2>1, <3>1 DEF Kept, Call
      <3> QED BY <1>0, <2>1, <2>2, <3>1, <3>2, OneRow DEF LedgerStep, RowStep
    <2>4. CASE call[c].out = "none"
      <3>1. /\ call' = [call EXCEPT ![c] =
                  [call[c] EXCEPT !.result = p.report, !.status = ResultStatus(c, p.report),
                                  !.received = TRUE, !.out = AnswerKind(c)]]
            /\ writes' = [writes EXCEPT ![c] = @ + 1]
        BY <1>20, <2>4, ResultEffect
      <3>2. call[c].status \in Settled \cup Pending
        BY <1>0, <1>r, <1>s, <2>1, <2>2 DEF CallInv, Call
      <3>3. \/ call[c].status \in Settled /\ ResultStatus(c, p.report) = call[c].status
            \/ call[c].status \in Pending /\ ResultStatus(c, p.report) \in {"completed", "failed"}
        BY <1>s, <3>2 DEF ResultStatus
      <3>4. /\ call'[c] = [call[c] EXCEPT !.result = p.report,
                                          !.status = ResultStatus(c, p.report),
                                          !.received = TRUE, !.out = AnswerKind(c)]
            /\ writes'[c] = writes[c] + 1
        BY <1>t, <2>1, <3>1
      <3>5. AnsweredNow(c)
        BY <1>r, <2>1, <2>4, <3>3, <3>4 DEF AnsweredNow, Call
      <3>6. \A d \in Calls \ {c} : call'[d] = call[d] /\ writes'[d] = writes[d]
        BY <1>t, <3>1
      <3>7. \A d \in Calls : RowStep(d)
        BY <3>5, <3>6 DEF RowStep, Kept
      <3> QED BY <2>2, <3>7 DEF LedgerStep
    <2> QED BY <2>3, <2>4
  \* The device.
  <1>21. CASE TakeCall \/ TakeCancel \/ (\E c \in Calls : Finish(c)) \/ Restart
    <2>1. call' = call /\ writes' = writes /\ boot' = boot /\ turn' = turn
      BY <1>21, Zenon DEF TakeCall, TakeCancel, Finish, Restart
    <2> QED BY <2>1, NoRow DEF LedgerStep
  <1> QED
    BY <1>1, <1>2, <1>3, <1>4, <1>5, <1>6, <1>7, <1>8, <1>10, <1>11, <1>12, <1>13, <1>14,
       <1>16, <1>17, <1>18, <1>19, <1>20, <1>21 DEF Next, Turn, Stream

\* What a step does to the device: it stays the same process, which forgets
\* nothing, or the next one starts; what runs was dispatched to it and had not
\* run before.
DeviceStep ==
    /\ \/ device'.proc = device.proc /\ device.seen \subseteq device'.seen
       \/ device'.proc = device.proc + 1
    /\ \A d \in Calls :
          \/ runs'[d] = runs[d]
          \/ /\ runs[d] = 0 /\ runs'[d] = 1
             /\ call[d].boot = device.proc /\ device'.proc = device.proc
             /\ d \in device'.seen /\ call'[d] = call[d] /\ writes'[d] = writes[d]

LEMMA DeviceSteps ==
    ASSUME LedgerInv, Next
    PROVE  DeviceStep
  <1>0. TypeOK /\ WireInv /\ \A c \in Calls : CallInv(c)
    BY DEF LedgerInv
  <1>d. device \in [proc : Boots, seen : SUBSET Calls, running : SUBSET Calls,
                    heard : SUBSET Calls]
    BY <1>0 DEF TypeOK, Device
  <1>1. CASE device' = device /\ runs' = runs
    BY <1>1 DEF DeviceStep
  <1>2. CASE TakeCall
    <2> DEFINE c == Head(frames).call
    <2>1. c \in Calls /\ call' = call /\ writes' = writes
      BY <1>0, <1>2, HeadType DEF TakeCall, ledger
    <2>2. call[c].boot = device.proc
      <3>1. frames # <<>> /\ Head(frames).event = "tool_call" /\ frames \in Seq(Frame)
        BY <1>0, <1>2 DEF TakeCall, TypeOK
      <3>2. 1 \in DOMAIN frames /\ Head(frames) = frames[1]
        BY <3>1
      <3> QED BY <1>0, <3>1, <3>2 DEF WireInv
    <2>3. device'.proc = device.proc /\ device.seen \subseteq device'.seen
      <3>1. \/ device' = device
            \/ device' = [device EXCEPT !.seen = @ \cup {c}, !.running = @ \cup {c}]
            \/ device' = [device EXCEPT !.seen = @ \cup {c}]
        BY <1>2, Zenon DEF TakeCall
      <3> QED BY <1>d, <3>1
    <2>4. \/ runs' = runs
          \/ /\ c \notin device.seen /\ runs' = [runs EXCEPT ![c] = @ + 1]
             /\ device' = [device EXCEPT !.seen = @ \cup {c}, !.running = @ \cup {c}]
      BY <1>2, Zenon DEF TakeCall
    <2>5. CASE runs' = runs
      BY <2>3, <2>5 DEF DeviceStep
    <2>6. CASE /\ c \notin device.seen /\ runs' = [runs EXCEPT ![c] = @ + 1]
               /\ device' = [device EXCEPT !.seen = @ \cup {c}, !.running = @ \cup {c}]
      <3> HIDE DEF c
      <3>1. runs \in [Calls -> Nat]
        BY <1>0 DEF TypeOK
      <3>2. runs[c] = 0
        BY <1>0, <2>1, <2>2, <2>6 DEF CallInv
      <3>3. runs'[c] = 1 /\ \A d \in Calls \ {c} : runs'[d] = runs[d]
        BY <2>1, <2>6, <3>1, <3>2
      <3>4. c \in device'.seen
        BY <1>d, <2>1, <2>6
      <3> QED BY <2>1, <2>2, <2>3, <3>2, <3>3, <3>4 DEF DeviceStep
    <2> QED BY <2>4, <2>5, <2>6
  <1>3. CASE TakeCancel \/ \E c \in Calls : Finish(c)
    <2>1. runs' = runs /\ device'.proc = device.proc /\ device'.seen = device.seen
      BY <1>3, <1>d DEF TakeCancel, Finish
    <2> QED BY <2>1 DEF DeviceStep
  <1>4. CASE Restart
    BY <1>4 DEF Restart, Process, DeviceStep
  <1> QED
    BY <1>1, <1>2, <1>3, <1>4 DEF Next, Turn, Stream, outside, Supersede, Stop, TurnDies,
       TurnFails, Enqueue, Observe, AskCancel, GiveUp, CancelCall, Answer, Connect,
       ObsoleteConnect, Register, Drop, DeadEnds, Sweep, CancelNotice, Claim, ClaimNothing,
       Replay, Receipt, Result

-----------------------------------------------------------------------------
(* The invariant is inductive.                                             *)

LEMMA InitInv == Init => LedgerInv
  <1> SUFFICES ASSUME Init PROVE LedgerInv
    OBVIOUS
  <1>1. TypeOK
    BY InitType
  <1>2. WireInv
    BY WorkerCallsAssumption DEF Init, WireInv, Process
  <1>3. \A c \in Calls : CallInv(c)
    BY WorkerCallsAssumption DEF Init, CallInv, NoCall, Process
  <1> QED BY <1>1, <1>2, <1>3 DEF LedgerInv

\* A row's boot is set once.
LEMMA BootOnce ==
    ASSUME LedgerInv, LedgerStep, NEW d \in Calls
    PROVE  call[d].boot # 0 => call'[d].boot = call[d].boot
  <1>1. CallInv(d) /\ RowStep(d)
    BY DEF LedgerInv, LedgerStep
  <1> QED BY <1>1 DEF CallInv, RowStep, Kept, Queued, Dispatched, SettledOnly, AnsweredNow

LEMMA CallStep ==
    ASSUME LedgerInv, Next, NEW d \in Calls
    PROVE  CallInv(d)'
  <1>1. TypeOK /\ WireInv /\ CallInv(d)
    BY DEF LedgerInv
  <1>2. LedgerStep /\ DeviceStep /\ TypeOK'
    BY <1>1, LedgerSteps, DeviceSteps, StepType
  <1>3. RowStep(d)
    BY <1>2 DEF LedgerStep
  <1>4. /\ call[d].boot \in Nat /\ call'[d].boot \in Nat /\ call[d] \in Call /\ call'[d] \in Call
        /\ device.proc \in Nat /\ device'.proc \in Nat /\ boot \in Nat /\ boot' \in Nat
        /\ writes[d] \in Nat /\ runs[d] \in Nat
    BY <1>1, <1>2, WorkerCallsAssumption DEF TypeOK, Call, Boots, Device
  <1>5. AnswerKind(d) # "none"
    BY AnswerKindType
  <1> USE DEF Pending, Settled
  <1>6. /\ call'[d].status \in {"none", "queued"} => call'[d].boot = 0
        /\ call'[d].status = "delivered" => call'[d].boot # 0
    BY <1>1, <1>3 DEF CallInv, RowStep, Kept, Queued, Dispatched, SettledOnly, AnsweredNow
  <1>7. call'[d].status = "delivered" => call'[d].boot = boot'
    <2>1. CASE boot' = boot
      BY <1>1, <1>3, <2>1
         DEF CallInv, RowStep, Kept, Queued, Dispatched, SettledOnly, AnsweredNow
    <2>2. CASE boot' # boot
      BY <1>2, <2>2 DEF LedgerStep
    <2> QED BY <2>1, <2>2
  <1>8. call'[d].boot <= device'.proc
    <2>1. call'[d].boot = call[d].boot \/ call'[d].boot = boot
      BY <1>3 DEF RowStep, Kept, Queued, Dispatched, SettledOnly, AnsweredNow
    <2>2. call'[d].boot <= device.proc
      BY <1>1, <1>4, <2>1 DEF CallInv, WireInv
    <2>3. device.proc <= device'.proc
      BY <1>2, <1>4 DEF DeviceStep
    <2> QED BY <1>4, <2>2, <2>3
  <1>9. /\ call'[d].out # "none" => call'[d].status \in Settled
        /\ call[d].status \in Settled => call'[d].status \in Settled
    BY <1>1, <1>3 DEF CallInv, RowStep, Kept, Queued, Dispatched, SettledOnly, AnsweredNow
  <1>10. turn'[d] = "answer" => call'[d].status \in Settled
    BY <1>1, <1>2, <1>9 DEF CallInv, LedgerStep
  <1>11. writes'[d] = IF call'[d].out = "none" THEN 0 ELSE 1
    BY <1>1, <1>3, <1>4, <1>5
       DEF CallInv, RowStep, Kept, Queued, Dispatched, SettledOnly, AnsweredNow
  <1>12. /\ runs'[d] = 0 \/ runs'[d] = 1
         /\ runs'[d] = 1 => /\ call'[d].boot # 0
                            /\ call'[d].boot = device'.proc => d \in device'.seen
    <2>1. CASE runs'[d] = runs[d]
      <3>1. runs[d] = 1 => call'[d].boot = call[d].boot /\ call[d].boot # 0
        BY <1>1, <1>2, BootOnce DEF CallInv
      <3>2. CASE device'.proc = device.proc /\ device.seen \subseteq device'.seen
        BY <1>1, <2>1, <3>1, <3>2 DEF CallInv
      <3>3. CASE device'.proc = device.proc + 1
        <4>1. call[d].boot # device'.proc
          BY <1>1, <1>4, <3>3 DEF CallInv
        <4> QED BY <1>1, <2>1, <3>1, <4>1 DEF CallInv
      <3> QED BY <1>2, <3>2, <3>3 DEF DeviceStep
    <2>2. CASE runs'[d] # runs[d]
      <3>1. /\ runs'[d] = 1 /\ call[d].boot = device.proc /\ d \in device'.seen
        BY <1>2, <2>2 DEF DeviceStep
      <3>2. call[d].boot # 0
        BY <1>1, <3>1 DEF WireInv
      <3> QED BY <1>2, <3>1, <3>2, BootOnce
    <2> QED BY <2>1, <2>2
  <1> QED BY <1>6, <1>7, <1>8, <1>9, <1>10, <1>11, <1>12 DEF CallInv

\* A frame in flight keeps its promise as long as its process runs.
LEMMA FramesStay ==
    ASSUME LedgerInv, Next, NEW f \in Frame, device'.proc = device.proc,
           f.event = "tool_call" => call[f.call].boot = device.proc
    PROVE  f.event = "tool_call" => call'[f.call].boot = device'.proc
  <1>1. f.call \in Calls /\ device.proc # 0
    BY DEF Frame, LedgerInv, WireInv
  <1> QED BY <1>1, LedgerSteps, BootOnce

\* Taking and finishing calls is not a restart.
LEMMA SameProcess ==
    ASSUME TypeOK, TakeCall \/ TakeCancel \/ \E c \in Calls : Finish(c)
    PROVE  device'.proc = device.proc
  <1>1. device \in [proc : Boots, seen : SUBSET Calls, running : SUBSET Calls,
                    heard : SUBSET Calls]
    BY DEF TypeOK, Device
  <1>2. CASE TakeCall
    <2> DEFINE c == Head(frames).call
    <2>1. \/ device' = device
          \/ device' = [device EXCEPT !.seen = @ \cup {c}, !.running = @ \cup {c}]
          \/ device' = [device EXCEPT !.seen = @ \cup {c}]
      BY <1>2, Zenon DEF TakeCall
    <2> HIDE DEF c
    <2> QED BY <1>1, <2>1
  <1>3. CASE TakeCancel
    <2> DEFINE c == Head(frames).call
    <2>1. \/ device' = [device EXCEPT !.running = @ \ {c}, !.heard = @ \cup {c}]
          \/ device' = [device EXCEPT !.heard = @ \cup {c}]
      BY <1>3, Zenon DEF TakeCancel
    <2> HIDE DEF c
    <2> QED BY <1>1, <2>1
  <1>4. CASE \E c \in Calls : Finish(c)
    BY <1>1, <1>4 DEF Finish
  <1> QED BY <1>2, <1>3, <1>4

FramesInv ==
    \A i \in DOMAIN frames :
        frames[i].event = "tool_call" => call[frames[i].call].boot = device.proc

LEMMA FramesStep ==
    ASSUME LedgerInv, Next
    PROVE  FramesInv'
  <1>1. TypeOK /\ WireInv /\ FramesInv
    BY DEF LedgerInv, WireInv, FramesInv
  <1>q. frames \in Seq(Frame)
    BY <1>1 DEF TypeOK
  <1>2. CASE frames' = <<>>
    BY <1>2 DEF FramesInv
  <1>3. CASE frames' = frames /\ device'.proc = device.proc
    <2>1. \A i \in DOMAIN frames : frames[i] \in Frame
      BY <1>q
    <2> QED BY <1>1, <1>3, <2>1, FramesStay DEF FramesInv
  <1>4. CASE frames' = Tail(frames) /\ frames # <<>> /\ device'.proc = device.proc
    <2>1. \A i \in DOMAIN frames' : i + 1 \in DOMAIN frames /\ frames'[i] = frames[i + 1]
      BY <1>q, <1>4
    <2>2. \A i \in DOMAIN frames : frames[i] \in Frame
      BY <1>q
    <2> QED BY <1>1, <1>4, <2>1, <2>2, FramesStay DEF FramesInv
  <1>5. ASSUME NEW f \in Frame, frames' = Append(frames, f), device'.proc = device.proc,
               f.event = "tool_call" => call'[f.call].boot = device.proc
        PROVE  FramesInv'
    <2>1. \A i \in DOMAIN frames' : \/ i \in DOMAIN frames /\ frames'[i] = frames[i]
                                    \/ frames'[i] = f
      BY <1>q, <1>5
    <2>2. \A i \in DOMAIN frames : frames[i] \in Frame
      BY <1>q
    <2> QED BY <1>1, <1>5, <2>1, <2>2, FramesStay DEF FramesInv
  \* The steps that put a frame on the stream.
  <1>6. ASSUME NEW s \in streams, CancelNotice(s) PROVE FramesInv'
    <2>1. device' = device
      BY <1>6 DEF CancelNotice, outside
    <2>2. PICK c \in Notices : Emit(s, "cancel", c)
      BY <1>6 DEF CancelNotice
    <2>3. [event |-> "cancel", call |-> c] \in Frame
      BY <2>2 DEF Notices, Frame
    <2> QED BY <1>3, <1>5, <2>1, <2>2, <2>3 DEF Emit
  <1>7. ASSUME NEW s \in streams, Claim(s) PROVE FramesInv'
    <2>1. device' = device
      BY <1>7 DEF Claim, outside
    <2>2. PICK c \in Calls : /\ call'[c].boot = boot
                             /\ Emit(s, "tool_call", c)
      <3>1. PICK c \in Calls, before \in SUBSET Refused :
               /\ call' = [d \in Calls |->
                     IF d = c THEN [call[d] EXCEPT !.status = "delivered", !.boot = boot]
                     ELSE IF d \in before THEN [call[d] EXCEPT !.status = "cancelled"]
                     ELSE call[d]]
               /\ Emit(s, "tool_call", c)
        BY <1>7 DEF Claim
      <3>2. call'[c] = [call[c] EXCEPT !.status = "delivered", !.boot = boot]
        BY <3>1
      <3>3. call[c] \in Call
        BY <1>1 DEF TypeOK
      <3> QED BY <3>1, <3>2, <3>3 DEF Call
    <2>3. [event |-> "tool_call", call |-> c] \in Frame
      BY DEF Frame
    <2>4. CASE s = "open"
      <3>1. call'[c].boot = device.proc
        BY <1>1, <2>2, <2>4 DEF WireInv
      <3> QED BY <1>5, <2>1, <2>2, <2>3, <2>4, <3>1 DEF Emit
    <2>5. CASE s # "open"
      BY <1>3, <2>1, <2>2, <2>5 DEF Emit
    <2> QED BY <2>4, <2>5
  <1>8. ASSUME NEW s \in streams, NEW c \in Calls, Replay(s, c) PROVE FramesInv'
    <2>1. device' = device /\ call[c].boot = boot
      BY <1>8 DEF Replay, outside
    <2>2. CASE frames' = frames
      BY <1>3, <2>1, <2>2
    <2>3. CASE frames' # frames
      <3>1. call' = call /\ s = "open"
            /\ frames' = Append(frames, [event |-> "tool_call", call |-> c])
        BY <1>8, <2>3 DEF Replay, Emit
      <3>2. [event |-> "tool_call", call |-> c] \in Frame
        BY DEF Frame
      <3>3. call'[c].boot = device.proc
        BY <1>1, <2>1, <3>1 DEF WireInv
      <3> QED BY <1>5, <2>1, <3>1, <3>2, <3>3
    <2> QED BY <2>2, <2>3
  <1>9. CASE TakeCall \/ TakeCancel
    <2>1. frames # <<>> /\ frames' = Tail(frames)
      BY <1>9 DEF TakeCall, TakeCancel
    <2>2. device'.proc = device.proc
      BY <1>1, <1>9, SameProcess
    <2> QED BY <1>4, <2>1, <2>2
  <1>10. ASSUME NEW c \in Calls, Finish(c) PROVE FramesInv'
    <2>1. frames' = frames /\ device' = [device EXCEPT !.running = @ \ {c}]
      BY <1>10 DEF Finish, wire
    <2> QED BY <1>1, <1>3, <2>1 DEF TypeOK, Device
  <1>11. CASE Connect \/ Drop \/ Restart
    BY <1>2, <1>11 DEF Connect, Drop, Restart
  <1> QED
    BY <1>3, <1>6, <1>7, <1>8, <1>9, <1>10, <1>11 DEF Next, Turn, Stream, outside, wire,
       Supersede, Stop, TurnDies, TurnFails, Enqueue, Observe, AskCancel, GiveUp, CancelCall,
       Answer, ObsoleteConnect, Register, DeadEnds, Sweep, ClaimNothing, Receipt, Result

LEMMA WireStep ==
    ASSUME LedgerInv, Next
    PROVE  WireInv'
  <1>1. TypeOK /\ WireInv
    BY DEF LedgerInv
  <1>2. DeviceStep /\ FramesInv' /\ TypeOK'
    BY <1>1, DeviceSteps, FramesStep, StepType
  <1>3. device.proc \in Nat /\ device'.proc \in Nat /\ boot \in Nat /\ boot' \in Nat
    BY <1>1, <1>2, WorkerCallsAssumption DEF TypeOK, Device, Boots
  <1>4. device'.proc # 0 /\ device.proc <= device'.proc
    BY <1>1, <1>2, <1>3 DEF WireInv, DeviceStep
  <1>5. ASSUME boot' = boot, streams' \subseteq streams \cup {"dead"},
               streams' # {} => streams # {}, device'.proc = device.proc \/ "open" \notin streams'
        PROVE  WireInv'
    <2>1. boot' <= device'.proc
      BY <1>1, <1>3, <1>4, <1>5 DEF WireInv
    <2>2. (streams' # {} => boot' # 0) /\ ("open" \in streams' => boot' = device'.proc)
      BY <1>1, <1>5 DEF WireInv
    <2> QED BY <1>2, <1>4, <2>1, <2>2 DEF WireInv, FramesInv
  <1>6. CASE Connect
    <2>1. boot' = device.proc /\ device' = device
      BY <1>6 DEF Connect, Register, outside
    <2> QED BY <1>1, <1>2, <1>3, <1>4, <2>1 DEF WireInv, FramesInv
  <1>7. CASE ObsoleteConnect
    <2>1. PICK b \in 1..device.proc : b # device.proc /\ b # boot /\ Register(b, "dead")
      BY <1>7 DEF ObsoleteConnect
    <2>2. boot' = b /\ device' = device /\ streams' = {"dead"}
      BY <2>1 DEF Register, outside
    <2> QED BY <1>1, <1>2, <1>3, <1>4, <2>1, <2>2 DEF WireInv, FramesInv
  <1>8. CASE Drop
    BY <1>5, <1>8 DEF Drop, outside
  <1>9. CASE DeadEnds
    BY <1>5, <1>9 DEF DeadEnds, outside
  <1>10. CASE Restart
    BY <1>5, <1>10 DEF Restart
  <1>11. CASE boot' = boot /\ streams' = streams /\ device'.proc = device.proc
    BY <1>5, <1>11
  <1>12. CASE TakeCall \/ TakeCancel \/ \E c \in Calls : Finish(c)
    BY <1>1, <1>11, <1>12, SameProcess DEF TakeCall, TakeCancel, Finish, wire
  <1> QED
    BY <1>12, <1>6, <1>7, <1>8, <1>9, <1>10, <1>11 DEF Next, Turn, Stream, wire, outside,
       Supersede, Stop, TurnDies, TurnFails, Enqueue, Observe, AskCancel, GiveUp, CancelCall,
       Answer, Sweep, CancelNotice, Claim, ClaimNothing, Replay, Receipt, Result

LEMMA InvStep == LedgerInv /\ [Next]_vars => LedgerInv'
  <1> SUFFICES ASSUME LedgerInv, [Next]_vars PROVE LedgerInv'
    OBVIOUS
  <1>1. TypeOK'
    BY StepType DEF LedgerInv
  <1>2. CASE Next
    BY <1>1, <1>2, CallStep, WireStep DEF LedgerInv
  <1>3. CASE UNCHANGED vars
    BY <1>1, <1>3 DEF LedgerInv, WireInv, CallInv, vars, ledger, wire, outside
  <1> QED BY <1>2, <1>3

LEMMA LedgerCorrect == Spec => []LedgerInv
  BY InitInv, InvStep, PTL DEF Spec

-----------------------------------------------------------------------------
(* The theorems.                                                           *)

\* A call runs at most once, on whatever processes, and is answered at most
\* once, whoever wants to answer it.
THEOREM CallsHappenOnce == Spec => []OnceOnly
  <1>1. LedgerInv => OnceOnly
    BY DEF LedgerInv, CallInv, OnceOnly, RunsOnce, WrittenOnce
  <1> QED BY <1>1, LedgerCorrect, PTL

\* Delivered calls are those of the registered process.
THEOREM DeliveriesAreCurrent == Spec => []DeliveredIsCurrent
  <1>1. LedgerInv => DeliveredIsCurrent
    BY DEF LedgerInv, CallInv, DeliveredIsCurrent
  <1> QED BY <1>1, LedgerCorrect, PTL

\* No step cancels a call whose request is the newest of a running Thread.
THEOREM CancellationsAreJustified == Spec => CancelIsJustified
  <1> DEFINE Justified ==
                \A c \in Calls : call[c].status \in Pending /\ call'[c].status = "cancelled"
                    => request'[c] # "current"
  <1>1. LedgerInv /\ [Next]_vars => [Justified]_vars
    <2> SUFFICES ASSUME LedgerInv, Next, NEW c \in Calls,
                        call[c].status \in Pending, call'[c].status = "cancelled"
                 PROVE  request'[c] # "current"
      OBVIOUS
    <2>1. RowStep(c)
      BY LedgerSteps DEF LedgerStep
    <2> QED
      BY <2>1 DEF RowStep, Kept, Queued, Dispatched, SettledOnly, AnsweredNow, Pending, Settled
  <1> QED BY <1>1, LedgerCorrect, PTL DEF Spec, CancelIsJustified

\* What CallPromise calls one call.
Promised(c) ==
    [phase      |-> CASE call[c].status = "none" -> "none"
                      [] call[c].status = "queued" -> "waiting"
                      [] call[c].status = "delivered" -> "sent"
                      [] OTHER -> "settled",
     dispatched |-> call[c].boot # 0,
     stale      |-> Stale(c),
     runs       |-> runs[c],
     answer     |-> call[c].out]

Phase(status) ==
    IF status = "none" THEN "none"
    ELSE IF status = "queued" THEN "waiting"
    ELSE IF status = "delivered" THEN "sent"
    ELSE "settled"

LEMMA PromisedPhase == \A c \in Calls : Promised(c).phase = Phase(call[c].status)
  BY DEF Promised, Phase

LEMMA PromisedType == TypeOK => \A c \in Calls : Promised(c) \in Promise!State
  <1> SUFFICES ASSUME TypeOK, NEW c \in Calls PROVE Promised(c) \in Promise!State
    OBVIOUS
  <1>1. Promised(c).phase \in Promise!Phases
    BY PromisedPhase DEF Phase, Promise!Phases
  <1>2. call[c].out \in {"none", "output", "activity"} /\ runs[c] \in Nat
    BY DEF TypeOK, Call
  <1> QED BY <1>1, <1>2 DEF Promised, Stale, Promise!State

\* A request that was superseded stays so.
LEMMA StaleStays ==
    ASSUME TypeOK, Next, NEW c \in Calls
    PROVE  Stale(c) => Stale(c)'
  <1>1. CASE request' = request
    BY <1>1 DEF Stale
  <1>2. ASSUME NEW d \in Calls, Supersede(d) \/ Stop(d) \/ TurnFails(d)
        PROVE  Stale(c) => Stale(c)'
    <2>1. \E r : request' = [request EXCEPT ![d] = r] /\ (request[d] = "superseded" => r = "superseded")
      BY <1>2 DEF Supersede, Stop, TurnFails, Stale
    <2> QED BY <2>1 DEF Stale, TypeOK
  <1> QED
    BY <1>1, <1>2 DEF Next, Turn, Stream, TurnDies, Enqueue, Observe, AskCancel, GiveUp,
       CancelCall, Answer, Connect, ObsoleteConnect, Register, Drop, DeadEnds, Sweep,
       CancelNotice, Claim, ClaimNothing, Replay, Receipt, Result, TakeCall, TakeCancel,
       Finish, Restart

LEMMA PromiseStep ==
    ASSUME LedgerInv, Next, NEW c \in Calls
    PROVE  Promise!Moves(Promised(c), Promised(c)')
  <1>1. /\ CallInv(c) /\ RowStep(c) /\ DeviceStep /\ TypeOK /\ TypeOK' /\ CallInv(c)'
        /\ device.proc # 0
    BY LedgerSteps, DeviceSteps, StepType, InvStep DEF LedgerInv, LedgerStep, WireInv
  <1>2. /\ Promised(c).phase = Phase(call[c].status)
        /\ Promised(c)'.phase = Phase(call'[c].status)
        /\ Promised(c).dispatched = (call[c].boot # 0)
        /\ Promised(c)'.dispatched = (call'[c].boot # 0)
        /\ Promised(c).stale = Stale(c) /\ Promised(c)'.stale = Stale(c)'
        /\ Promised(c).runs = runs[c] /\ Promised(c)'.runs = runs'[c]
        /\ Promised(c).answer = call[c].out /\ Promised(c)'.answer = call'[c].out
    BY PromisedPhase DEF Promised, Phase
  <1>3. Stale(c) => Stale(c)'
    BY <1>1, StaleStays
  <1>4. call[c].status \in Statuses /\ call'[c].status \in Statuses
    BY <1>1, RowTypes DEF TypeOK
  <1>5. Phase(call'[c].status) # Phase(call[c].status) =>
           /\ <<Phase(call[c].status), Phase(call'[c].status)>> \in Promise!Onward
           /\ Phase(call'[c].status) \in {"waiting", "sent"} => ~Stale(c)
    BY <1>1, <1>4 DEF Phase, Promise!Onward, Stale, Statuses, Pending, Settled,
       RowStep, Kept, Queued, Dispatched, SettledOnly, AnsweredNow
  <1>6. (call'[c].boot # 0) = (call[c].boot # 0 \/ Phase(call'[c].status) = "sent")
    BY <1>1, <1>4 DEF Phase, CallInv, Statuses, Pending, Settled,
       RowStep, Kept, Queued, Dispatched, SettledOnly, AnsweredNow
  <1>7. runs'[c] # runs[c] => call[c].boot # 0 /\ runs[c] = 0 /\ runs'[c] = 1
    BY <1>1 DEF DeviceStep
  <1>8. call'[c].out # call[c].out =>
           /\ call[c].out = "none"
           /\ Phase(call'[c].status) = "settled"
           /\ call'[c].out = IF Stale(c) THEN "activity" ELSE "output"
    BY <1>1, <1>4 DEF Phase, AnswerKind, Statuses, Pending, Settled,
       RowStep, Kept, Queued, Dispatched, SettledOnly, AnsweredNow
  <1> QED
    BY <1>2, <1>3, <1>5, <1>6, <1>7, <1>8 DEF Promise!Moves

\* The ledger implements CallPromise: every step of the turns, streams, sweeps,
\* reports and devices is, for each call, a step the promise allows.
THEOREM PromiseKept == Spec => KeepsPromise
  <1> DEFINE mapped == [c \in Calls |-> Promised(c)]
  <1>1. Init => Promise!Init
    <2> SUFFICES ASSUME Init PROVE [c \in Calls |-> Promised(c)] = [c \in Calls |-> Promise!Fresh]
      BY DEF Promise!Init, Promised
    <2>1. ASSUME NEW c \in Calls PROVE Promised(c) = Promise!Fresh
      <3>1. /\ call[c].status = "none" /\ call[c].boot = 0 /\ call[c].out = "none"
            /\ runs[c] = 0 /\ ~Stale(c)
        BY DEF Init, NoCall, Stale
      <3>2. Promised(c).phase = "none"
        BY <3>1, PromisedPhase DEF Phase
      <3>3. Promised(c) = [phase |-> Promised(c).phase, dispatched |-> FALSE, stale |-> FALSE,
                           runs |-> 0, answer |-> "none"]
        <4>1. (call[c].boot # 0) = FALSE /\ Stale(c) = FALSE
          BY <3>1 DEF Stale
        <4>2. Promised(c).phase =
                 CASE call[c].status = "none" -> "none"
                   [] call[c].status = "queued" -> "waiting"
                   [] call[c].status = "delivered" -> "sent"
                   [] OTHER -> "settled"
          BY DEF Promised
        <4> QED BY <3>1, <4>1, <4>2, Zenon DEF Promised
      <3> QED BY <3>2, <3>3 DEF Promise!Fresh
    <2> QED BY <2>1
  <1>2. LedgerInv /\ LedgerInv' /\ [Next]_vars => [Promise!Next]_mapped
    <2>1. CASE UNCHANGED vars
      BY <2>1 DEF vars, ledger, outside, Promised, Stale
    <2>2. ASSUME LedgerInv, LedgerInv', Next PROVE Promise!Next
      <3>1. \A c \in Calls : Promised(c)' \in Promise!State
        <4>1. TypeOK' => (\A c \in Calls : Promised(c) \in Promise!State)'
          BY PromisedType, PTL
        <4> QED BY <2>2, <4>1 DEF LedgerInv
      <3>2. \A c \in Calls : Promise!Moves(Promised(c), Promised(c)')
        BY <2>2, PromiseStep
      <3> QED BY <3>1, <3>2 DEF Promise!Next, Promised
    <2> QED BY <2>1, <2>2
  <1> QED BY <1>1, <1>2, LedgerCorrect, PTL DEF Spec, KeepsPromise, Promise!Spec, Promised

=============================================================================
