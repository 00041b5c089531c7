------------------------------ MODULE ExeDriver ------------------------------
(***************************************************************************)
(* The driver of one account's eXe devices: it claims calls of the ledger, *)
(* posts them to a relay, reads what became of them and settles them,      *)
(* while turns cancel and time out.  The driver is one loop; a pass works  *)
(* on the rows as it read them when it began.                              *)
(*                                                                         *)
(* The relay and the device are outside the repository; they are modelled  *)
(* by the answers the driver distinguishes.  Envelopes are opaque: a post  *)
(* has the number of its attempt, 0 is none.  Reading an answer's seal and *)
(* signature either gives the device's outcome or a failure.               *)
(***************************************************************************)
EXTENDS Naturals, FiniteSets

CONSTANTS
    ExeCalls,      \* calls of the account, numbered as they were created
    DriveBatch,    \* calls one pass works on
    MaxPosts,      \* bound: envelopes of one call the relay accepts
    MaxExeFaults   \* bound: restarts of the Controller, answers of the relay lost

ASSUME ExeDriverAssumption ==
    /\ IsFiniteSet(ExeCalls) /\ ExeCalls \subseteq Nat
    /\ DriveBatch \in Nat \ {0} /\ MaxPosts \in Nat \ {0} /\ MaxExeFaults \in Nat

VARIABLES
    exeCall,     \* worker_calls rows
    relayCall,   \* what the relay holds of each call, by attempt
    driver,      \* the pass: its snapshot, the call at hand, failed posts
    exeFaults    \* history variable: faults so far

exeVars == <<exeCall, relayCall, driver, exeFaults>>

ExePending == {"queued", "delivered"}
ExeSettled == {"completed", "failed", "cancelled"}
Posts == 1..MaxPosts
RelayLive == {"queued", "received"}
RelayOver == {"succeeded", "failed", "cancelled", "expired", "lost"}
ExeRow == [status : {"none"} \cup ExePending \cup ExeSettled,
           asked : BOOLEAN,      \* cancel_requested_at
           told : BOOLEAN,       \* cancel_notified_at
           post : {0} \cup Posts]  \* exe_call_id
At == {"idle", "notice", "match", "claim", "submit", "store", "poll", "settle"}

ExeTypeOK ==
    /\ exeCall \in [ExeCalls -> ExeRow]
    /\ relayCall \in [ExeCalls -> [Posts -> {"none"} \cup RelayLive \cup RelayOver]]
    /\ driver \in [todo : SUBSET ExeCalls, row : [ExeCalls -> ExeRow], at : At,
                   post : {0} \cup Posts, outcome : {"completed", "failed"},
                   grace : [ExeCalls -> {"none", "running", "over"}]]
    /\ exeFaults \in 0..MaxExeFaults

NoGrace == [c \in ExeCalls |-> "none"]
Unqueued == [status |-> "none", asked |-> FALSE, told |-> FALSE, post |-> 0]
DriverIdle == [todo |-> {}, row |-> [c \in ExeCalls |-> Unqueued], at |-> "idle",
               post |-> 0, outcome |-> "failed", grace |-> NoGrace]

ExeInit ==
    /\ exeCall = [c \in ExeCalls |-> Unqueued]
    /\ relayCall = [c \in ExeCalls |-> [p \in Posts |-> "none"]]
    /\ driver = DriverIdle
    /\ exeFaults = 0

ExeFault == exeFaults < MaxExeFaults /\ exeFaults' = exeFaults + 1

First(calls) == CHOOSE c \in calls : \A d \in calls : c <= d
Cur == First(driver.todo)
CurRow == driver.row[Cur]
At_(pc) == driver.todo # {} /\ driver.at = pc

-----------------------------------------------------------------------------
(* The turns.                                                              *)

ExeQueue(c) ==
    /\ exeCall[c].status = "none"
    /\ \A d \in ExeCalls : d < c => exeCall[d].status # "none"
    /\ exeCall' = [exeCall EXCEPT ![c].status = "queued"]
    /\ UNCHANGED <<relayCall, driver, exeFaults>>

\* advance_worker_call_timeout: the deadline is over.
AskRelayCancel(c) ==
    /\ exeCall[c].status = "delivered" /\ ~exeCall[c].asked
    /\ exeCall' = [exeCall EXCEPT ![c].asked = TRUE]
    /\ UNCHANGED <<relayCall, driver, exeFaults>>

\* answer_unconfirmed_timeout.
AnswerTimeout(c) ==
    /\ exeCall[c].status = "delivered" /\ exeCall[c].asked
    /\ exeCall' = [exeCall EXCEPT ![c].status = "failed"]
    /\ UNCHANGED <<relayCall, driver, exeFaults>>

\* cancel_worker_call, and cancel_for, which does not write the request down.
CancelExe(c) ==
    /\ exeCall[c].status \in ExePending
    /\ \E asked \in {TRUE, exeCall[c].asked} :
          exeCall' = [exeCall EXCEPT ![c].status = "cancelled", ![c].asked = asked]
    /\ UNCHANGED <<relayCall, driver, exeFaults>>

-----------------------------------------------------------------------------
(* The driver.                                                             *)

\* pending_calls.
PendingCalls ==
    {c \in ExeCalls : \/ exeCall[c].status \in ExePending
                      \/ exeCall[c].asked /\ ~exeCall[c].told}
Batch == {c \in PendingCalls : Cardinality({d \in PendingCalls : d <= c}) <= DriveBatch}

\* user: a pass takes the oldest calls as they are now.
BeginPass ==
    /\ driver.at = "idle"
    /\ Batch # {}
    /\ driver' = [driver EXCEPT !.todo = Batch, !.row = exeCall, !.at = "notice"]
    /\ UNCHANGED <<exeCall, relayCall, exeFaults>>

Goto(pc) == driver' = [driver EXCEPT !.at = pc]

\* What remains of the pass after this call.
NextCall(d) ==
    IF d.todo = {Cur} THEN [DriverIdle EXCEPT !.grace = d.grace]
    ELSE [d EXCEPT !.todo = @ \ {Cur}, !.at = "notice", !.post = 0]
Leave == driver' = NextCall(driver)

\* call, the cancellation: it is forwarded if an envelope is known, and marked
\* as told whatever the relay answered.
Notice ==
    /\ At_("notice")
    /\ IF CurRow.asked /\ ~CurRow.told
       THEN /\ exeCall' = [exeCall EXCEPT ![Cur].told = TRUE]
            /\ \/ UNCHANGED relayCall
               \/ /\ CurRow.post # 0
                  /\ relayCall[Cur][CurRow.post] \in RelayLive
                  /\ relayCall' = [relayCall EXCEPT ![Cur][CurRow.post] = "cancelled"]
       ELSE UNCHANGED <<exeCall, relayCall>>
    /\ Goto("match")
    /\ UNCHANGED exeFaults

\* call, what there is to do by the row as it was read.
Match ==
    /\ At_("match")
    /\ IF CurRow.status \notin ExePending THEN Leave
       ELSE Goto(IF CurRow.status = "queued" THEN "claim"
                 ELSE IF CurRow.post = 0 THEN "submit" ELSE "poll")
    /\ UNCHANGED <<exeCall, relayCall, exeFaults>>

\* Mutant: the claim trusts the row as it was read.
ClaimableAsRead(c) == driver.row[c].status = "queued"

\* The guard of the claim's UPDATE: a call is taken that is still queued.
Claimable(c) == exeCall[c].status = "queued"

ClaimExe ==
    /\ At_("claim")
    /\ IF Claimable(Cur)
       THEN exeCall' = [exeCall EXCEPT ![Cur].status = "delivered"] /\ Goto("submit")
       ELSE Leave /\ UNCHANGED exeCall
    /\ UNCHANGED <<relayCall, exeFaults>>

FreePost(c) == {p \in Posts : relayCall[c][p] = "none" /\ \A q \in Posts : q < p => relayCall[c][q] # "none"}
Accept(p) == relayCall' = [relayCall EXCEPT ![Cur][p] = "queued"]

\* submit, the relay takes the envelope.
Submit ==
    /\ At_("submit")
    /\ \E p \in FreePost(Cur) :
          Accept(p) /\ driver' = [driver EXCEPT !.at = "store", !.post = p,
                                                !.grace[Cur] = "none"]
    /\ UNCHANGED <<exeCall, exeFaults>>

\* Mutant: the retries have no end.
GraceEndless(c) == FALSE

\* first.elapsed() >= SUBMIT_GRACE, by the first failure of this process.
GraceOver(c) == driver.grace[c] = "over"

\* submit, no answer: retried by a later pass, or given up after the grace.
SubmitUnanswered ==
    IF GraceOver(Cur)
    THEN driver' = [driver EXCEPT !.at = "settle", !.outcome = "failed", !.grace[Cur] = "none"]
    ELSE driver' = NextCall([driver EXCEPT !.grace[Cur] = IF @ = "none" THEN "running" ELSE @])

RelayUnreachable ==
    /\ At_("submit")
    /\ SubmitUnanswered
    /\ UNCHANGED <<exeCall, relayCall, exeFaults>>

\* The relay has the envelope and its answer is lost.
AnswerLost ==
    /\ ExeFault
    /\ At_("submit")
    /\ \E p \in FreePost(Cur) : Accept(p)
    /\ SubmitUnanswered
    /\ UNCHANGED exeCall

\* encode_call finds no verb for it, or the relay refuses it for good.
SubmitRefused ==
    /\ At_("submit")
    /\ driver' = [driver EXCEPT !.at = "settle", !.outcome = "failed", !.grace[Cur] = "none"]
    /\ UNCHANGED <<exeCall, relayCall, exeFaults>>

\* submit, exe_call_id is stored after the relay has it.
StorePost ==
    /\ At_("store")
    /\ exeCall' = [exeCall EXCEPT ![Cur].post = IF @ = 0 THEN driver.post ELSE @]
    /\ Leave
    /\ UNCHANGED <<relayCall, exeFaults>>

GraceRunsOut(c) ==
    /\ driver.grace[c] = "running"
    /\ driver' = [driver EXCEPT !.grace[c] = "over"]
    /\ UNCHANGED <<exeCall, relayCall, exeFaults>>

\* poll: what the relay may still change is left for a later pass.
Final(status) == status \in RelayOver

\* poll, with the outcome the ledger gets; an answer that cannot be opened is
\* a failure.
PollExe ==
    /\ At_("poll")
    /\ LET status == relayCall[Cur][CurRow.post]
       IN  IF Final(status)
           THEN \E outcome \in IF status = "succeeded" THEN {"completed", "failed"} ELSE {"failed"} :
                  driver' = [driver EXCEPT !.at = "settle", !.outcome = outcome]
           ELSE Leave
    /\ UNCHANGED <<exeCall, relayCall, exeFaults>>

\* poll, a transient error: a later pass reads again.
PollUnanswered ==
    /\ ExeFault
    /\ At_("poll")
    /\ Leave
    /\ UNCHANGED <<exeCall, relayCall>>

\* settle, then the acknowledgement.  A call settled by somebody else keeps
\* its status.
SettleExe ==
    /\ At_("settle")
    /\ exeCall' = [exeCall EXCEPT ![Cur].status = IF @ \in ExePending THEN driver.outcome ELSE @]
    /\ Leave
    /\ UNCHANGED <<relayCall, exeFaults>>

\* The Controller restarts: the pass and the failures are forgotten.
ExeRestart ==
    /\ ExeFault
    /\ driver # DriverIdle
    /\ driver' = DriverIdle
    /\ UNCHANGED <<exeCall, relayCall>>

-----------------------------------------------------------------------------
(* The relay and the device.                                               *)

RelayMoves(c, p, from, to) ==
    /\ relayCall[c][p] = from
    /\ relayCall' = [relayCall EXCEPT ![c][p] = to]
    /\ UNCHANGED <<exeCall, driver, exeFaults>>

Receive(c, p) == RelayMoves(c, p, "queued", "received")
DeviceAnswers(c, p) == \E to \in {"succeeded", "failed", "lost"} : RelayMoves(c, p, "received", to)
RelayExpires(c, p) == RelayMoves(c, p, "queued", "expired")

ExeDrive ==
    \/ BeginPass \/ Notice \/ Match \/ ClaimExe \/ Submit \/ RelayUnreachable
    \/ SubmitRefused \/ StorePost \/ PollExe \/ SettleExe

ExeNext ==
    \/ ExeDrive \/ AnswerLost \/ PollUnanswered \/ ExeRestart
    \/ \E c \in ExeCalls :
          \/ ExeQueue(c) \/ AskRelayCancel(c) \/ AnswerTimeout(c) \/ CancelExe(c) \/ GraceRunsOut(c)
          \/ \E p \in Posts : Receive(c, p) \/ DeviceAnswers(c, p) \/ RelayExpires(c, p)

\* The loop of supervise; the relay keeps its lifetimes, the device answers what
\* it received or is found lost, the clock runs.
ExeProgress(c) ==
    \/ \E p \in Posts : DeviceAnswers(c, p) \/ RelayExpires(c, p)
    \/ GraceRunsOut(c)

ExeFairness == WF_exeVars(ExeDrive) /\ \A c \in ExeCalls : WF_exeVars(ExeProgress(c))

ExeSpec == ExeInit /\ [][ExeNext]_exeVars /\ ExeFairness

-----------------------------------------------------------------------------
(* Properties.                                                             *)

\* An answer stands: no pass that works on rows it read before a cancellation,
\* a timeout or a restart takes a settled call back or answers it twice.
ExeAnswerStands ==
    [][\A c \in ExeCalls : exeCall[c].status \in ExeSettled
                              => exeCall'[c].status = exeCall[c].status]_exeVars

\* Every call the driver took is answered by the driver alone, though calls of
\* other devices are before it in the batch, posts fail and the relay lets
\* envelopes expire.
ExeCallEnds ==
    \A c \in ExeCalls : []<>(exeCall[c].status \in ExeSettled \union {"none"})

=============================================================================
