----------------------------- MODULE SharedCalls -----------------------------
(***************************************************************************)
(* Calls to the Worker of another account.  Two databases take part: the   *)
(* owner's holds the grant and the ledger of the calls, the caller's holds *)
(* its view of the grant, the Thread, the intents and the answers.  Each   *)
(* is a transaction of its own; what spans both may stop in between.       *)
(*                                                                         *)
(* One Worker, one caller, one Thread of it.  A grant cycle is a number,   *)
(* 0 is none; a request is the number of its input.  Where the code reads  *)
(* the caller's database from the owner's side that database may be busy:  *)
(* the step is then not taken, or its second half is left for recovery.    *)
(* A write to the other database and the acknowledgement that follows it   *)
(* are one step here, with the outcomes they can leave: nobody else reads  *)
(* what lies between.                                                      *)
(***************************************************************************)
EXTENDS Naturals, FiniteSets

CONSTANTS
    ShCalls,    \* tool calls the Thread makes to the shared Worker
    MaxRevisions, \* bound: changes of the grant and of the Worker's label
    MaxInputs,  \* bound: requests of the Thread
    MaxShFaults \* bound: turns killed, new device processes

ASSUME SharedCallsAssumption ==
    /\ IsFiniteSet(ShCalls)
    /\ {MaxRevisions, MaxInputs, MaxShFaults} \subseteq Nat

VARIABLES
    shGrant,    \* the worker_grants row
    shWorker,   \* the Worker's row: live or deleted
    shLedger,   \* worker_calls of the owner
    shSeen,     \* shared_workers row of the caller
    shThread,   \* the Thread of the caller
    shIntent,   \* the intents in its history
    shHistory,  \* the answers in its history
    shTurn,     \* what the turn does with a call
    shFaults    \* history variable: faults so far

owner == <<shGrant, shWorker>>
callerDb == <<shThread, shIntent>>
shVars == <<shGrant, shWorker, shLedger, shSeen, shThread, shIntent, shHistory,
            shTurn, shFaults>>

Revisions == 0..MaxRevisions
ShInputs == 0..MaxInputs
ShPending == {"queued", "delivered"}
ShSettled == {"completed", "failed", "cancelled"}
Phases == {"primary", "late"}

ShTypeOK ==
    /\ shGrant \in [cycle : Revisions, revoked : BOOLEAN, revision : Revisions,
                    synced : Revisions]
    /\ shWorker \in {"live", "deleted"}
    /\ shLedger \in [ShCalls -> [status : {"none"} \cup ShPending \cup ShSettled,
                                 started : BOOLEAN,    \* started_at
                                 received : BOOLEAN,   \* received_at
                                 result : BOOLEAN,     \* result_json
                                 late : BOOLEAN,       \* late_result
                                 out : [Phases -> {"none", "record", "discarded"}]]]
    /\ shSeen \in [cycle : Revisions, revoked : BOOLEAN, revision : Revisions]
    /\ shThread \in [status : {"running", "idle", "deleted"}, input : ShInputs]
    /\ shIntent \in [ShCalls -> [bound : {"none", "refused", "shared"}, cycle : Revisions,
                                 input : ShInputs]]
    /\ shHistory \in [ShCalls -> [Phases -> 0..2]]
    /\ shTurn \in [ShCalls -> {"off", "enqueue", "wait", "answer"}]
    /\ shFaults \in 0..MaxShFaults

ShInit ==
    /\ shGrant = [cycle |-> 0, revoked |-> TRUE, revision |-> 0, synced |-> 0]
    /\ shWorker = "live"
    /\ shLedger = [c \in ShCalls |->
                     [status |-> "none", started |-> FALSE, received |-> FALSE,
                      result |-> FALSE, late |-> FALSE, out |-> [p \in Phases |-> "none"]]]
    /\ shSeen = [cycle |-> 0, revoked |-> TRUE, revision |-> 0]
    /\ shThread = [status |-> "idle", input |-> 0]
    /\ shIntent = [c \in ShCalls |-> [bound |-> "none", cycle |-> 0, input |-> 0]]
    /\ shHistory = [c \in ShCalls |-> [p \in Phases |-> 0]]
    /\ shTurn = [c \in ShCalls |-> "off"]
    /\ shFaults = 0

ShFault == shFaults < MaxShFaults /\ shFaults' = shFaults + 1

-----------------------------------------------------------------------------
(* The grant, and the caller's view of it.                                 *)

\* The upsert of sync_grants: only a newer revision replaces the row.
Projected(seen, grant) ==
    IF grant.revision > seen.revision
    THEN [cycle |-> grant.cycle, revoked |-> grant.revoked, revision |-> grant.revision]
    ELSE seen

\* sync_grants on the relation as it stands: done, done but not acknowledged,
\* or put off because the caller's database was not available.
SyncGrant(grant) ==
    \/ /\ shGrant' = [grant EXCEPT !.synced = grant.revision]
       /\ shSeen' = Projected(shSeen, grant)
    \/ /\ shGrant' = grant
       /\ shSeen' = Projected(shSeen, grant)
    \/ shGrant' = grant /\ UNCHANGED shSeen

\* change_grant: a grant that is active stays as it is.
ShareWorker ==
    /\ shWorker = "live"
    /\ shGrant.revoked /\ shGrant.revision < MaxRevisions
    /\ SyncGrant([shGrant EXCEPT !.cycle = @ + 1, !.revoked = FALSE, !.revision = @ + 1])
    /\ UNCHANGED <<shWorker, shLedger, callerDb, shHistory, shTurn, shFaults>>

CancelQueued == [c \in ShCalls |-> IF shLedger[c].status = "queued"
                                   THEN [shLedger[c] EXCEPT !.status = "cancelled"]
                                   ELSE shLedger[c]]

\* change_grant, revoking: queued calls of that caller are cancelled with it.
Revoke ==
    /\ shWorker = "live"
    /\ ~shGrant.revoked /\ shGrant.revision < MaxRevisions
    /\ SyncGrant([shGrant EXCEPT !.revoked = TRUE, !.revision = @ + 1])
    /\ shLedger' = CancelQueued
    /\ UNCHANGED <<shWorker, callerDb, shHistory, shTurn, shFaults>>

\* update_worker: the label is part of what the caller sees.
Rename ==
    /\ shWorker = "live"
    /\ shGrant.revision \in 1..(MaxRevisions - 1)
    /\ SyncGrant([shGrant EXCEPT !.revision = @ + 1])
    /\ UNCHANGED <<shWorker, shLedger, callerDb, shHistory, shTurn, shFaults>>

\* delete_worker: a tombstone, its grants revoked, its queued calls cancelled.
DeleteWorker ==
    /\ shWorker = "live"
    /\ shGrant.revision \in 1..(MaxRevisions - 1)
    /\ shWorker' = "deleted"
    /\ SyncGrant([shGrant EXCEPT !.revoked = TRUE, !.revision = @ + 1])
    /\ shLedger' = CancelQueued
    /\ UNCHANGED <<callerDb, shHistory, shTurn, shFaults>>

\* The relation as the caller's row should show it.
InSync == shGrant.revision = shGrant.synced

\* The half of recover that syncs grants.
RecoverGrant ==
    /\ ~InSync
    /\ SyncGrant(shGrant)
    /\ UNCHANGED <<shWorker, shLedger, callerDb, shHistory, shTurn, shFaults>>

GrantReaches == RecoverGrant /\ InSync'

-----------------------------------------------------------------------------
(* The caller's Thread and its turn.                                       *)

\* A new input: older requests of the Thread are superseded.
NewInput ==
    /\ shThread.status # "deleted" /\ shThread.input < MaxInputs
    /\ shThread' = [status |-> "running", input |-> shThread.input + 1]
    /\ UNCHANGED <<owner, shLedger, shSeen, shIntent, shHistory, shTurn, shFaults>>

\* The request ends, or the user stops it.
EndRequest ==
    /\ shThread.status = "running"
    /\ shThread' = [shThread EXCEPT !.status = "idle"]
    /\ UNCHANGED <<owner, shLedger, shSeen, shIntent, shHistory, shTurn, shFaults>>

DeleteThread ==
    /\ shThread.status # "deleted"
    /\ shThread' = [shThread EXCEPT !.status = "deleted"]
    /\ UNCHANGED <<owner, shLedger, shSeen, shIntent, shHistory, shTurn, shFaults>>

\* current, read in the caller's database.
ShCurrent(c) == shThread.status = "running" /\ shThread.input = shIntent[c].input

\* bind_intent: in the transaction that stores the model's output the call is
\* bound to the grant the caller sees, or to no route at all.
BindIntent(c) ==
    /\ shIntent[c].bound = "none"
    /\ shThread.status = "running"
    /\ shIntent' = [shIntent EXCEPT ![c] =
         IF shSeen.revision # 0 /\ ~shSeen.revoked
         THEN [bound |-> "shared", cycle |-> shSeen.cycle, input |-> shThread.input]
         ELSE [bound |-> "refused", cycle |-> 0, input |-> shThread.input]]
    /\ shTurn' = [shTurn EXCEPT ![c] = "enqueue"]
    /\ UNCHANGED <<owner, shLedger, shSeen, shThread, shHistory, shFaults>>

\* grant_active: this very cycle of the grant is in force.
GrantActive(c) ==
    /\ shWorker = "live"
    /\ ~shGrant.revoked
    /\ shGrant.cycle = shIntent[c].cycle

\* enqueue_intent by dispatch_committed, right after the commit, and again by
\* the handler of the call, which goes on to wait: an existing row is kept.
EnqueueIntent(c) ==
    /\ shTurn[c] = "enqueue"
    /\ shIntent[c].bound = "shared"
    /\ ShCurrent(c)
    /\ \/ /\ shLedger[c].status = "none"
          /\ GrantActive(c)
          /\ shLedger' = [shLedger EXCEPT ![c].status = "queued"]
       \/ /\ shLedger[c].status # "none"
          /\ UNCHANGED shLedger
    /\ shTurn' \in {[shTurn EXCEPT ![c] = "wait"], shTurn}
    /\ shTurn' # shTurn \/ shLedger' # shLedger
    /\ UNCHANGED <<owner, callerDb, shSeen, shHistory, shFaults>>

\* The handler is refused: no route, no grant, or the Worker is offline.  The
\* model is told at once.
RefuseIntent(c) ==
    /\ shTurn[c] = "enqueue"
    /\ shLedger[c].status = "none"
    /\ ShCurrent(c)
    /\ shTurn' = [shTurn EXCEPT ![c] = "answer"]
    /\ UNCHANGED <<owner, shLedger, callerDb, shSeen, shHistory, shFaults>>

\* The turn is told to stop before it could enqueue or answer.
LeaveTurn(c) ==
    /\ shTurn[c] = "enqueue"
    /\ ~ShCurrent(c)
    /\ shTurn' = [shTurn EXCEPT ![c] = "off"]
    /\ UNCHANGED <<owner, shLedger, callerDb, shSeen, shHistory, shFaults>>

\* wait_worker_result, one pass that reads a settled call.
ShObserve(c) ==
    /\ shTurn[c] = "wait"
    /\ shLedger[c].status \in ShSettled
    /\ shTurn' = [shTurn EXCEPT ![c] = IF shLedger[c].out["primary"] = "none"
                                       THEN "answer" ELSE "off"]
    /\ UNCHANGED <<owner, shLedger, callerDb, shSeen, shHistory, shFaults>>

\* answer_unconfirmed_timeout: the device did not confirm the cancellation.
ShGiveUp(c) ==
    /\ shTurn[c] = "wait"
    /\ shLedger[c].status = "delivered"
    /\ shLedger' = [shLedger EXCEPT ![c].status = "failed"]
    /\ shTurn' = [shTurn EXCEPT ![c] = "answer"]
    /\ UNCHANGED <<owner, callerDb, shSeen, shHistory, shFaults>>

\* cancel_worker_call, when the waiting turn is told to stop.
ShCancelCall(c) ==
    /\ shTurn[c] = "wait"
    /\ ~ShCurrent(c)
    /\ shLedger' = IF shLedger[c].status \in ShPending
                   THEN [shLedger EXCEPT ![c].status = "cancelled"] ELSE shLedger
    /\ shTurn' = [shTurn EXCEPT ![c] = "off"]
    /\ UNCHANGED <<owner, callerDb, shSeen, shHistory, shFaults>>

\* A record of the caller's history for this phase of the call exists.
Recorded(c, phase) == shHistory[c][phase] > 0
Record(c, phase) == shHistory' = [shHistory EXCEPT ![c][phase] = @ + 1]

\* Mutant: the turn does not look for an answer that was delivered meanwhile.
AnswerBlindly(c) ==
    /\ shTurn[c] = "answer"
    /\ IF shThread.status = "deleted" THEN UNCHANGED shHistory ELSE Record(c, "primary")
    /\ shTurn' = [shTurn EXCEPT ![c] = "off"]
    /\ UNCHANGED <<owner, shLedger, callerDb, shSeen, shFaults>>

\* append_tool_output_item of a shared call: one primary answer, stamped with
\* its origin; the ledger of the owner is not touched.
ShAnswer(c) ==
    /\ shTurn[c] = "answer"
    /\ IF Recorded(c, "primary") \/ shThread.status = "deleted"
       THEN UNCHANGED shHistory
       ELSE Record(c, "primary")
    /\ shTurn' = [shTurn EXCEPT ![c] = "off"]
    /\ UNCHANGED <<owner, shLedger, callerDb, shSeen, shFaults>>

\* The turn or the Controller dies; recovery takes the unanswered call up again.
ShTurnDies(c) ==
    /\ ShFault
    /\ shTurn[c] \in {"wait", "answer"}
    /\ shTurn' = [shTurn EXCEPT ![c] = IF Recorded(c, "primary") THEN "off" ELSE "enqueue"]
    /\ UNCHANGED <<owner, shLedger, callerDb, shSeen, shHistory>>

-----------------------------------------------------------------------------
(* The owner's Controller side and the device.                             *)

\* Mutant: the gate looks at the grant and not at the caller's Thread.
GrantIsEnough(c) == GrantActive(c)

\* gate, the caller's database being available.
GateOpen(c) == GrantActive(c) /\ ShCurrent(c)

\* claim: the gate is read in the owner's transaction that delivers.
ShClaim(c) ==
    /\ shWorker = "live"
    /\ shLedger[c].status = "queued"
    /\ GateOpen(c)
    /\ shLedger' = [shLedger EXCEPT ![c].status = "delivered", ![c].started = TRUE]
    /\ UNCHANGED <<owner, callerDb, shSeen, shHistory, shTurn, shFaults>>

\* claim, replay and the sweep of cancel_stale: a closed gate is final for a
\* call that is queued or that the device did not acknowledge.
ShRefuse(c) ==
    /\ \/ shLedger[c].status = "queued"
       \/ shLedger[c].status = "delivered" /\ ~shLedger[c].received
    /\ ~GateOpen(c)
    /\ shLedger' = [shLedger EXCEPT ![c].status = "cancelled"]
    /\ UNCHANGED <<owner, callerDb, shSeen, shHistory, shTurn, shFaults>>

\* The device has the call.
ShReceipt(c) ==
    /\ shLedger[c].status = "delivered" /\ ~shLedger[c].received
    /\ shLedger' = [shLedger EXCEPT ![c].received = TRUE]
    /\ UNCHANGED <<owner, callerDb, shSeen, shHistory, shTurn, shFaults>>

\* save_foreign_result: of a delivered call it settles it, of a settled one it
\* is kept as a late result; a call that was never delivered has none.
ShResult(c) ==
    /\ shWorker = "live"
    /\ shLedger[c].started /\ ~shLedger[c].result
    /\ IF shLedger[c].status = "delivered"
       THEN \E status \in {"completed", "failed"} :
              shLedger' = [shLedger EXCEPT ![c].status = status, ![c].result = TRUE,
                                           ![c].received = TRUE]
       ELSE shLedger' = [shLedger EXCEPT ![c].result = TRUE, ![c].late = TRUE,
                                         ![c].received = TRUE]
    /\ UNCHANGED <<owner, callerDb, shSeen, shHistory, shTurn, shFaults>>

\* register, another device process: what was delivered to the last is lost.
ShNewBoot ==
    /\ ShFault
    /\ shWorker = "live"
    /\ shLedger' = [c \in ShCalls |-> IF shLedger[c].status = "delivered"
                                      THEN [shLedger[c] EXCEPT !.status = "failed"]
                                      ELSE shLedger[c]]
    /\ UNCHANGED <<owner, callerDb, shSeen, shHistory, shTurn>>

\* Mutant: cancelled calls are not looked for.
UndeliveredResult(c, phase) ==
    /\ shLedger[c].status \in {"completed", "failed"}
    /\ shLedger[c].out[phase] = "none"
    /\ phase = "late" => shLedger[c].late /\ shLedger[c].out["primary"] # "none"

\* What recover and deliver look for.
Undelivered(c, phase) ==
    /\ shLedger[c].status \in ShSettled
    /\ shLedger[c].out[phase] = "none"
    /\ phase = "late" => shLedger[c].late /\ shLedger[c].out["primary"] # "none"

\* project_output: the record goes to the caller's history unless one of this
\* origin is there; then the ledger is told, or the Controller stops before.
Project(c, phase) ==
    /\ Undelivered(c, phase)
    /\ IF shThread.status = "deleted" \/ Recorded(c, phase)
       THEN UNCHANGED shHistory
       ELSE Record(c, phase)
    /\ \/ shLedger' = [shLedger EXCEPT ![c].out[phase] =
                         IF shThread.status = "deleted" THEN "discarded" ELSE "record"]
       \/ UNCHANGED shLedger
    /\ UNCHANGED <<owner, callerDb, shSeen, shTurn, shFaults>>

Projects(c) == \E phase \in Phases : Project(c, phase) /\ shLedger' # shLedger

ShNext ==
    \/ ShareWorker \/ Revoke \/ Rename \/ DeleteWorker \/ RecoverGrant
    \/ NewInput \/ EndRequest \/ DeleteThread \/ ShNewBoot
    \/ \E c \in ShCalls :
          \/ BindIntent(c) \/ EnqueueIntent(c) \/ RefuseIntent(c) \/ LeaveTurn(c)
          \/ ShObserve(c) \/ ShGiveUp(c) \/ ShCancelCall(c) \/ ShAnswer(c)
          \/ ShTurnDies(c)
          \/ ShClaim(c) \/ ShRefuse(c) \/ ShReceipt(c) \/ ShResult(c)
          \/ \E phase \in Phases : Project(c, phase)

\* The supervisor runs recover every five seconds; a busy database is not busy
\* for ever.
ShFairness ==
    /\ WF_shVars(GrantReaches)
    /\ \A c \in ShCalls :
          WF_shVars(Projects(c))

ShSpec == ShInit /\ [][ShNext]_shVars /\ ShFairness

-----------------------------------------------------------------------------
(* Properties.                                                             *)

\* The caller's history gets one answer and at most one late result of a call,
\* though the turn, the result handler and recovery all write them and the
\* acknowledgement in the other database may be lost in between.
OneAnswerPerPhase ==
    \A c \in ShCalls : \A phase \in Phases : shHistory[c][phase] <= 1

\* A grant that was revoked and given again revives nothing: whatever call
\* starts was made under the cycle in force, for the request the caller's
\* Thread is running, on a Worker that is there.
StartsUnderItsGrant ==
    [][\A c \in ShCalls :
          shLedger'[c].started /\ ~shLedger[c].started
              => /\ ~shGrant.revoked /\ shGrant.cycle = shIntent[c].cycle
                 /\ shThread.status = "running" /\ shThread.input = shIntent[c].input
                 /\ shWorker = "live"]_shVars

\* However a call ended - a result, a revocation, another device process, a
\* superseding input - the caller's history is told unless the Thread is gone;
\* killed turns and failed acknowledgements do not lose it.
SharedCallAnswered ==
    \A c \in ShCalls :
        []<>(shLedger[c].status \in ShSettled
                => Recorded(c, "primary") \/ shThread.status = "deleted")

=============================================================================
