---------------------------- MODULE WorkerUpgrade ----------------------------
(***************************************************************************)
(* The upgrade an owner asks of a Worker, and the calls and diagnostics it *)
(* has to wait for.                                                        *)
(*                                                                         *)
(* One live Worker.  A process of the device is its boot number, 0 is no   *)
(* boot; version 1 is the installed release and 2 the recommended one.     *)
(* The device is outside the repository: docs/thread-recovery.md says what *)
(* it does with the event.  It attempts one upgrade id once per process,   *)
(* waits for its executions and replaces itself; it posts one report at a  *)
(* time, again until it is answered, or gives up and the report may still  *)
(* arrive later.  How calls settle is the business of WorkerCalls.         *)
(***************************************************************************)
EXTENDS Naturals, Sequences, FiniteSets

CONSTANTS
    UpCalls,      \* calls queued for the Worker
    MaxUpgrades,  \* bound: upgrades the owner requests
    MaxUpFrames,  \* bound: events in flight on the stream
    MaxUpFaults   \* bound: crashes, broken streams, reports given up

ASSUME WorkerUpgradeAssumption ==
    /\ IsFiniteSet(UpCalls)
    /\ MaxUpgrades \in Nat /\ MaxUpFrames \in Nat \ {0} /\ MaxUpFaults \in Nat

VARIABLES
    upWorker,   \* the workers row: boot_id, version, upgrade_id, upgrade_status
    upCall,     \* worker_calls of that Worker
    upCheck,    \* its worker_checks row, and whether it is younger than 30 s
    upStream,   \* the event stream: the boot it is bound to, events in flight
    upDevice,   \* the process on the device
    upPost,     \* the report the device waits to have answered
    upLate,     \* reports it gave up
    upFaults    \* history variable: faults so far

upVars == <<upWorker, upCall, upCheck, upStream, upDevice, upPost, upLate, upFaults>>

UpBoots == 0..(MaxUpFaults + MaxUpgrades + 1)
UpIds == 0..MaxUpgrades
Target == 2
Upgrading == {"queued", "installing"}
NoPost == [boot |-> 0, id |-> 0, status |-> "none"]
UpReport == [boot : UpBoots, id : UpIds, status : {"none", "installing", "failed"}]
UpFrame == [upgrade : UpIds] \cup [call : UpCalls]

UpTypeOK ==
    /\ upWorker \in [boot : UpBoots, version : 0..Target, id : UpIds,
                     status : {"none", "completed", "failed"} \cup Upgrading]
    /\ upCall \in [UpCalls -> {"none", "queued", "delivered", "settled", "lost"}]
    /\ upCheck \in [status : {"none", "queued", "delivered", "completed"}, fresh : BOOLEAN]
    /\ upStream \in [boot : UpBoots, frames : Seq(UpFrame)]
    /\ upDevice \in [proc : UpBoots, version : 1..Target, running : SUBSET UpCalls,
                     phase : {"serving", "preparing", "installing"}, tried : SUBSET UpIds]
    /\ upPost \in UpReport /\ upLate \subseteq UpReport
    /\ upFaults \in 0..MaxUpFaults

UpInit ==
    /\ upWorker = [boot |-> 0, version |-> 0, id |-> 0, status |-> "none"]
    /\ upCall = [c \in UpCalls |-> "none"]
    /\ upCheck = [status |-> "none", fresh |-> FALSE]
    /\ upStream = [boot |-> 0, frames |-> <<>>]
    /\ upDevice = [proc |-> 1, version |-> 1, running |-> {}, phase |-> "serving", tried |-> {}]
    /\ upPost = NoPost
    /\ upLate = {}
    /\ upFaults = 0

UpActive == upWorker.status \in Upgrading
UpDelivered == {c \in UpCalls : upCall[c] = "delivered"}
UpFault == upFaults < MaxUpFaults /\ upFaults' = upFaults + 1
InFlight(c) == \E i \in DOMAIN upStream.frames : upStream.frames[i] = [call |-> c]

-----------------------------------------------------------------------------
(* The Controller.                                                         *)

\* A turn queues a call for the Worker.
UpQueueCall(c) ==
    /\ upCall[c] = "none"
    /\ upCall' = [upCall EXCEPT ![c] = "queued"]
    /\ UNCHANGED <<upWorker, upCheck, upStream, upDevice, upPost, upLate, upFaults>>

\* queue_upgrade, for a Worker seen lately; a running upgrade is left alone.
QueueUpgrade ==
    /\ upWorker.boot # 0
    /\ upWorker.version \in 1..(Target - 1)
    /\ ~UpActive
    /\ upWorker.id < MaxUpgrades
    /\ upWorker' = [upWorker EXCEPT !.id = @ + 1, !.status = "queued"]
    /\ UNCHANGED <<upCall, upCheck, upStream, upDevice, upPost, upLate, upFaults>>

\* The version half of register and of a heartbeat.  A process keeps its version
\* and heartbeats count from the registered one only: they change nothing more.
WithVersion(row, version) ==
    [row EXCEPT !.version = version,
                !.status = IF row.id # 0 /\ version = Target THEN "completed" ELSE @]

\* register: the device process opens its event stream.  Another process
\* fails the calls of the last one, and an installation that did not bring
\* the requested version.
UpRegister ==
    /\ upStream.boot = 0
    /\ LET new == upWorker.boot # upDevice.proc
           bound == [upWorker EXCEPT
                        !.boot = upDevice.proc,
                        !.status = IF new /\ @ = "installing" /\ upDevice.version # Target
                                   THEN "failed" ELSE @]
       IN  /\ upWorker' = WithVersion(bound, upDevice.version)
           /\ upCall' = [c \in UpCalls |-> IF new /\ upCall[c] = "delivered"
                                           THEN "lost" ELSE upCall[c]]
    /\ upStream' = [boot |-> upDevice.proc, frames |-> <<>>]
    /\ UNCHANGED <<upCheck, upDevice, upPost, upLate, upFaults>>

\* check_start: an old check is replaced, a younger one is returned.
StartCheck ==
    /\ ~upCheck.fresh
    /\ upWorker.version # 0
    /\ upCheck.status = "none"    \* bound: one check is enough
    /\ upCheck' = [status |-> "queued", fresh |-> TRUE]
    /\ UNCHANGED <<upWorker, upCall, upStream, upDevice, upPost, upLate, upFaults>>

\* Thirty seconds go by.
CheckAges ==
    /\ upCheck.fresh
    /\ upCheck' = [upCheck EXCEPT !.fresh = FALSE]
    /\ UNCHANGED <<upWorker, upCall, upStream, upDevice, upPost, upLate, upFaults>>

\* check_result of a delivered check; the device may also never report.
FinishCheck ==
    /\ upCheck.status = "delivered" /\ upCheck.fresh
    /\ upCheck' = [upCheck EXCEPT !.status = "completed"]
    /\ UNCHANGED <<upWorker, upCall, upStream, upDevice, upPost, upLate, upFaults>>

Serving == upStream.boot # 0 /\ upStream.boot = upWorker.boot
UpRoom == Len(upStream.frames) < MaxUpFrames
UpEmit(frame) == upStream' = [upStream EXCEPT !.frames = Append(@, frame)]

\* Mutant: a check that was delivered blocks the upgrade whatever its age.
DrainedForever == UpDelivered = {} /\ upCheck.status # "delivered"

\* The drain of ready_upgrade.
Drained == UpDelivered = {} /\ ~(upCheck.status = "delivered" /\ upCheck.fresh)

\* ready_upgrade: the event goes out at every pass until the status moves on.
SendUpgrade ==
    /\ Serving /\ UpRoom
    /\ UpActive /\ Drained
    /\ UpEmit([upgrade |-> upWorker.id])
    /\ UNCHANGED <<upWorker, upCall, upCheck, upDevice, upPost, upLate, upFaults>>

\* claim_check: diagnostics go before calls, and not during an upgrade.
ClaimCheck ==
    /\ Serving /\ ~UpActive
    /\ upCheck.status = "queued" /\ upCheck.fresh
    /\ upCheck' = [upCheck EXCEPT !.status = "delivered"]
    /\ UNCHANGED <<upWorker, upCall, upStream, upDevice, upPost, upLate, upFaults>>

\* claim: no call is handed out during an upgrade.
UpClaim(c) ==
    /\ Serving /\ UpRoom
    /\ ~UpActive
    /\ ~(upCheck.status = "queued" /\ upCheck.fresh)
    /\ upCall[c] = "queued"
    /\ upCall' = [upCall EXCEPT ![c] = "delivered"]
    /\ UpEmit([call |-> c])
    /\ UNCHANGED <<upWorker, upCheck, upDevice, upPost, upLate, upFaults>>

\* replay: a call the device did not acknowledge is sent again.
UpReplay(c) ==
    /\ Serving /\ UpRoom
    /\ upCall[c] = "delivered" /\ c \notin upDevice.running /\ ~InFlight(c)
    /\ UpEmit([call |-> c])
    /\ UNCHANGED <<upWorker, upCall, upCheck, upDevice, upPost, upLate, upFaults>>

\* Mutant: a report is taken for whatever upgrade is current.
ReportedAnyId(row, post) ==
    IF post.boot = row.boot /\ row.status \in Upgrading \cup {"failed"}
    THEN [row EXCEPT !.status = post.status] ELSE row

\* upgrade_result.
Reported(row, post) ==
    IF /\ post.boot = row.boot
       /\ post.id = row.id
       /\ row.status \in Upgrading \cup {"failed"}
    THEN [row EXCEPT !.status = post.status]
    ELSE row

\* A report arrives; its answer reaches the device or is lost.
UpgradeResult ==
    /\ upPost # NoPost
    /\ upWorker' = Reported(upWorker, upPost)
    /\ \/ upPost' = NoPost
       \/ upPost' = upPost /\ upWorker' # upWorker
    /\ UNCHANGED <<upCall, upCheck, upStream, upDevice, upLate, upFaults>>

\* A report the device gave up arrives late.
LateResult ==
    /\ \E post \in upLate : upWorker' = Reported(upWorker, post)
    /\ upWorker' # upWorker
    /\ UNCHANGED <<upCall, upCheck, upStream, upDevice, upPost, upLate, upFaults>>

-----------------------------------------------------------------------------
(* The device.                                                             *)

UpTake ==
    /\ upStream.boot = upDevice.proc /\ upStream.frames # <<>>
    /\ upStream' = [upStream EXCEPT !.frames = Tail(@)]
    /\ LET frame == Head(upStream.frames)
       IN  \/ /\ "upgrade" \in DOMAIN frame
              /\ upDevice' = IF frame.upgrade \in upDevice.tried THEN upDevice
                             ELSE [upDevice EXCEPT !.tried = @ \cup {frame.upgrade},
                                                   !.phase = "preparing"]
           \/ /\ "call" \in DOMAIN frame
              /\ upDevice' = [upDevice EXCEPT !.running = @ \cup {frame.call}]
    /\ UNCHANGED <<upWorker, upCall, upCheck, upPost, upLate, upFaults>>

\* A call ends on the device and its result is stored.
UpFinish(c) ==
    /\ c \in upDevice.running
    /\ upDevice' = [upDevice EXCEPT !.running = @ \ {c}]
    /\ upCall' = [upCall EXCEPT ![c] = IF @ = "delivered" THEN "settled" ELSE @]
    /\ UNCHANGED <<upWorker, upCheck, upStream, upPost, upLate, upFaults>>

UpAttempt == CHOOSE id \in upDevice.tried : \A other \in upDevice.tried : other <= id
UpPosting(status) ==
    /\ upPost = NoPost
    /\ upPost' = [boot |-> upDevice.proc, id |-> UpAttempt, status |-> status]

\* Download, checksum or preflight: on an error the process stays in service.
Prepare ==
    /\ upDevice.phase = "preparing"
    /\ \/ UpPosting("installing") /\ upDevice' = [upDevice EXCEPT !.phase = "installing"]
       \/ UpPosting("failed") /\ upDevice' = [upDevice EXCEPT !.phase = "serving"]
    /\ UNCHANGED <<upWorker, upCall, upCheck, upStream, upLate, upFaults>>

\* A new process: the requested version, or the previous one put back.
Restarted(version) ==
    /\ upDevice' = [proc |-> upDevice.proc + 1, version |-> version, running |-> {},
                    phase |-> "serving", tried |-> {}]
    /\ upStream' = [boot |-> 0, frames |-> <<>>]
    /\ upPost' = NoPost

Replace ==
    /\ upDevice.phase = "installing"
    /\ upDevice.running = {} /\ upPost = NoPost
    /\ upDevice.proc + 1 \in UpBoots
    /\ \E version \in {1, Target} : Restarted(version)
    /\ UNCHANGED <<upWorker, upCall, upCheck, upLate, upFaults>>

UpCrash ==
    /\ UpFault
    /\ upDevice.proc + 1 \in UpBoots
    /\ Restarted(upDevice.version)
    /\ UNCHANGED <<upWorker, upCall, upCheck, upLate>>

UpDrop ==
    /\ UpFault
    /\ upStream.boot # 0
    /\ upStream' = [boot |-> 0, frames |-> <<>>]
    /\ UNCHANGED <<upWorker, upCall, upCheck, upDevice, upPost, upLate>>

\* The device gives up a report nobody answered.
Abandon ==
    /\ UpFault
    /\ upPost # NoPost
    /\ upLate' = upLate \cup {upPost}
    /\ upPost' = NoPost
    /\ UNCHANGED <<upWorker, upCall, upCheck, upStream, upDevice>>

UpNext ==
    \/ \E c \in UpCalls : UpQueueCall(c) \/ UpClaim(c) \/ UpReplay(c) \/ UpFinish(c)
    \/ QueueUpgrade \/ UpRegister
    \/ StartCheck \/ CheckAges \/ FinishCheck \/ ClaimCheck
    \/ SendUpgrade \/ UpgradeResult \/ LateResult
    \/ UpTake \/ Prepare \/ Replace \/ UpCrash \/ UpDrop \/ Abandon

\* What the loops of the stream, the device and the clock bring about.
UpSteps ==
    {"register", "send", "take", "prepare", "replace", "report", "age"}
UpStep(step) ==
    \/ step = "register" /\ UpRegister
    \/ step = "send" /\ SendUpgrade
    \/ step = "take" /\ UpTake
    \/ step = "prepare" /\ Prepare
    \/ step = "replace" /\ Replace
    \/ step = "report" /\ UpgradeResult
    \/ step = "age" /\ CheckAges

UpFairness ==
    /\ \A s \in UpSteps : WF_upVars(UpStep(s))
    /\ \A c \in UpCalls : WF_upVars(UpReplay(c)) /\ WF_upVars(UpFinish(c))

UpSpec == UpInit /\ [][UpNext]_upVars /\ UpFairness

-----------------------------------------------------------------------------
(* Properties.                                                             *)

\* No call is at work when the device installs, although calls are claimed and
\* replayed on the same stream as the upgrade, upgrades are requested again,
\* and reports of an earlier upgrade or process arrive late: what is delivered
\* would be lost with the process (ready_upgrade and claim wait for each other).
UpgradeLosesNothing == upDevice.phase # "serving" => UpDelivered = {}

\* Nor do they wait for ever: an upgrade that was requested ends, through a
\* drain, crashes and broken streams, unless the device gave up a report.
UpgradeEnds == []<>(~UpActive \/ upLate # {})

=============================================================================
