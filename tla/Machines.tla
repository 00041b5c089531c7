------------------------------- MODULE Machines -------------------------------
(***************************************************************************)
(* One Ultimate Machine: its schedule, the runs it queues for its Worker,  *)
(* and the repair Thread that is asked to fix what a run reports.          *)
(*                                                                         *)
(* Time is kept as far as the code compares it.  last_run_at is in this    *)
(* second, less than an interval ago, or an interval ago; a run is of this *)
(* second, younger than fifteen minutes, or stale.  The code reads the     *)
(* latest run, by its second and then by a random id, so of the runs that  *)
(* can matter there are two: the latest, and one hidden behind it that     *)
(* shares its second.                                                      *)
(***************************************************************************)
EXTENDS Naturals

VARIABLES
    maMachine,  \* the machines row; `since` is last_run_at seen from now.  The
                \* mark that an offline notice was sent only limits notices
    maRun,      \* its worker_calls
    maWorker,   \* the Worker it is bound to
    maThread,   \* the repair Thread
    maOwed      \* what a request does after its transaction

maVars == <<maMachine, maRun, maWorker, maThread, maOwed>>

MaPending == {"queued", "delivered"}
Slots == {"latest", "hidden"}
Run == [status : {"none", "completed", "failed", "cancelled"} \cup MaPending,
        age : {"now", "recent", "stale"},
        counted : BOOLEAN,    \* created_at <= last_run_at
        ran : BOOLEAN,        \* the device has it
        effects : 0..2]       \* history: messages and notices about it
NoRun == [status |-> "none", age |-> "recent", counted |-> TRUE, ran |-> FALSE, effects |-> 0]

MaTypeOK ==
    /\ maMachine \in [exists : BOOLEAN, enabled : BOOLEAN,
                      since : {"now", "waiting", "due"}]
    /\ maRun \in [Slots -> Run]
    /\ maWorker \in {"online", "offline", "gone"}
    /\ maThread \in {"idle", "running"}
    /\ maOwed \subseteq {"message", "check", "pause"}

\* create, for any Worker there is: the first run does not wait for an interval.
MaInit ==
    /\ maMachine = [exists |-> TRUE, enabled |-> TRUE, since |-> "due"]
    /\ maRun = [s \in Slots |-> NoRun]
    /\ maWorker \in {"online", "offline"}
    /\ maThread = "idle"
    /\ maOwed = {}

Latest == maRun["latest"]
IsPending(run) == run.status \in MaPending
SomePending == \E s \in Slots : IsPending(maRun[s])
Watching == maMachine.exists /\ maMachine.enabled

-----------------------------------------------------------------------------
(* Runs.                                                                   *)

NewRun == [status |-> "queued", age |-> "now", counted |-> maMachine.since = "now",
           ran |-> FALSE, effects |-> 0]

\* enqueue_run.  A run of the same second may sort behind the one before it;
\* two hidden runs are not distinguished.
EnqueueRun(runs) ==
    \/ maRun' = [latest |-> NewRun,
                 hidden |-> IF IsPending(runs["hidden"]) THEN runs["hidden"] ELSE NoRun]
    \/ /\ runs["latest"].status # "none" /\ runs["latest"].age = "now"
       /\ ~IsPending(runs["hidden"])
       /\ maRun' = [runs EXCEPT !["hidden"] = NewRun]

\* The runs no later than last_run_at once it is that of this run, or now.
AllCounted(runs) == [s \in Slots |-> [runs[s] EXCEPT !.counted = TRUE]]

\* Mutant: a run is never too old.
ExpiresNever(run) == FALSE

\* A dispatched run of fifteen minutes is lost.
Expires(run) == IsPending(run) /\ run.age = "stale"

Ended(run) == Expires(run) \/ run.status \in {"failed", "cancelled"}

\* The runs once a lost one is failed.
WithoutExpired ==
    IF Expires(Latest) THEN [maRun EXCEPT !["latest"].status = "failed"] ELSE maRun

\* run_due_machines, a run that could not complete: told once, then retried
\* when it is due.
TellLost ==
    /\ Watching
    /\ Ended(Latest) /\ ~Latest.counted
    /\ maRun' = AllCounted([WithoutExpired EXCEPT !["latest"].effects = @ + 1])
    /\ \E since \in IF Latest.age = "now" THEN {"now"} ELSE {"waiting", "due"} :
          maMachine' = [maMachine EXCEPT !.since = since]
    /\ UNCHANGED <<maWorker, maThread, maOwed>>

\* run_due_machines otherwise.  When the machine is due: a run, or a notice
\* (once per offline episode, told by Linkit only) while its Worker is away.
RunDue ==
    /\ Watching
    /\ ~(Ended(Latest) /\ ~Latest.counted)
    /\ ~IsPending(Latest) \/ Expires(Latest)
    /\ IF maMachine.since = "due" /\ maWorker = "online"
       THEN EnqueueRun(WithoutExpired)
       ELSE maRun' = WithoutExpired
    /\ UNCHANGED <<maMachine, maWorker, maThread, maOwed>>

\* run_now: whatever run is pending refuses it.
RunNow ==
    /\ maMachine.exists
    /\ ~SomePending
    /\ maWorker = "online"
    /\ EnqueueRun(maRun)
    /\ UNCHANGED <<maMachine, maWorker, maThread, maOwed>>

\* run_machine_of_thread, after a turn of the repair Thread that completed.
CheckAfterTurn ==
    /\ "check" \in maOwed
    /\ IF Watching /\ ~SomePending /\ maWorker = "online"
       THEN EnqueueRun(maRun)
       ELSE UNCHANGED maRun
    /\ maOwed' = maOwed \ {"check"}
    /\ UNCHANGED <<maMachine, maWorker, maThread>>

\* The claim of the event stream, or of the eXe driver.
DeliverRun(s) ==
    /\ maRun[s].status = "queued"
    /\ maWorker = "online"
    /\ maRun' = [maRun EXCEPT ![s].status = "delivered", ![s].ran = TRUE]
    /\ UNCHANGED <<maMachine, maWorker, maThread, maOwed>>

\* register: another process of the device fails what the last one held.
DeviceRestarts ==
    /\ \E s \in Slots : maRun[s].status = "delivered"
    /\ maRun' = [s \in Slots |-> IF maRun[s].status = "delivered"
                                 THEN [maRun[s] EXCEPT !.status = "failed"] ELSE maRun[s]]
    /\ UNCHANGED <<maMachine, maWorker, maThread, maOwed>>

\* Mutant: a result is applied to a run declared lost.
SettlesAny(run) == run.ran

\* settle_call_result takes a result for a run that is still expected.
Settles(run) == IsPending(run)

\* settle_call_result of any post of the device: the first one is applied, a
\* later one is only stored.  Exit 0 is silent, another one asks the Thread, a
\* run that could not be made is told on Linkit.
PostResult(s) ==
    /\ maRun[s].ran
    /\ Settles(maRun[s])
    /\ \E outcome \in {"healthy", "broken", "failed"} :
         LET heard == maMachine.exists /\ outcome # "healthy"
             run == [maRun EXCEPT
                        ![s].status = IF outcome = "failed" THEN "failed" ELSE "completed",
                        ![s].effects = IF heard THEN (@ + 1) % 3 ELSE @]
         IN  /\ maRun' = IF maMachine.exists THEN AllCounted(run) ELSE run
             /\ maMachine' = IF maMachine.exists
                             THEN [maMachine EXCEPT !.since = "now"]
                             ELSE maMachine
             /\ maOwed' = IF heard /\ outcome = "broken" THEN maOwed \cup {"message"} ELSE maOwed
    /\ UNCHANGED <<maWorker, maThread>>

-----------------------------------------------------------------------------
(* The repair Thread and the owner.                                        *)

\* apply_effect: a Thread that runs does not get the message.
AskThread ==
    /\ "message" \in maOwed
    /\ maOwed' = maOwed \ {"message"}
    /\ maThread' = "running"
    /\ UNCHANGED <<maMachine, maRun, maWorker>>

Prompt == maThread = "idle" /\ maThread' = "running"
          /\ UNCHANGED <<maMachine, maRun, maWorker, maOwed>>

\* process_request ends: only a turn that completed has the machine check.
EndTurn ==
    /\ maThread = "running"
    /\ maThread' = "idle"
    /\ maOwed' \in {maOwed, maOwed \cup {"check"}}
    /\ UNCHANGED <<maMachine, maRun, maWorker>>

\* update with enabled = false; what is in flight is stopped after it.
Pause ==
    /\ maMachine.exists
    /\ maMachine' = [maMachine EXCEPT !.enabled = FALSE]
    /\ maOwed' = maOwed \cup {"pause"}
    /\ UNCHANGED <<maRun, maWorker, maThread>>

\* cancel_for on the repair Thread: nothing at all when it is not running.
StopInFlight ==
    /\ "pause" \in maOwed
    /\ maOwed' = maOwed \ {"pause"}
    /\ IF maThread = "running"
       THEN /\ maThread' = "idle"
            /\ maRun' = [s \in Slots |-> IF IsPending(maRun[s])
                                         THEN [maRun[s] EXCEPT !.status = "cancelled"]
                                         ELSE maRun[s]]
       ELSE UNCHANGED <<maThread, maRun>>
    /\ UNCHANGED <<maMachine, maWorker>>

Resume ==
    /\ maMachine.exists /\ ~maMachine.enabled
    /\ maMachine' = [maMachine EXCEPT !.enabled = TRUE]
    /\ UNCHANGED <<maRun, maWorker, maThread, maOwed>>

\* update_machine with another Worker.
Rebind ==
    /\ maMachine.exists /\ maWorker # "online"
    /\ maWorker' = "online"
    /\ UNCHANGED <<maMachine, maRun, maThread, maOwed>>

\* delete: the runs and the Thread stay behind.
DeleteMachine ==
    /\ maMachine.exists
    /\ maMachine' = [maMachine EXCEPT !.exists = FALSE]
    /\ UNCHANGED <<maRun, maWorker, maThread, maOwed>>

WorkerComesAndGoes ==
    /\ maWorker # "gone"
    /\ maWorker' \in {"online", "offline", "gone"} \ {maWorker}
    /\ UNCHANGED <<maMachine, maRun, maThread, maOwed>>

\* The second is over.
SecondPasses ==
    /\ maMachine.since = "now" \/ \E s \in Slots : maRun[s].age = "now"
    /\ maMachine' = [maMachine EXCEPT !.since = IF @ = "now" THEN "waiting" ELSE @]
    /\ maRun' = [s \in Slots |-> [maRun[s] EXCEPT !.age = IF @ = "now" THEN "recent" ELSE @]]
    /\ UNCHANGED <<maWorker, maThread, maOwed>>

IntervalPasses ==
    /\ maMachine.since = "waiting"
    /\ maMachine' = [maMachine EXCEPT !.since = "due"]
    /\ UNCHANGED <<maRun, maWorker, maThread, maOwed>>

\* Fifteen minutes; a hidden run is as old as the latest.
RunGrowsStale ==
    /\ IsPending(Latest) /\ Latest.age = "recent"
    /\ maRun' = [s \in Slots |-> IF IsPending(maRun[s]) THEN [maRun[s] EXCEPT !.age = "stale"]
                                 ELSE maRun[s]]
    /\ UNCHANGED <<maMachine, maWorker, maThread, maOwed>>

MaNext ==
    \/ TellLost \/ RunDue \/ RunNow \/ CheckAfterTurn
    \/ \E s \in Slots : DeliverRun(s) \/ PostResult(s)
    \/ DeviceRestarts
    \/ AskThread \/ Prompt \/ EndTurn
    \/ Pause \/ StopInFlight \/ Resume \/ Rebind \/ DeleteMachine
    \/ WorkerComesAndGoes \/ SecondPasses \/ IntervalPasses \/ RunGrowsStale

\* The scheduler looks every thirty seconds, and time passes.
MaTick == TellLost \/ RunDue
MaTime == SecondPasses \/ IntervalPasses \/ RunGrowsStale
MaFairness == WF_maVars(MaTick) /\ WF_maVars(MaTime)

MaSpec == MaInit /\ [][MaNext]_maVars /\ MaFairness

-----------------------------------------------------------------------------
(* Properties.                                                             *)

\* A run is reported once: the scheduler that declares it lost, the device's
\* late or repeated result and the next tick do not tell the owner or ask the
\* Thread again.
OneEffectPerRun == \A s \in Slots : maRun[s].effects <= 1

Unwatched == ~Watching \/ maWorker # "online"

\* A machine that stays enabled with its Worker online is run again and again:
\* no lost device, killed command or dropped message leaves a run pending for
\* ever or the schedule waiting for it.
KeepsWatching ==
    /\ []<>(Unwatched \/ IsPending(Latest))
    /\ []<>(Unwatched \/ ~IsPending(Latest))

=============================================================================
