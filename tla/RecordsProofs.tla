---------------------------- MODULE RecordsProofs -----------------------------
(***************************************************************************)
(* Proofs about what the Controller does on its own schedule: the watch    *)
(* over Ultimate Machines, the pages of the shared Threads and the patrol  *)
(* of the usage statistics.                                                *)
(***************************************************************************)
EXTENDS MCRecords, TLAPS, FiniteSetTheorems, WellFoundedInduction

-----------------------------------------------------------------------------
(* Ultimate Machines.                                                      *)
(*                                                                         *)
(* A run is told at most once because whoever tells it also takes it out   *)
(* of reach of the others: the device's result is taken of a pending run   *)
(* only and settles it, the scheduler tells a lost run only while no later *)
(* run of the machine counts it, and telling counts it.                    *)

\* A run that can still be told was not told.
RunOK(run) ==
    /\ run \in Run
    /\ IsPending(run) => run.effects = 0
    /\ run.status \in {"failed", "cancelled"} /\ ~run.counted => run.effects = 0
    /\ run.effects <= 1

MachineInv == MaTypeOK /\ \A s \in Slots : RunOK(maRun[s])

\* What becomes of one run.
LEMMA RunIsNew ==
    ASSUME MaTypeOK PROVE RunOK(NewRun)
BY DEF MaTypeOK, RunOK, NewRun, Run, IsPending, MaPending

LEMMA RunIsNone == RunOK(NoRun)
BY DEF RunOK, NoRun, Run, IsPending, MaPending

LEMMA RunIsCounted ==
    ASSUME NEW run, RunOK(run) PROVE RunOK([run EXCEPT !.counted = TRUE])
BY DEF RunOK, Run, IsPending, MaPending

\* A run that is given up was not told.
LEMMA RunIsGivenUp ==
    ASSUME NEW run, RunOK(run), IsPending(run), NEW st \in {"failed", "cancelled"}
    PROVE  RunOK([run EXCEPT !.status = st])
BY DEF RunOK, Run, IsPending, MaPending

LEMMA RunIsDelivered ==
    ASSUME NEW run, RunOK(run), run.status = "queued"
    PROVE  RunOK([run EXCEPT !.status = "delivered", !.ran = TRUE])
BY DEF RunOK, Run, IsPending, MaPending

LEMMA RunAges ==
    ASSUME NEW run, RunOK(run), NEW age \in {"now", "recent", "stale"}
    PROVE  RunOK([run EXCEPT !.age = age])
BY DEF RunOK, Run, IsPending, MaPending

\* The scheduler tells a lost run that nothing counts.
LEMMA RunIsTold ==
    ASSUME NEW run, RunOK(run), ~run.counted, run.status \in {"failed", "cancelled"}
    PROVE  RunOK([[run EXCEPT !.effects = @ + 1] EXCEPT !.counted = TRUE])
<1>1. run \in Run /\ run.effects = 0
  BY DEF RunOK
<1> DEFINE told == [run EXCEPT !.effects = 0 + 1]
<1>2. /\ told \in Run /\ told.effects = 1
      /\ told.status = run.status
  BY <1>1 DEF Run
<1> HIDE DEF told
<1>3. [told EXCEPT !.counted = TRUE] \in Run
  BY <1>2 DEF Run
<1>4. RunOK([told EXCEPT !.counted = TRUE])
  BY <1>2, <1>3 DEF RunOK, Run, IsPending, MaPending
<1> QED
  BY <1>1, <1>4 DEF told

\* A result settles a pending run; of a machine that is gone nobody hears.
LEMMA RunIsAnswered ==
    ASSUME NEW run, RunOK(run), IsPending(run),
           NEW st \in {"completed", "failed"}, NEW heard \in BOOLEAN, NEW exists \in BOOLEAN,
           heard => exists
    PROVE  LET answered == [run EXCEPT !.status = st,
                                       !.effects = IF heard THEN (@ + 1) % 3 ELSE @]
           IN  RunOK(IF exists THEN [answered EXCEPT !.counted = TRUE] ELSE answered)
<1>1. run \in Run /\ run.effects = 0
  BY DEF RunOK
<1>2. (0 + 1) % 3 = 1
  OBVIOUS
<1>3. RunOK([run EXCEPT !.status = st, !.effects = 0])
  BY <1>1 DEF RunOK, Run, IsPending, MaPending
<1> DEFINE ended == [run EXCEPT !.status = st]
           told == [ended EXCEPT !.effects = 1]
<1>4. RunOK([told EXCEPT !.counted = TRUE])
  <2>1. ended \in Run /\ ended.status = st
    BY <1>1 DEF Run
  <2> HIDE DEF ended
  <2>2. told \in Run /\ told.effects = 1 /\ told.status = st
    BY <2>1 DEF Run
  <2> HIDE DEF told
  <2>3. [told EXCEPT !.counted = TRUE] \in Run
    BY <2>2 DEF Run
  <2> QED
    BY <2>2, <2>3 DEF RunOK, Run, IsPending, MaPending
<1>5. CASE heard
  BY <1>1, <1>2, <1>4, <1>5 DEF told
<1>6. CASE ~heard
  <2>1. [run EXCEPT !.status = st, !.effects = run.effects]
          = [run EXCEPT !.status = st, !.effects = 0]
    BY <1>1
  <2> QED
    BY <1>3, <1>6, <2>1, RunIsCounted
<1> QED
  BY <1>5, <1>6

\* The runs, together.
LEMMA RunsWithoutExpired ==
    ASSUME MachineInv
    PROVE  /\ WithoutExpired \in [Slots -> Run]
           /\ \A s \in Slots : RunOK(WithoutExpired[s])
<1>1. maRun \in [Slots -> Run] /\ "latest" \in Slots /\ \A s \in Slots : RunOK(maRun[s])
  BY DEF MachineInv, MaTypeOK, Slots
<1>2. CASE Expires(Latest)
  <2>1. RunOK([Latest EXCEPT !.status = "failed"])
    BY <1>1, <1>2, RunIsGivenUp DEF Expires, Latest
  <2>2. WithoutExpired = [maRun EXCEPT !["latest"] = [Latest EXCEPT !.status = "failed"]]
    BY <1>2 DEF WithoutExpired, Latest
  <2> QED
    BY <1>1, <2>1, <2>2 DEF RunOK
<1>3. CASE ~Expires(Latest)
  BY <1>1, <1>3 DEF WithoutExpired
<1> QED
  BY <1>2, <1>3

LEMMA RunsEnqueued ==
    ASSUME MachineInv, NEW runs \in [Slots -> Run], \A s \in Slots : RunOK(runs[s]),
           EnqueueRun(runs)
    PROVE  maRun' \in [Slots -> Run] /\ \A s \in Slots : RunOK(maRun[s])'
<1>1. RunOK(NewRun) /\ RunOK(NoRun)
  BY RunIsNew, RunIsNone DEF MachineInv
<1>2. PICK hidden, latest :
          /\ maRun' = [s \in Slots |-> IF s = "latest" THEN latest ELSE hidden]
          /\ RunOK(hidden) /\ RunOK(latest)
  <2>1. CASE maRun' = [latest |-> NewRun, hidden |-> IF IsPending(runs["hidden"])
                                                     THEN runs["hidden"] ELSE NoRun]
    <3>1. maRun' = [s \in Slots |-> IF s = "latest" THEN NewRun
                        ELSE IF IsPending(runs["hidden"]) THEN runs["hidden"] ELSE NoRun]
      BY <2>1 DEF Slots
    <3> QED
      BY <1>1, <3>1 DEF Slots
  <2>2. CASE maRun' = [runs EXCEPT !["hidden"] = NewRun]
    <3>1. maRun' = [s \in Slots |-> IF s = "latest" THEN runs["latest"] ELSE NewRun]
      BY <2>2 DEF Slots
    <3> QED
      BY <1>1, <3>1 DEF Slots
  <2> QED
    BY <2>1, <2>2 DEF EnqueueRun
<1> QED
  BY <1>2 DEF RunOK

\* Who writes no run and keeps the machine's row well formed breaks nothing.
LEMMA RunsAlone ==
    ASSUME MachineInv, UNCHANGED maRun, MaTypeOK'
    PROVE  MachineInv'
BY DEF MachineInv, RunOK, IsPending

LEMMA MachineInit == MaInit => MachineInv
BY RunIsNone DEF MaInit, MachineInv, MaTypeOK, RunOK, Slots

\* One step of whoever writes runs.
LEMMA RunsStay ==
    ASSUME MachineInv,
           \/ TellLost \/ RunDue \/ RunNow \/ CheckAfterTurn
           \/ \E s \in Slots : DeliverRun(s) \/ PostResult(s)
           \/ DeviceRestarts \/ StopInFlight \/ SecondPasses \/ RunGrowsStale
    PROVE  maRun' \in [Slots -> Run] /\ \A s \in Slots : RunOK(maRun[s])'
<1> DEFINE Goal == maRun' \in [Slots -> Run] /\ \A s \in Slots : RunOK(maRun[s])'
<1> SUFFICES Goal
  OBVIOUS
<1>0. /\ maRun \in [Slots -> Run] /\ "latest" \in Slots /\ "hidden" \in Slots
      /\ \A s \in Slots : RunOK(maRun[s])
  BY DEF MachineInv, MaTypeOK, Slots
<1>each. ASSUME NEW f, maRun' = [s \in Slots |-> f[s]], \A s \in Slots : RunOK(f[s])
         PROVE  Goal
  BY <1>each DEF RunOK
<1>one. ASSUME NEW s \in Slots, NEW run, maRun' = [maRun EXCEPT ![s] = run], RunOK(run)
        PROVE  Goal
  BY <1>0, <1>one DEF RunOK
<1>old. ASSUME UNCHANGED maRun PROVE Goal
  BY <1>0, <1>old DEF RunOK, IsPending
<1>1. CASE TellLost
  <2> DEFINE told == [WithoutExpired EXCEPT !["latest"].effects = @ + 1]
             f == AllCounted(told)
  <2>1. maRun' = f
    BY <1>1 DEF TellLost
  <2>2. /\ WithoutExpired \in [Slots -> Run]
        /\ \A s \in Slots : RunOK(WithoutExpired[s])
    BY RunsWithoutExpired
  <2>3. /\ ~WithoutExpired["latest"].counted
        /\ WithoutExpired["latest"].status \in {"failed", "cancelled"}
    <3>1. Ended(Latest) /\ ~Latest.counted
      BY <1>1 DEF TellLost
    <3>2. CASE Expires(Latest)
      <4>1. WithoutExpired["latest"] = [Latest EXCEPT !.status = "failed"]
        BY <1>0, <3>2 DEF WithoutExpired, Latest
      <4> QED
        BY <1>0, <3>1, <4>1 DEF Latest, Run
    <3>3. CASE ~Expires(Latest)
      BY <3>1, <3>3 DEF WithoutExpired, Latest, Ended
    <3> QED
      BY <3>2, <3>3
  <2>4. \A s \in Slots : RunOK(f[s])
    <3>1. f["latest"] = [[WithoutExpired["latest"] EXCEPT !.effects = @ + 1]
                            EXCEPT !.counted = TRUE]
      BY <1>0, <2>2 DEF AllCounted
    <3>2. f["hidden"] = [WithoutExpired["hidden"] EXCEPT !.counted = TRUE]
      BY <1>0, <2>2 DEF AllCounted
    <3> HIDE DEF f
    <3>3. RunOK(f["latest"])
      BY <1>0, <2>2, <2>3, <3>1, RunIsTold
    <3>4. RunOK(f["hidden"])
      BY <1>0, <2>2, <3>2, RunIsCounted
    <3> QED
      BY <3>3, <3>4 DEF Slots
  <2>5. maRun' = [s \in Slots |-> f[s]]
    BY <2>1 DEF AllCounted
  <2> HIDE DEF f
  <2> QED
    BY <1>each, <2>4, <2>5
<1>2. CASE RunDue
  <2>1. EnqueueRun(WithoutExpired) \/ maRun' = WithoutExpired
    BY <1>2 DEF RunDue
  <2> QED
    BY <2>1, RunsWithoutExpired, RunsEnqueued DEF RunOK
<1>3. CASE RunNow
  BY <1>0, <1>3, RunsEnqueued DEF RunNow
<1>4. CASE CheckAfterTurn
  <2>1. EnqueueRun(maRun) \/ UNCHANGED maRun
    BY <1>4 DEF CheckAfterTurn
  <2> QED
    BY <1>0, <1>old, <2>1, RunsEnqueued
<1>5. ASSUME NEW s \in Slots, DeliverRun(s)
      PROVE  Goal
  <2> DEFINE run == [maRun[s] EXCEPT !.status = "delivered", !.ran = TRUE]
  <2>1. RunOK(run)
    BY <1>0, <1>5, RunIsDelivered DEF DeliverRun
  <2>2. maRun' = [maRun EXCEPT ![s] = run]
    BY <1>0, <1>5 DEF DeliverRun
  <2> HIDE DEF run, Goal
  <2> QED
    BY <1>one, <2>1, <2>2
<1>6. ASSUME NEW s \in Slots, PostResult(s)
      PROVE  Goal
  <2>1. IsPending(maRun[s])
    BY <1>6 DEF PostResult, Settles
  <2>2. PICK outcome \in {"healthy", "broken", "failed"} :
           LET heard == maMachine.exists /\ outcome # "healthy"
               run == [maRun EXCEPT
                          ![s].status = IF outcome = "failed" THEN "failed" ELSE "completed",
                          ![s].effects = IF heard THEN (@ + 1) % 3 ELSE @]
           IN  maRun' = IF maMachine.exists THEN AllCounted(run) ELSE run
    BY <1>6 DEF PostResult
  <2> DEFINE st == IF outcome = "failed" THEN "failed" ELSE "completed"
             heard == maMachine.exists /\ outcome # "healthy"
             answered == [maRun[s] EXCEPT !.status = st,
                                          !.effects = IF heard THEN (@ + 1) % 3 ELSE @]
             runs == [maRun EXCEPT ![s] = answered]
             f == IF maMachine.exists THEN AllCounted(runs) ELSE runs
  <2>3. maRun' = f
    BY <1>0, <2>2
  <2>4. maMachine.exists \in BOOLEAN
    BY DEF MachineInv, MaTypeOK
  <2>5. RunOK(IF maMachine.exists THEN [answered EXCEPT !.counted = TRUE] ELSE answered)
    BY <1>0, <2>1, <2>4, RunIsAnswered
  <2> HIDE DEF answered
  <2>6. /\ f \in [Slots -> {f[u] : u \in Slots}]
        /\ f[s] = IF maMachine.exists THEN [answered EXCEPT !.counted = TRUE] ELSE answered
        /\ \A u \in Slots \ {s} : f[u] = IF maMachine.exists
                                         THEN [maRun[u] EXCEPT !.counted = TRUE] ELSE maRun[u]
    BY <1>0 DEF AllCounted
  <2> HIDE DEF f
  <2>7. \A u \in Slots : RunOK(f[u])
    <3> SUFFICES ASSUME NEW u \in Slots, u # s
                 PROVE  RunOK(f[u])
      BY <2>5, <2>6
    <3>1. RunOK([maRun[u] EXCEPT !.counted = TRUE])
      BY <1>0, RunIsCounted
    <3> QED
      BY <1>0, <2>6, <3>1
  <2>8. maRun' = [u \in Slots |-> f[u]]
    BY <2>3, <2>6
  <2> QED
    BY <1>each, <2>7, <2>8
<1>7. CASE DeviceRestarts
  <2> DEFINE f == [s \in Slots |-> IF maRun[s].status = "delivered"
                                   THEN [maRun[s] EXCEPT !.status = "failed"] ELSE maRun[s]]
  <2>1. maRun' = [s \in Slots |-> f[s]]
    BY <1>7 DEF DeviceRestarts
  <2>2. ASSUME NEW s \in Slots
        PROVE  RunOK(f[s])
    <3>1. maRun[s].status = "delivered" => RunOK([maRun[s] EXCEPT !.status = "failed"])
      BY <1>0, RunIsGivenUp DEF IsPending, MaPending
    <3> QED
      BY <1>0, <3>1
  <2> HIDE DEF f
  <2> QED
    BY <1>each, <2>1, <2>2
<1>8. CASE StopInFlight
  <2>1. CASE maThread # "running"
    BY <1>8, <2>1, <1>old DEF StopInFlight
  <2>2. CASE maThread = "running"
    <3> DEFINE f == [s \in Slots |-> IF IsPending(maRun[s])
                                     THEN [maRun[s] EXCEPT !.status = "cancelled"]
                                     ELSE maRun[s]]
    <3>1. maRun' = [s \in Slots |-> f[s]]
      BY <1>8, <2>2 DEF StopInFlight
    <3>2. ASSUME NEW s \in Slots
          PROVE  RunOK(f[s])
      <4>1. IsPending(maRun[s]) => RunOK([maRun[s] EXCEPT !.status = "cancelled"])
        BY <1>0, RunIsGivenUp
      <4> QED
        BY <1>0, <4>1
    <3> HIDE DEF f
    <3> QED
      BY <1>each, <3>1, <3>2
  <2> QED
    BY <2>1, <2>2
<1>9. CASE SecondPasses
  <2> DEFINE Age(run) == IF run.age = "now" THEN "recent" ELSE run.age
             f == [s \in Slots |-> [maRun[s] EXCEPT !.age = Age(maRun[s])]]
  <2>1. maRun' = [s \in Slots |-> f[s]]
    BY <1>9 DEF SecondPasses
  <2>2. ASSUME NEW s \in Slots
        PROVE  RunOK(f[s])
    <3>1. Age(maRun[s]) \in {"now", "recent", "stale"}
      BY <1>0 DEF Run
    <3> QED
      BY <1>0, <3>1, RunAges
  <2> HIDE DEF f
  <2> QED
    BY <1>each, <2>1, <2>2
<1>10. CASE RunGrowsStale
  <2> DEFINE f == [s \in Slots |-> IF IsPending(maRun[s])
                                   THEN [maRun[s] EXCEPT !.age = "stale"] ELSE maRun[s]]
  <2>1. maRun' = [s \in Slots |-> f[s]]
    BY <1>10 DEF RunGrowsStale
  <2>2. ASSUME NEW s \in Slots
        PROVE  RunOK(f[s])
    BY <1>0, RunAges
  <2> HIDE DEF f
  <2> QED
    BY <1>each, <2>1, <2>2
<1> HIDE DEF Goal
<1> QED
  BY <1>1, <1>2, <1>3, <1>4, <1>5, <1>6, <1>7, <1>8, <1>9, <1>10

LEMMA MachineStep == MachineInv /\ [MaNext]_maVars => MachineInv'
<1> SUFFICES ASSUME MachineInv, [MaNext]_maVars
             PROVE  MachineInv'
  OBVIOUS
<1> DEFINE Writes == \/ TellLost \/ RunDue \/ RunNow \/ CheckAfterTurn
                     \/ \E s \in Slots : DeliverRun(s) \/ PostResult(s)
                     \/ DeviceRestarts \/ StopInFlight \/ SecondPasses \/ RunGrowsStale
           Others == \/ AskThread \/ Prompt \/ EndTurn \/ Pause \/ Resume \/ Rebind
                     \/ DeleteMachine \/ WorkerComesAndGoes \/ IntervalPasses
                     \/ UNCHANGED maVars
<1>1. Writes \/ Others
  BY Zenon DEF MaNext
<1>0. MaTypeOK
  BY DEF MachineInv
<1>2. CASE Others
  <2>1. UNCHANGED maRun
    BY <1>2 DEF AskThread, Prompt, EndTurn, Pause, Resume, Rebind, DeleteMachine,
                WorkerComesAndGoes, IntervalPasses, maVars
  <2>2. MaTypeOK'
    BY <1>0, <1>2, <2>1 DEF MaTypeOK, AskThread, Prompt, EndTurn, Pause, Resume, Rebind,
                DeleteMachine, WorkerComesAndGoes, IntervalPasses, maVars
  <2> QED
    BY <2>1, <2>2, RunsAlone
<1>3. CASE Writes
  <2>1. maRun' \in [Slots -> Run] /\ \A s \in Slots : RunOK(maRun[s])'
    BY <1>3, RunsStay
  <2>2. /\ maMachine' \in [exists : BOOLEAN, enabled : BOOLEAN,
                            since : {"now", "waiting", "due"}]
        /\ maWorker' \in {"online", "offline", "gone"}
        /\ maThread' \in {"idle", "running"}
        /\ maOwed' \subseteq {"message", "check", "pause"}
    BY <1>0, <1>3 DEF MaTypeOK, TellLost, RunDue, RunNow, CheckAfterTurn, DeliverRun,
                PostResult, DeviceRestarts, StopInFlight, SecondPasses, RunGrowsStale
  <2> QED
    BY <2>1, <2>2 DEF MachineInv, MaTypeOK
<1> HIDE DEF Writes, Others
<1> QED
  BY <1>1, <1>2, <1>3

\* Every variable of an Ultimate Machine keeps its type.
THEOREM MachineTypes == MaSpec => []MaTypeOK
<1>1. MachineInv => MaTypeOK
  BY DEF MachineInv
<1> QED
  BY <1>1, MachineInit, MachineStep, PTL DEF MaSpec

\* A run is reported once: the scheduler that declares it lost
\* (run_due_machines), the device's late or repeated result
\* (settle_call_result), a stop and the next tick never tell the owner or ask
\* the repair Thread about it again.
THEOREM RunsAreToldOnce == MaSpec => []OneEffectPerRun
<1>1. MachineInv => OneEffectPerRun
  BY DEF MachineInv, OneEffectPerRun, RunOK
<1> QED
  BY <1>1, MachineInit, MachineStep, PTL DEF MaSpec

-----------------------------------------------------------------------------
(* The pages of the shared Threads.                                        *)
(*                                                                         *)
(* The key of the list orders its entries totally, so that a page that is  *)
(* not the whole rest of the list ends with one entry, and what is not on  *)
(* it comes after that entry: the rest of the list as the next page sees   *)
(* it.  An entry a reader must find is thus shown, on the page, or in the  *)
(* rest after the cursor.                                                  *)

NatLess == {p \in Nat \X Nat : p[1] < p[2]}

\* A set of natural numbers has a least element.
LEMMA LeastNatural ==
    ASSUME NEW T, T \subseteq Nat, T # {}
    PROVE  \E m \in T : \A n \in T : m <= n
<1>1. IsWellFoundedOn(NatLess, Nat)
  BY NatLessThanWellFounded DEF OpToRel, NatLess
<1>2. PICK m \in T : \A n \in T : ~(<<n, m>> \in NatLess)
  BY <1>1, WFMin
<1>3. ASSUME NEW n \in T
      PROVE  m <= n
  <2>1. m \in Nat /\ n \in Nat
    OBVIOUS
  <2>2. <<n, m>> \notin NatLess
    BY <1>2
  <2>3. ~(n < m)
    BY <2>1, <2>2 DEF NatLess
  <2> QED
    BY <2>1, <2>3
<1> QED
  BY <1>3

SteadyInv ==
    \A t \in tsPage.steady :
        \/ t \in tsPage.shown \/ t \in tsPage.rows
        \/ tsPage.open /\ t \in Rest(tsPage.cursor)

PageInv == TsTypeOK /\ SteadyInv

LEMMA SharedAt ==
    ASSUME TsTypeOK, NEW t \in TsThreads
    PROVE  t \in Nat \ {0} /\ tsSeen[t].row.at \in Nat /\ tsSeen[t].row.at <= MaxClock
BY ThreadSharingAssumption DEF TsTypeOK, Row, Clock

\* Who is ahead of another entry has fewer entries ahead.
LEMMA AheadNested ==
    ASSUME TsTypeOK, NEW cursor, NEW t \in Rest(cursor), NEW u \in Ahead(t, cursor)
    PROVE  /\ Ahead(u, cursor) \subseteq Ahead(t, cursor)
           /\ u # t => t \notin Ahead(u, cursor)
           /\ u \in Rest(cursor)
<1>1. Rest(cursor) \subseteq TsThreads /\ u \in Rest(cursor)
  BY DEF Rest, Listed, Ahead
<1>2. \A v \in Rest(cursor) :
          v \in Nat /\ tsSeen[v].row.at \in Nat
  BY <1>1, SharedAt
<1>3. u # t => t \notin Ahead(u, cursor)
  BY <1>1, <1>2 DEF Ahead, Before, CursorOf
<1>4. ASSUME NEW v \in Ahead(u, cursor)
      PROVE  v \in Ahead(t, cursor)
  <2>1. v \in Rest(cursor)
    BY DEF Ahead
  <2> QED
    BY <1>1, <1>2, <1>4, <2>1 DEF Ahead, Before, CursorOf
<1> QED
  BY <1>1, <1>3, <1>4

LEMMA AheadFinite ==
    ASSUME NEW t, NEW cursor
    PROVE  /\ IsFiniteSet(Ahead(t, cursor)) /\ Cardinality(Ahead(t, cursor)) \in Nat
           /\ Ahead(t, cursor) \subseteq TsThreads
<1>1. Ahead(t, cursor) \in SUBSET TsThreads
  BY DEF Ahead, Rest, Listed
<1>2. IsFiniteSet(Ahead(t, cursor))
  BY <1>1, ThreadSharingAssumption, FS_Subset
<1> QED
  BY <1>1, <1>2, FS_CardinalityType

\* ... strictly fewer, as they are finitely many.
LEMMA AheadFewer ==
    ASSUME TsTypeOK, NEW cursor, NEW t \in Rest(cursor), NEW u \in Ahead(t, cursor)
    PROVE  /\ Cardinality(Ahead(u, cursor)) <= Cardinality(Ahead(t, cursor))
           /\ u # t => Cardinality(Ahead(u, cursor)) < Cardinality(Ahead(t, cursor))
<1>1. Ahead(u, cursor) \in SUBSET Ahead(t, cursor)
  BY AheadNested
<1>2. t \in Ahead(t, cursor)
  BY DEF Ahead
<1>3. u # t => Ahead(u, cursor) # Ahead(t, cursor)
  BY <1>2, AheadNested
<1>4. /\ IsFiniteSet(Ahead(t, cursor))
      /\ Cardinality(Ahead(t, cursor)) \in Nat /\ Cardinality(Ahead(u, cursor)) \in Nat
  BY AheadFinite
<1>5. /\ Cardinality(Ahead(u, cursor)) <= Cardinality(Ahead(t, cursor))
      /\ Cardinality(Ahead(t, cursor)) = Cardinality(Ahead(u, cursor))
            => Ahead(t, cursor) = Ahead(u, cursor)
  BY <1>1, <1>4, FS_Subset
<1> QED
  BY <1>3, <1>4, <1>5

Page(cursor) == {t \in Rest(cursor) : Cardinality(Ahead(t, cursor)) <= PageLimit}

\* A page that is not the rest of the list has entries,
LEMMA PageNotEmpty ==
    ASSUME TsTypeOK, NEW cursor, Page(cursor) # Rest(cursor)
    PROVE  Page(cursor) # {}
<1> DEFINE sizes == {Cardinality(Ahead(t, cursor)) : t \in Rest(cursor)}
<1>1. sizes \subseteq Nat /\ sizes # {}
  BY AheadFinite DEF Page
<1>2. PICK m \in sizes : \A n \in sizes : m <= n
  BY <1>1, LeastNatural
<1>3. PICK t \in Rest(cursor) : m = Cardinality(Ahead(t, cursor))
  OBVIOUS
<1>4. ASSUME NEW u \in Ahead(t, cursor), u # t
      PROVE  FALSE
  <2>1. u \in Rest(cursor) /\ Cardinality(Ahead(u, cursor)) < Cardinality(Ahead(t, cursor))
    BY <1>4, AheadNested, AheadFewer
  <2>2. Cardinality(Ahead(t, cursor)) <= Cardinality(Ahead(u, cursor))
    BY <1>2, <1>3, <2>1
  <2> QED
    BY <2>1, <2>2, AheadFinite
<1>5. Ahead(t, cursor) = {t}
  BY <1>4 DEF Ahead
<1>6. Cardinality({t}) = 1
  BY FS_Singleton
<1>7. t \in Page(cursor)
  BY <1>5, <1>6, ThreadSharingAssumption DEF Page
<1> QED
  BY <1>7

\* ... and a last one: the entries ahead of it are the page.
LEMMA PageEnds ==
    ASSUME TsTypeOK, NEW cursor, Page(cursor) # Rest(cursor)
    PROVE  \E t \in Page(cursor) : Ahead(t, cursor) = Page(cursor)
<1> DEFINE left == {PageLimit - Cardinality(Ahead(t, cursor)) : t \in Page(cursor)}
<1>1. left \subseteq Nat /\ left # {}
  BY AheadFinite, PageNotEmpty, ThreadSharingAssumption DEF Page
<1>2. PICK m \in left : \A n \in left : m <= n
  BY <1>1, LeastNatural
<1>3. PICK t \in Page(cursor) : m = PageLimit - Cardinality(Ahead(t, cursor))
  OBVIOUS
<1>4. t \in Rest(cursor) /\ Cardinality(Ahead(t, cursor)) <= PageLimit
  BY DEF Page
<1>5. ASSUME NEW u \in Ahead(t, cursor)
      PROVE  u \in Page(cursor)
  <2>1. u \in Rest(cursor) /\ Cardinality(Ahead(u, cursor)) <= Cardinality(Ahead(t, cursor))
    BY <1>4, AheadNested, AheadFewer
  <2> QED
    BY <1>4, <2>1, AheadFinite, ThreadSharingAssumption DEF Page
<1>6. ASSUME NEW u \in Page(cursor), u \notin Ahead(t, cursor)
      PROVE  FALSE
  <2>1. u \in Rest(cursor)
    BY DEF Page
  <2>2. u \in TsThreads /\ t \in TsThreads
    BY <1>4, <2>1 DEF Rest, Listed
  <2>3. /\ u \in Nat /\ t \in Nat
        /\ tsSeen[u].row.at \in Nat /\ tsSeen[t].row.at \in Nat
    BY <2>2, SharedAt
  <2>4. t \in Ahead(u, cursor) /\ t # u
    BY <1>4, <1>6, <2>1, <2>3 DEF Ahead, Before, CursorOf
  <2>5. Cardinality(Ahead(t, cursor)) < Cardinality(Ahead(u, cursor))
    BY <2>1, <2>4, AheadFewer
  <2>6. m <= PageLimit - Cardinality(Ahead(u, cursor))
    BY <1>2, <1>6
  <2>7. /\ Cardinality(Ahead(t, cursor)) \in Nat /\ Cardinality(Ahead(u, cursor)) \in Nat
        /\ PageLimit \in Nat
    BY AheadFinite, ThreadSharingAssumption
  <2> QED
    BY <1>3, <2>5, <2>6, <2>7
<1> QED
  BY <1>5, <1>6

\* What a page leaves is after its last entry.
LEMMA RestAfter ==
    ASSUME NEW cursor, NEW t \in Page(cursor), Ahead(t, cursor) = Page(cursor),
           NEW u \in Rest(cursor), u \notin Page(cursor)
    PROVE  u \in Rest(CursorOf(t))
BY DEF Rest, Ahead

LEMMA RestFromTheTop ==
    ASSUME TsTypeOK PROVE Rest(NoCursor) = Listed
<1> SUFFICES ASSUME NEW t \in Listed
             PROVE  Before(t, NoCursor)
  BY DEF Rest
<1>1. tsSeen[t].row.at \in Nat /\ tsSeen[t].row.at <= MaxClock
  BY SharedAt DEF Listed
<1> QED
  BY <1>1, ThreadSharingAssumption DEF Before, NoCursor

LEMMA PageInit == TsInit => PageInv
BY ThreadSharingAssumption
   DEF TsInit, PageInv, SteadyInv, TsTypeOK, Row, NoRow, NoCursor, TsRevisions, Clock

PageType == [open : BOOLEAN,
             cursor : [at : 0..(MaxClock + 1), thread : TsThreads \cup {0}],
             rows : SUBSET TsThreads, shown : SUBSET TsThreads, steady : SUBSET TsThreads]
SeenType == [TsThreads -> [row : Row, hidden : BOOLEAN]]

\* A row that changes is no longer one that the reader must find.
LEMMA SeenKeeps ==
    ASSUME PageInv, NEW seen \in SeenType, Seen(seen)
    PROVE  tsSeen' \in SeenType /\ tsPage' \in PageType /\ SteadyInv'
<1>1. tsPage \in PageType
  BY DEF PageInv, TsTypeOK, PageType
<1>2. tsSeen' = seen /\ tsPage' = [tsPage EXCEPT !.steady = Steady(seen)]
  BY DEF Seen
<1>3. Steady(seen) \subseteq tsPage.steady /\ tsPage.steady \subseteq TsThreads
  BY <1>1 DEF Steady, PageType
<1>4. /\ tsPage' \in PageType
      /\ tsPage'.open = tsPage.open /\ tsPage'.cursor = tsPage.cursor
      /\ tsPage'.rows = tsPage.rows /\ tsPage'.shown = tsPage.shown
      /\ tsPage'.steady = Steady(seen)
  BY <1>1, <1>2, <1>3 DEF PageType
<1>5. ASSUME NEW t \in Steady(seen), t \in Rest(tsPage.cursor)
      PROVE  t \in Rest(tsPage.cursor)'
  <2>1. tsSeen'[t] = tsSeen[t]
    BY <1>2 DEF Steady
  <2> QED
    BY <1>4, <1>5, <2>1 DEF Rest, Listed, Before
<1>6. SteadyInv'
  <2> SUFFICES ASSUME NEW t \in Steady(seen)
               PROVE  \/ t \in tsPage'.shown \/ t \in tsPage'.rows
                      \/ tsPage'.open /\ t \in Rest(tsPage.cursor)'
    BY <1>4 DEF SteadyInv
  <2>1. \/ t \in tsPage.shown \/ t \in tsPage.rows
        \/ tsPage.open /\ t \in Rest(tsPage.cursor)
    BY <1>3 DEF PageInv, SteadyInv
  <2> QED
    BY <1>4, <1>5, <2>1
<1> QED
  BY <1>2, <1>4, <1>6

\* The owner's rows, as a sync leaves them.
LEMMA SyncKeeps ==
    ASSUME PageInv, NEW t \in TsThreads, NEW row \in Row, NEW synced \in TsRevisions,
           SyncRow(t, row, synced), UNCHANGED <<tsThread, tsClock>>
    PROVE  PageInv'
<1>0. TsTypeOK
  BY DEF PageInv
<1>1. tsGrant' \in [TsThreads -> [row : Row, synced : TsRevisions]]
  <2>1. row.revision \in TsRevisions
    BY DEF Row
  <2>2. \E n \in TsRevisions : tsGrant' = [tsGrant EXCEPT ![t] = [row |-> row, synced |-> n]]
    BY <2>1 DEF SyncRow
  <2> QED
    BY <1>0, <2>2 DEF TsTypeOK
<1>2. CASE UNCHANGED <<tsSeen, tsPage>>
  BY <1>1, <1>2 DEF PageInv, SteadyInv, TsTypeOK, Rest, Listed, Before
<1>3. CASE Seen([tsSeen EXCEPT ![t] = Upserted(@, row)])
  <2> DEFINE seen == [tsSeen EXCEPT ![t] = Upserted(tsSeen[t], row)]
  <2>1. tsSeen[t] \in [row : Row, hidden : BOOLEAN]
    BY <1>0 DEF TsTypeOK
  <2>2. Upserted(tsSeen[t], row) \in [row : Row, hidden : BOOLEAN]
    BY <2>1 DEF Upserted
  <2>3. seen \in SeenType
    BY <1>0, <2>2 DEF TsTypeOK, SeenType
  <2>4. Seen(seen)
    BY <1>3
  <2> HIDE DEF seen
  <2>5. tsSeen' \in SeenType /\ tsPage' \in PageType /\ SteadyInv'
    BY <2>3, <2>4, SeenKeeps
  <2> QED
    BY <1>0, <1>1, <2>5 DEF PageInv, TsTypeOK, SeenType, PageType
<1> QED
  BY <1>2, <1>3 DEF SyncRow

LEMMA RevokedRowTyped ==
    ASSUME NEW row \in Row, row.revision < MaxChanges
    PROVE  RevokedRow(row) \in Row
<1>1. row.revision + 1 \in TsRevisions
  BY ThreadSharingAssumption DEF Row, TsRevisions
<1> QED
  BY <1>1 DEF RevokedRow, Row

LEMMA OwnerStep ==
    ASSUME PageInv, NEW t \in TsThreads,
           Share(t) \/ Unshare(t) \/ DeleteSharedThread(t) \/ SyncLater(t) \/ Hide(t)
    PROVE  PageInv'
<1>0. /\ TsTypeOK /\ tsGrant[t] \in [row : Row, synced : TsRevisions]
      /\ TsGrant(t) \in Row /\ tsGrant[t].synced \in TsRevisions
      /\ tsSeen[t] \in [row : Row, hidden : BOOLEAN]
  BY DEF PageInv, TsTypeOK, TsGrant
<1>1. CASE Share(t)
  <2> DEFINE next == TsGrant(t).revision + 1
             row == [cycle |-> next, revoked |-> FALSE, revision |-> next, at |-> tsClock]
  <2>1. next \in TsRevisions /\ tsClock \in Clock
    BY <1>0, <1>1, ThreadSharingAssumption
       DEF Share, CanChange, Row, TsRevisions, TsTypeOK
  <2>2. row \in Row
    BY <2>1 DEF Row
  <2>3. SyncRow(t, row, tsGrant[t].synced) /\ UNCHANGED <<tsThread, tsClock>>
    BY <1>1 DEF Share
  <2> HIDE DEF row
  <2> QED
    BY <1>0, <2>2, <2>3, SyncKeeps
<1>2. CASE Unshare(t)
  <2>1. RevokedRow(TsGrant(t)) \in Row
    BY <1>0, <1>2, RevokedRowTyped DEF Unshare, CanChange
  <2> QED
    BY <1>0, <1>2, <2>1, SyncKeeps DEF Unshare
<1>3. CASE SyncLater(t)
  BY <1>0, <1>3, SyncKeeps DEF SyncLater
<1>4. CASE DeleteSharedThread(t)
  <2>1. RevokedRow(tsGrant[t].row) \in Row
    BY <1>0, <1>4, RevokedRowTyped DEF DeleteSharedThread, CanChange, TsGrant
  <2>2. Buried(tsGrant[t]) \in [row : Row, synced : TsRevisions]
    BY <1>0, <2>1 DEF Buried
  <2>3. tsGrant' \in [TsThreads -> [row : Row, synced : TsRevisions]]
    BY <1>0, <1>4, <2>2 DEF DeleteSharedThread, TsTypeOK
  <2>4. tsThread' \in [TsThreads -> {"exists", "deleted"}]
    BY <1>0, <1>4 DEF DeleteSharedThread, TsTypeOK
  <2>5. UNCHANGED <<tsSeen, tsClock, tsPage>>
    BY <1>4 DEF DeleteSharedThread
  <2> QED
    BY <1>0, <2>3, <2>4, <2>5 DEF PageInv, SteadyInv, TsTypeOK, Rest, Listed, Before
<1>5. CASE Hide(t)
  <2> DEFINE seen == [tsSeen EXCEPT ![t].hidden = ~@]
  <2>1. seen \in SeenType
    BY <1>0 DEF TsTypeOK, SeenType
  <2>2. Seen(seen)
    BY <1>5 DEF Hide
  <2> HIDE DEF seen
  <2>3. tsSeen' \in SeenType /\ tsPage' \in PageType /\ SteadyInv'
    BY <2>1, <2>2, SeenKeeps
  <2> QED
    BY <1>0, <1>5, <2>3 DEF Hide, PageInv, TsTypeOK, SeenType, PageType
<1> QED
  BY <1>1, <1>2, <1>3, <1>4, <1>5

\* A page takes over what was in the rest of the list, but for what the next
\* page has.
LEMMA ReadKeeps ==
    ASSUME PageInv, ReadPage
    PROVE  PageInv'
<1> DEFINE cursor == tsPage.cursor
           page == Page(cursor)
           more == page # Rest(cursor)
           last == {t \in page : Ahead(t, cursor) = page}
           entry == CHOOSE t \in last : TRUE
           next == IF more THEN CursorOf(entry) ELSE NoCursor
           shown == IF tsPage.open THEN tsPage.shown ELSE {}
           steady == IF tsPage.open THEN tsPage.steady ELSE Listed
<1>0. /\ TsTypeOK /\ tsPage \in PageType /\ SteadyInv
      /\ tsPage.rows = {} /\ (tsPage.open \/ cursor = NoCursor)
      /\ UNCHANGED <<tsThread, tsGrant, tsSeen, tsClock>>
  BY DEF PageInv, TsTypeOK, PageType, ReadPage
<1>1. tsPage' = [open |-> more, cursor |-> next, rows |-> page, shown |-> shown,
                 steady |-> steady]
  BY DEF ReadPage, Page
<1>2. /\ page \subseteq TsThreads /\ shown \subseteq TsThreads /\ steady \subseteq TsThreads
      /\ page \subseteq Rest(cursor)
  BY <1>0 DEF Page, Rest, Listed, PageType
<1>3. more => entry \in page /\ Ahead(entry, cursor) = page
  BY <1>0, PageEnds
<1>4. next \in [at : 0..(MaxClock + 1), thread : TsThreads \cup {0}]
  <2>1. CASE more
    <3>1. entry \in TsThreads
      BY <1>2, <1>3, <2>1
    <3> HIDE DEF entry
    <3>2. tsSeen[entry].row.at \in Nat /\ tsSeen[entry].row.at <= MaxClock
      BY <1>0, <3>1, SharedAt
    <3>3. tsSeen[entry].row.at \in 0..(MaxClock + 1)
      BY <3>2, ThreadSharingAssumption
    <3> QED
      BY <2>1, <3>1, <3>3 DEF CursorOf
  <2>2. CASE ~more
    BY <2>2, ThreadSharingAssumption DEF NoCursor
  <2> QED
    BY <2>1, <2>2
<1>5. ASSUME NEW t \in steady
      PROVE  t \in shown \/ t \in Rest(cursor)
  <2>1. CASE tsPage.open
    BY <1>0, <1>5, <2>1 DEF SteadyInv
  <2>2. CASE ~tsPage.open
    BY <1>0, <1>5, <2>2, RestFromTheTop
  <2> QED
    BY <2>1, <2>2
<1>6. ASSUME NEW t \in steady
      PROVE  t \in shown \/ t \in page \/ (more /\ t \in Rest(next))
  <2>1. CASE t \in Rest(cursor) /\ t \notin page
    <3>1. more
      BY <1>2, <2>1
    <3>2. t \in Rest(CursorOf(entry))
      BY <1>3, <2>1, <3>1, RestAfter
    <3> QED
      BY <3>1, <3>2
  <2> QED
    BY <1>5, <2>1
<1> HIDE DEF page, more, entry, next, shown, steady
<1>7. tsPage' \in PageType
  BY <1>1, <1>2, <1>4 DEF PageType, more
<1>8. Rest(tsPage.cursor)' = Rest(next)
  BY <1>0, <1>1 DEF Rest, Listed, Before
<1>9. SteadyInv'
  BY <1>1, <1>6, <1>8 DEF SteadyInv
<1> QED
  BY <1>0, <1>7, <1>9 DEF PageInv, TsTypeOK, PageType

\* What is on the page is shown, or no longer granted.
LEMMA ShowKeeps ==
    ASSUME PageInv, ShowPage
    PROVE  PageInv'
<1>0. /\ TsTypeOK /\ tsPage \in PageType /\ SteadyInv
      /\ UNCHANGED <<tsThread, tsGrant, tsSeen, tsClock>>
  BY DEF PageInv, TsTypeOK, PageType, ShowPage
<1>1. PICK granted : /\ granted \subseteq tsPage.rows
                     /\ tsPage' = [tsPage EXCEPT !.shown = @ \cup granted, !.rows = {},
                                                 !.steady = @ \ (tsPage.rows \ granted)]
  <2> DEFINE given == {t \in tsPage.rows :
                         /\ tsThread[t] = "exists"
                         /\ ~TsGrant(t).revoked
                         /\ TsGrant(t).cycle = tsSeen[t].row.cycle}
  <2>1. tsPage' = [tsPage EXCEPT !.shown = @ \cup given, !.rows = {},
                                 !.steady = @ \ (tsPage.rows \ given)]
    BY DEF ShowPage
  <2>2. given \subseteq tsPage.rows
    OBVIOUS
  <2> HIDE DEF given
  <2> QED
    BY <2>1, <2>2
<1>2. /\ tsPage' \in PageType
      /\ tsPage'.open = tsPage.open /\ tsPage'.cursor = tsPage.cursor
      /\ tsPage'.shown = tsPage.shown \cup granted
      /\ tsPage'.steady = tsPage.steady \ (tsPage.rows \ granted)
  <2> DEFINE shown == tsPage.shown \cup granted
             steady == tsPage.steady \ (tsPage.rows \ granted)
  <2>1. tsPage' = [open |-> tsPage.open, cursor |-> tsPage.cursor, rows |-> {},
                   shown |-> shown, steady |-> steady]
    BY <1>0, <1>1 DEF PageType
  <2>2. shown \subseteq TsThreads /\ steady \subseteq TsThreads
    BY <1>0, <1>1 DEF PageType
  <2> HIDE DEF shown, steady
  <2>3. tsPage' \in PageType
    BY <1>0, <2>1, <2>2 DEF PageType
  <2> QED
    BY <2>1, <2>3 DEF shown, steady
<1>3. Rest(tsPage.cursor)' = Rest(tsPage.cursor)
  BY <1>0, <1>2 DEF Rest, Listed, Before
<1>4. SteadyInv'
  BY <1>0, <1>1, <1>2, <1>3 DEF SteadyInv
<1> QED
  BY <1>0, <1>2, <1>4 DEF PageInv, TsTypeOK, PageType

LEMMA PageStep == PageInv /\ [TsNext]_tsVars => PageInv'
<1> SUFFICES ASSUME PageInv, [TsNext]_tsVars
             PROVE  PageInv'
  OBVIOUS
<1>1. ASSUME NEW t \in TsThreads,
             Share(t) \/ Unshare(t) \/ DeleteSharedThread(t) \/ SyncLater(t) \/ Hide(t)
      PROVE  PageInv'
  BY <1>1, OwnerStep
<1>2. CASE Tick
  <2>1. tsClock' \in Clock
    BY <1>2, ThreadSharingAssumption DEF Tick, PageInv, TsTypeOK, Clock
  <2> QED
    BY <1>2, <2>1 DEF Tick, PageInv, SteadyInv, TsTypeOK, Rest, Listed, Before
<1>3. CASE UNCHANGED tsVars
  BY <1>3 DEF tsVars, PageInv, SteadyInv, TsTypeOK, Rest, Listed, Before
<1> QED
  BY <1>1, <1>2, <1>3, ReadKeeps, ShowKeeps DEF TsNext

\* Every variable of the shared Threads keeps its type.
THEOREM SharingTypes == TsSpec => []TsTypeOK
<1>1. PageInv => TsTypeOK
  BY DEF PageInv
<1> QED
  BY <1>1, PageInit, PageStep, PTL DEF TsSpec

\* A viewer who pages to the end of the list (discovery, list) has been shown
\* every Thread that was shared with it all the while and did not move,
\* whatever was shared, revoked, hidden or deleted between two pages, however
\* many Threads have the same time and however short a page is.
THEOREM PagesAreComplete == TsSpec => []PagesSkipNothing
<1>1. PageInv => PagesSkipNothing
  BY DEF PageInv, SteadyInv, PagesSkipNothing
<1> QED
  BY <1>1, PageInit, PageStep, PTL DEF TsSpec

-----------------------------------------------------------------------------
(* The usage statistics.                                                   *)
(*                                                                         *)
(* The closed range only grows, and an hour is folded when it enters the   *)
(* range or is emptied in the same transaction.  A row has thus cells only *)
(* of its own hour, at most one of them, and the totals have the same.     *)
(* Whatever moves the window of a view, or a cell in it, marks the view.   *)

Book == [low : Hours, high : -1..MaxHour, earliest : -1..MaxHour, pending : SUBSET StatRows,
         dirty : SUBSET Hours, viewDirty : SUBSET Ranges, built : SUBSET Ranges]

PatrolForm ==
    /\ patrol = [at |-> patrol.at, now |-> patrol.now, budget |-> patrol.budget,
                 list |-> patrol.list, row |-> patrol.row]
    /\ patrol.now \in Hours
    /\ patrol.row \in StatRows \cup {"none"}
    /\ patrol.at = "enqueue" => patrol.row \in StatRows

\* Only hours of the closed range are corrected.
DirtyInv ==
    /\ \A h \in stBook.dirty : IsClosed(h)
    /\ patrol.at = "dirty" => \A h \in patrol.list : h \in Hours /\ IsClosed(h)

One(v) == [Absent EXCEPT ![v] = 1]

CellInv(r) ==
    /\ stTotal[r] = stCell[r]
    /\ \/ stCell[r] = Absent
       \/ /\ IsClosed(stRaw[r].hour) /\ stRaw[r].state # "none"
          /\ \E v \in Versions : stCell[r] = One(v)

BooksInv == StatsTypeOK /\ stBook \in Book /\ PatrolForm /\ DirtyInv
StatsInv == BooksInv /\ (\A r \in StatRows : CellInv(r)) /\ ViewsAreFresh

RawType == [StatRows -> [state : Versions \cup {"none", "gone"}, hour : Hours]]

LEMMA HoursAreNatural ==
    /\ MaxHour \in Nat /\ Hours \subseteq Nat /\ \A h \in Hours : h <= MaxHour
    /\ \A n \in Nat : n <= MaxHour => n \in Hours
BY StatsFoldAssumption DEF Hours

LEMMA BookNumbers ==
    ASSUME NEW book \in Book
    PROVE  /\ book.low \in Hours /\ book.high \in -1..MaxHour
           /\ book.low \in Nat /\ book.low <= MaxHour
           /\ book.high \in Int /\ book.high <= MaxHour
           /\ book.dirty \subseteq Hours /\ book.pending \subseteq StatRows
           /\ book.viewDirty \subseteq Ranges
<1>1. /\ book.low \in Hours /\ book.high \in -1..MaxHour
      /\ book.dirty \subseteq Hours /\ book.pending \subseteq StatRows
      /\ book.viewDirty \subseteq Ranges
  BY DEF Book
<1>2. book.low \in Nat /\ book.low <= MaxHour /\ MaxHour \in Nat
  BY <1>1, HoursAreNatural
<1>3. book.high \in Int /\ book.high <= MaxHour
  BY <1>1, <1>2
<1> QED
  BY <1>1, <1>2, <1>3

\* FirstHour and LastBelow are what their names say.
LEMMA FirstHourIsFirst ==
    ASSUME stRaw \in RawType, NEW rows, rows \subseteq StatRows, rows # {}
    PROVE  /\ FirstHour(rows) \in Hours
           /\ \E r \in rows : stRaw[r].hour = FirstHour(rows)
           /\ \A r \in rows : FirstHour(rows) <= stRaw[r].hour
<1> DEFINE hours == {stRaw[r].hour : r \in rows}
           IsFirst(h) == /\ \E r \in rows : stRaw[r].hour = h
                         /\ \A r \in rows : h <= stRaw[r].hour
<1>1. hours \subseteq Hours /\ hours # {}
  BY DEF RawType
<1>2. PICK m \in hours : \A n \in hours : m <= n
  BY <1>1, HoursAreNatural, LeastNatural
<1>3. m \in Hours /\ IsFirst(m)
  BY <1>1, <1>2
<1>4. FirstHour(rows) = CHOOSE h \in Hours : IsFirst(h)
  BY DEF FirstHour
<1> HIDE DEF IsFirst
<1>5. FirstHour(rows) \in Hours /\ IsFirst(FirstHour(rows))
  BY <1>3, <1>4
<1> QED
  BY <1>5 DEF IsFirst

LEMMA LastBelowIsLast ==
    ASSUME stRaw \in RawType, RowsBelow # {}
    PROVE  /\ LastBelow \in Hours
           /\ \E r \in RowsBelow : stRaw[r].hour = LastBelow
<1> DEFINE left == {MaxHour - stRaw[r].hour : r \in RowsBelow}
           IsLast(h) == /\ \E r \in RowsBelow : stRaw[r].hour = h
                        /\ \A r \in RowsBelow : stRaw[r].hour <= h
<1>0. \A r \in RowsBelow : stRaw[r].hour \in Hours
  BY DEF RawType, RowsBelow, Existing
<1>1. left \subseteq Nat /\ left # {}
  BY <1>0, HoursAreNatural
<1>2. PICK m \in left : \A n \in left : m <= n
  BY <1>1, LeastNatural
<1>3. PICK u \in RowsBelow : m = MaxHour - stRaw[u].hour
  OBVIOUS
<1>4. ASSUME NEW r \in RowsBelow
      PROVE  stRaw[r].hour <= stRaw[u].hour
  <2>1. MaxHour - stRaw[u].hour <= MaxHour - stRaw[r].hour
    BY <1>2, <1>3
  <2>2. stRaw[u].hour \in Nat /\ stRaw[r].hour \in Nat /\ MaxHour \in Nat
    BY <1>0, HoursAreNatural
  <2> QED
    BY <2>1, <2>2
<1>5. stRaw[u].hour \in Hours /\ IsLast(stRaw[u].hour)
  BY <1>0, <1>4
<1>6. LastBelow = CHOOSE h \in Hours : IsLast(h)
  BY DEF LastBelow
<1> HIDE DEF IsLast
<1>7. LastBelow \in Hours /\ IsLast(LastBelow)
  BY <1>5, <1>6
<1> QED
  BY <1>7 DEF IsLast

\* The windows: all of the range, and its last hour.
LEMMA WindowOfAll ==
    ASSUME NEW book, NEW hour
    PROVE  RangeContains(book, "all", hour) <=> book.low <= hour /\ hour <= book.high
BY DEF RangeContains, WindowStart

LEMMA WindowOfShort ==
    ASSUME NEW book \in Book, NEW hour \in Hours
    PROVE  RangeContains(book, "short", hour) <=> book.low <= book.high /\ hour = book.high
<1>1. book.low \in Nat /\ book.high \in Int /\ hour \in Nat
  BY StatsFoldAssumption DEF Book, Hours
<1> QED
  BY <1>1 DEF RangeContains, WindowStart, ShortSpan

\* The fields of the book, one written at a time.
LEMMA BookLow ==
    ASSUME NEW book \in Book, NEW low \in Hours
    PROVE  LET next == [book EXCEPT !.low = low]
           IN  /\ next \in Book /\ next.low = low /\ next.high = book.high
               /\ next.viewDirty = book.viewDirty /\ next.built = book.built
               /\ next.dirty = book.dirty
BY DEF Book

LEMMA BookHigh ==
    ASSUME NEW book \in Book, NEW high \in -1..MaxHour
    PROVE  LET next == [book EXCEPT !.high = high]
           IN  /\ next \in Book /\ next.low = book.low /\ next.high = high
               /\ next.viewDirty = book.viewDirty /\ next.built = book.built
               /\ next.dirty = book.dirty
BY DEF Book

LEMMA BookViews ==
    ASSUME NEW book \in Book, NEW views \in SUBSET Ranges
    PROVE  LET next == [book EXCEPT !.viewDirty = views]
           IN  /\ next \in Book /\ next.low = book.low /\ next.high = book.high
               /\ next.viewDirty = views /\ next.built = book.built
               /\ next.dirty = book.dirty
BY DEF Book

LEMMA BookDirty ==
    ASSUME NEW book \in Book, NEW dirty \in SUBSET Hours
    PROVE  LET next == [book EXCEPT !.dirty = dirty]
           IN  /\ next \in Book /\ next.low = book.low /\ next.high = book.high
               /\ next.viewDirty = book.viewDirty /\ next.built = book.built
               /\ next.dirty = dirty
BY DEF Book

LEMMA BookPending ==
    ASSUME NEW book \in Book, NEW pending \in SUBSET StatRows
    PROVE  LET next == [book EXCEPT !.pending = pending]
           IN  /\ next \in Book /\ next.low = book.low /\ next.high = book.high
               /\ next.viewDirty = book.viewDirty /\ next.built = book.built
               /\ next.dirty = book.dirty
BY DEF Book

LEMMA BookEarliest ==
    ASSUME NEW book \in Book, NEW earliest \in -1..MaxHour
    PROVE  LET next == [book EXCEPT !.earliest = earliest]
           IN  /\ next \in Book /\ next.low = book.low /\ next.high = book.high
               /\ next.viewDirty = book.viewDirty /\ next.built = book.built
               /\ next.dirty = book.dirty
BY DEF Book

\* Cells.
LEMMA CellsTyped ==
    /\ Absent \in Counts
    /\ \A v \in Versions : One(v) \in Counts /\ One(v) # Absent
    /\ \A v \in Versions : [Absent EXCEPT ![v] = @ + 1] = One(v)
<1>1. Absent \in Counts
  BY DEF Absent, Counts
<1>2. ASSUME NEW v \in Versions
      PROVE  /\ One(v) \in Counts /\ One(v) # Absent
             /\ [Absent EXCEPT ![v] = @ + 1] = One(v)
  <2>1. Absent[v] = 0
    BY DEF Absent
  <2>2. [Absent EXCEPT ![v] = @ + 1] = One(v)
    BY <1>1, <2>1 DEF One, Counts
  <2>3. One(v) \in Counts /\ One(v)[v] = 1
    BY <1>1 DEF One, Counts
  <2> QED
    BY <2>1, <2>2, <2>3
<1> QED
  BY <1>1, <1>2

\* What a view of the range shows does not change.
LEMMA ContentStays ==
    ASSUME BooksInv, BooksInv', NEW g \in Ranges,
           \A r \in StatRows :
              /\ g = "all" => stTotal'[r] = stTotal[r]
              /\ g = "short" =>
                    (IF Closed /\ stRaw[r].hour = stBook.high THEN stCell[r] ELSE Absent)
                       = (IF stBook'.low <= stBook'.high /\ stRaw'[r].hour = stBook'.high
                          THEN stCell'[r] ELSE Absent)
    PROVE  Content(g)' = Content(g)
<1>0. /\ stBook \in Book /\ stBook' \in Book
      /\ \A r \in StatRows : stRaw[r].hour \in Hours /\ stRaw'[r].hour \in Hours
  BY DEF BooksInv, StatsTypeOK
<1>1. CASE g = "all"
  BY <1>1 DEF Content
<1>2. CASE g = "short"
  <2>1. \A r \in StatRows :
           RangeContains(stBook, "short", stRaw[r].hour)
              <=> Closed /\ stRaw[r].hour = stBook.high
    BY <1>0, WindowOfShort DEF Closed
  <2>2. \A r \in StatRows :
           RangeContains(stBook', "short", stRaw'[r].hour)
              <=> stBook'.low <= stBook'.high /\ stRaw'[r].hour = stBook'.high
    BY <1>0, WindowOfShort
  <2>3. Content(g) = [r \in StatRows |-> IF Closed /\ stRaw[r].hour = stBook.high
                                         THEN stCell[r] ELSE Absent]
    BY <1>2, <2>1 DEF Content
  <2>4. Content(g)' = [r \in StatRows |->
                          IF stBook'.low <= stBook'.high /\ stRaw'[r].hour = stBook'.high
                          THEN stCell'[r] ELSE Absent]
    BY <1>2, <2>2 DEF Content
  <2> QED
    BY <1>2, <2>3, <2>4
<1> QED
  BY <1>1, <1>2 DEF Ranges

SameBook ==
    /\ stBook'.low = stBook.low /\ stBook'.high = stBook.high
    /\ stBook'.viewDirty = stBook.viewDirty /\ stBook'.built = stBook.built

\* Steps that leave the cells and the range alone.
LEMMA FoldedStays ==
    ASSUME StatsInv, BooksInv', UNCHANGED folded, SameBook,
           \A r \in StatRows :
              /\ stRaw[r].state = "none" \/ stRaw'[r].hour = stRaw[r].hour
              /\ stRaw[r].state # "none" => stRaw'[r].state # "none"
    PROVE  StatsInv'
<1>0. BooksInv /\ (\A r \in StatRows : CellInv(r)) /\ ViewsAreFresh
  BY DEF StatsInv
<1>1. UNCHANGED <<stCell, stTotal, stView>>
  BY DEF folded
<1>2. \A h : IsClosed(h)' <=> IsClosed(h)
  BY DEF SameBook, IsClosed, Closed
<1>3. ASSUME NEW r \in StatRows
      PROVE  CellInv(r)'
  <2>1. CASE stCell[r] = Absent
    BY <1>0, <1>1, <2>1 DEF CellInv, Absent
  <2>2. CASE stCell[r] # Absent
    <3>1. /\ IsClosed(stRaw[r].hour) /\ stRaw[r].state # "none"
          /\ \E v \in Versions : stCell[r] = One(v)
      BY <1>0, <2>2 DEF CellInv
    <3>2. stRaw'[r].hour = stRaw[r].hour /\ stRaw'[r].state # "none"
      BY <3>1
    <3>3. IsClosed(stRaw[r].hour)'
      BY <1>2, <3>1, <3>2 DEF SameBook, IsClosed, Closed
    <3>4. \E v \in Versions : stCell'[r] = One(v)
      BY <1>1, <3>1
    <3> QED
      BY <1>0, <1>1, <3>2, <3>3, <3>4 DEF CellInv, One, Absent
  <2> QED
    BY <2>1, <2>2
<1>4. ASSUME NEW g \in Ranges
      PROVE  Content(g)' = Content(g)
  <2>1. \A r \in StatRows : stCell[r] = Absent \/ stRaw'[r].hour = stRaw[r].hour
    BY <1>0 DEF CellInv
  <2> QED
    BY <1>0, <1>1, <2>1, ContentStays DEF SameBook, Closed
<1>5. ViewsAreFresh'
  BY <1>0, <1>1, <1>4 DEF ViewsAreFresh, StaleViews, SameBook
<1> QED
  BY <1>3, <1>5 DEF StatsInv

\* A request: the patrol is not part of it.
LEMMA RequestKeeps ==
    ASSUME StatsInv, UNCHANGED <<folded, patrol, stFaults, stSkipped>>,
           stClock' \in Hours, stThread' \in {"live", "deleting", "gone"}, stRaw' \in RawType,
           stBook' \in Book, SameBook, \A h \in stBook'.dirty : IsClosed(h),
           \A r \in StatRows :
              /\ stRaw[r].state = "none" \/ stRaw'[r].hour = stRaw[r].hour
              /\ stRaw[r].state # "none" => stRaw'[r].state # "none"
    PROVE  StatsInv'
<1>0. BooksInv
  BY DEF StatsInv
<1>1. StatsTypeOK'
  BY <1>0 DEF BooksInv, StatsTypeOK, RawType, folded, Book
<1>2. PatrolForm'
  BY <1>0 DEF BooksInv, PatrolForm
<1>3. DirtyInv'
  BY <1>0 DEF BooksInv, DirtyInv, SameBook, IsClosed, Closed
<1> QED
  BY <1>1, <1>2, <1>3, FoldedStays DEF BooksInv

\* A step of the patrol that leaves the cells and the range alone.
LEMMA PatrolKeeps ==
    ASSUME StatsInv, UNCHANGED folded, Quiet,
           stBook' \in Book, SameBook, \A h \in stBook'.dirty : IsClosed(h),
           PatrolForm',
           patrol'.at \in {"idle", "forward", "pending", "enqueue", "dirty", "views",
                          "backfill"},
           patrol'.at = "dirty" => \A h \in patrol'.list : h \in Hours /\ IsClosed(h)
    PROVE  StatsInv'
<1>0. BooksInv
  BY DEF StatsInv
<1>1. StatsTypeOK'
  BY <1>0 DEF BooksInv, StatsTypeOK, folded, Book, Quiet
<1>2. DirtyInv'
  BY DEF DirtyInv, SameBook, IsClosed, Closed
<1> QED
  BY <1>1, <1>2, FoldedStays DEF BooksInv, Quiet

\* Only hours of the range are queued, and not the range is written.
LEMMA EnqueuedKeeps ==
    ASSUME BooksInv, NEW hours \in SUBSET Hours, NEW book \in Book,
           book.low = stBook.low, book.high = stBook.high, book.dirty = stBook.dirty,
           book.viewDirty = stBook.viewDirty, book.built = stBook.built,
           stBook' = Enqueued(book, hours)
    PROVE  stBook' \in Book /\ SameBook /\ \A h \in stBook'.dirty : IsClosed(h)
<1> DEFINE dirty == book.dirty \cup {h \in hours : IsClosed(h)}
<1>1. stBook' = [book EXCEPT !.dirty = dirty]
  BY DEF Enqueued
<1>2. dirty \in SUBSET Hours
  BY DEF Book
<1>3. \A h \in dirty : IsClosed(h)
  BY DEF BooksInv, DirtyInv
<1> HIDE DEF dirty
<1> QED
  BY <1>1, <1>2, <1>3, BookDirty DEF SameBook

LEMMA RequestSteps ==
    ASSUME StatsInv,
           \/ \E r \in StatRows : StatRecord(r) \/ SettleRow(r)
           \/ FinishAudit \/ ResultArrives \/ NoteDeleted \/ ThreadRowsGo \/ HourPasses
    PROVE  StatsInv'
<1>0. /\ BooksInv /\ stBook \in Book /\ stRaw \in RawType
      /\ stClock \in Hours /\ stThread \in {"live", "deleting", "gone"}
      /\ \A h \in stBook.dirty : IsClosed(h)
  BY DEF StatsInv, BooksInv, StatsTypeOK, RawType, DirtyInv
<1> DEFINE Tame == \A r \in StatRows :
              /\ stRaw[r].state = "none" \/ stRaw'[r].hour = stRaw[r].hour
              /\ stRaw[r].state # "none" => stRaw'[r].state # "none"
<1>1. ASSUME NEW r \in StatRows, StatRecord(r)
      PROVE  StatsInv'
  <2> DEFINE row == [hour |-> stClock, state |-> IF r = "record" THEN "settled" ELSE "open"]
  <2>1. /\ stRaw' = [stRaw EXCEPT ![r] = row] /\ stRaw[r].state = "none"
        /\ UNCHANGED <<stClock, stThread, stBook, folded, patrol, stFaults, stSkipped>>
    BY <1>1 DEF StatRecord
  <2>2. row \in [state : Versions \cup {"none", "gone"}, hour : Hours]
    BY <1>0 DEF Versions, Settled
  <2> HIDE DEF row
  <2>3. stRaw' \in RawType /\ Tame
    BY <1>0, <2>1, <2>2 DEF RawType
  <2> QED
    BY <1>0, <2>1, <2>3, RequestKeeps DEF SameBook
<1>2. ASSUME NEW r \in StatRows, NEW state \in Settled,
             stRaw' = [stRaw EXCEPT ![r].state = state]
      PROVE  stRaw' \in RawType /\ Tame
  BY <1>0, <1>2 DEF RawType, Versions, Settled
<1>3. ASSUME NEW r \in StatRows, SettleRow(r)
      PROVE  StatsInv'
  <2>1. stRaw' \in RawType /\ Tame
    BY <1>2, <1>3 DEF SettleRow, Settled
  <2> QED
    BY <1>0, <1>3, <2>1, RequestKeeps DEF SettleRow, SameBook
<1>4. CASE FinishAudit
  <2>1. stRaw' \in RawType /\ Tame
    BY <1>2, <1>4 DEF FinishAudit, Request, Settled
  <2> QED
    BY <1>0, <1>4, <2>1, RequestKeeps DEF FinishAudit, SameBook
<1>5. CASE ResultArrives
  <2>1. "call" \in StatRows /\ stRaw["call"].hour \in Hours
    BY <1>0, <1>5 DEF ResultArrives, Request, RawType
  <2>2. stRaw' \in RawType /\ Tame
    <3> DEFINE state == IF Open("call") THEN "settled" ELSE "revised"
    <3>1. state \in Settled /\ stRaw' = [stRaw EXCEPT !["call"].state = state]
      BY <1>5 DEF ResultArrives, Settled
    <3> QED
      BY <1>2, <2>1, <3>1
  <2>3. stBook' = Enqueued(stBook, {stRaw["call"].hour})
    BY <1>5 DEF ResultArrives
  <2>4. stBook' \in Book /\ SameBook /\ \A h \in stBook'.dirty : IsClosed(h)
    BY <1>0, <2>1, <2>3, EnqueuedKeeps
  <2>5. UNCHANGED <<stClock, stThread, folded, patrol, stFaults, stSkipped>>
    BY <1>5 DEF ResultArrives
  <2> QED
    BY <1>0, <2>2, <2>4, <2>5, RequestKeeps
<1>6. CASE NoteDeleted
  <2> DEFINE book == [stBook EXCEPT !.pending = {}]
  <2>1. /\ book \in Book /\ book.low = stBook.low /\ book.high = stBook.high
        /\ book.viewDirty = stBook.viewDirty /\ book.built = stBook.built
        /\ book.dirty = stBook.dirty
    BY <1>0, BookPending
  <2>2. {stRaw[r].hour : r \in Existing} \in SUBSET Hours
    BY <1>0 DEF RawType, Existing
  <2>3. stBook' = Enqueued(book, {stRaw[r].hour : r \in Existing})
    BY <1>6 DEF NoteDeleted
  <2> HIDE DEF book
  <2>4. stBook' \in Book /\ SameBook /\ \A h \in stBook'.dirty : IsClosed(h)
    BY <1>0, <2>1, <2>2, <2>3, EnqueuedKeeps
  <2> QED
    BY <1>0, <1>6, <2>4, RequestKeeps DEF NoteDeleted
<1>7. CASE ThreadRowsGo
  <2>1. stRaw' \in RawType /\ Tame
    BY <1>0, <1>7 DEF ThreadRowsGo, RawType
  <2> QED
    BY <1>0, <1>7, <2>1, RequestKeeps DEF ThreadRowsGo, SameBook
<1>8. CASE HourPasses
  <2>1. stClock' \in Hours
    BY <1>0, <1>8, StatsFoldAssumption DEF HourPasses, Hours
  <2> QED
    BY <1>0, <1>8, <2>1, RequestKeeps DEF HourPasses, SameBook
<1> QED
  BY <1>1, <1>3, <1>4, <1>5, <1>6, <1>7, <1>8

LEMMA EarliestTyped ==
    ASSUME BooksInv PROVE Earliest \in -1..MaxHour
<1>1. stBook.earliest \in -1..MaxHour /\ stRaw \in RawType
  BY DEF BooksInv, Book, StatsTypeOK, RawType
<1>2. Existing \subseteq StatRows
  BY DEF Existing
<1>3. FirstHour({}) = -1
  BY DEF FirstHour, NoData
<1>4. Existing # {} => FirstHour(Existing) \in Hours
  BY <1>1, <1>2, FirstHourIsFirst
<1> QED
  BY <1>1, <1>3, <1>4, StatsFoldAssumption DEF Earliest, Hours

\* A pass moves on: what it takes from one part to the next.
LEMMA PatrolMoves ==
    ASSUME StatsInv,
           \/ Begin \/ ForwardEnds \/ PendingEnds \/ DirtyEnds \/ ViewsEnd \/ BackfillEnds
           \/ Enqueue \/ \E r \in StatRows : LookAt(r)
    PROVE  StatsInv'
<1>0. /\ BooksInv /\ stBook \in Book /\ stRaw \in RawType /\ PatrolForm
      /\ stClock \in Hours /\ 0 \in Hours
      /\ \A h \in stBook.dirty : IsClosed(h)
      /\ stBook.dirty \subseteq Hours /\ stBook.pending \subseteq StatRows
  BY HoursAreNatural DEF StatsInv, BooksInv, StatsTypeOK, RawType, DirtyInv, Book
<1>same. UNCHANGED stBook =>
            stBook' \in Book /\ SameBook /\ \A h \in stBook'.dirty : IsClosed(h)
  BY <1>0 DEF SameBook
<1>1. CASE Begin
  <2>1. stBook' \in Book /\ SameBook /\ stBook'.dirty = stBook.dirty
    BY <1>0, <1>1, EarliestTyped, BookEarliest DEF Begin, SameBook
  <2>2. patrol' = [at |-> "forward", now |-> stClock, budget |-> FoldBudget,
                   list |-> patrol.list, row |-> patrol.row]
    BY <1>0, <1>1 DEF Begin, PatrolForm
  <2>3. PatrolForm'
    BY <1>0, <2>2 DEF PatrolForm
  <2> QED
    BY <1>0, <1>1, <2>1, <2>2, <2>3, PatrolKeeps DEF Begin
<1>2. CASE ForwardEnds
  <2>1. patrol' = [at |-> "pending", now |-> 0, budget |-> patrol.budget,
                   list |-> stBook.pending, row |-> patrol.row]
    BY <1>0, <1>2 DEF ForwardEnds, PatrolForm
  <2>2. PatrolForm'
    BY <1>0, <2>1 DEF PatrolForm
  <2> QED
    BY <1>0, <1>same, <1>2, <2>1, <2>2, PatrolKeeps DEF ForwardEnds, folded
<1>3. CASE PendingEnds
  <2>1. patrol' = [at |-> "dirty", now |-> patrol.now, budget |-> patrol.budget,
                   list |-> stBook.dirty, row |-> patrol.row]
    BY <1>0, <1>3 DEF PendingEnds, PatrolForm
  <2>2. PatrolForm'
    BY <1>0, <2>1 DEF PatrolForm
  <2> QED
    BY <1>0, <1>same, <1>3, <2>1, <2>2, PatrolKeeps DEF PendingEnds, folded
<1>4. CASE DirtyEnds
  <2> DEFINE list == IF Closed THEN StaleViews ELSE {}
  <2>1. patrol' = [at |-> "views", now |-> patrol.now, budget |-> patrol.budget,
                   list |-> list, row |-> patrol.row]
    BY <1>0, <1>4 DEF DirtyEnds, PatrolForm
  <2> HIDE DEF list
  <2>2. PatrolForm'
    BY <1>0, <2>1 DEF PatrolForm
  <2> QED
    BY <1>0, <1>same, <1>4, <2>1, <2>2, PatrolKeeps DEF DirtyEnds, folded
<1>5. CASE ViewsEnd
  <2>1. patrol' = [at |-> "backfill", now |-> patrol.now, budget |-> patrol.budget,
                   list |-> {}, row |-> patrol.row]
    BY <1>0, <1>5 DEF ViewsEnd, PatrolForm
  <2>2. PatrolForm'
    BY <1>0, <2>1 DEF PatrolForm
  <2> QED
    BY <1>0, <1>same, <1>5, <2>1, <2>2, PatrolKeeps DEF ViewsEnd, folded
<1>6. CASE BackfillEnds
  <2>1. patrol' = [at |-> "idle", now |-> 0, budget |-> 0, list |-> {}, row |-> "none"]
    BY <1>6 DEF BackfillEnds, Asleep
  <2>2. PatrolForm'
    BY <1>0, <2>1 DEF PatrolForm
  <2> QED
    BY <1>0, <1>same, <1>6, <2>1, <2>2, PatrolKeeps DEF BackfillEnds, folded
<1>7. CASE Enqueue
  <2>1. patrol' = [at |-> "pending", now |-> patrol.now, budget |-> patrol.budget,
                   list |-> patrol.list, row |-> "none"]
    BY <1>0, <1>7 DEF Enqueue, PatrolForm
  <2>2. patrol.row \in StatRows /\ stRaw[patrol.row].hour \in Hours
    BY <1>0, <1>7 DEF Enqueue, PatrolForm, RawType
  <2>3. stBook' \in Book /\ SameBook /\ \A h \in stBook'.dirty : IsClosed(h)
    BY <1>0, <1>7, <2>2, EnqueuedKeeps DEF Enqueue
  <2>4. PatrolForm'
    BY <1>0, <2>1 DEF PatrolForm
  <2> QED
    BY <1>7, <2>1, <2>3, <2>4, PatrolKeeps DEF Enqueue
<1>8. ASSUME NEW r \in StatRows, LookAt(r)
      PROVE  StatsInv'
  <2> DEFINE settled == r \in Existing /\ ~Open(r)
             pending == IF r \in Existing /\ Open(r) THEN stBook.pending
                        ELSE stBook.pending \ {r}
  <2>1. patrol' = [at |-> IF settled THEN "enqueue" ELSE patrol.at, now |-> patrol.now,
                   budget |-> patrol.budget, list |-> patrol.list \ {r},
                   row |-> IF settled THEN r ELSE patrol.row]
    BY <1>0, <1>8 DEF LookAt, PatrolForm
  <2>2. patrol.at = "pending" /\ stBook' = [stBook EXCEPT !.pending = pending]
    BY <1>8 DEF LookAt
  <2>3. pending \in SUBSET StatRows
    BY <1>0
  <2> HIDE DEF settled, pending
  <2>4. stBook' \in Book /\ SameBook /\ stBook'.dirty = stBook.dirty
    BY <1>0, <2>2, <2>3, BookPending DEF SameBook
  <2>5. PatrolForm'
    BY <1>0, <2>1, <2>2 DEF PatrolForm
  <2> QED
    BY <1>0, <1>8, <2>1, <2>2, <2>4, <2>5, PatrolKeeps DEF LookAt
<1> QED
  BY <1>1, <1>2, <1>3, <1>4, <1>5, <1>6, <1>7, <1>8

\* An hour that has no cells is folded: each of its rows is counted once.
LEMMA FoldedOnce ==
    ASSUME BooksInv, NEW hour, NEW cells \in [StatRows -> Counts],
           \A r \in RowsOf(hour) : cells[r] = Absent
    PROVE  /\ FoldInto(cells, hour) \in [StatRows -> Counts]
           /\ \A r \in StatRows :
                 FoldInto(cells, hour)[r] = IF r \in RowsOf(hour) THEN One(stRaw[r].state)
                                            ELSE cells[r]
<1>1. \A r \in RowsOf(hour) : stRaw[r].state \in Versions
  BY DEF RowsOf, Existing
<1>2. \A r \in RowsOf(hour) : /\ [cells[r] EXCEPT ![stRaw[r].state] = @ + 1]
                                  = One(stRaw[r].state)
                               /\ One(stRaw[r].state) \in Counts
  BY <1>1, CellsTyped
<1>3. FoldInto(cells, hour) =
          [r \in StatRows |-> IF r \in RowsOf(hour) THEN One(stRaw[r].state) ELSE cells[r]]
  BY <1>2 DEF FoldInto
<1> QED
  BY <1>2, <1>3

\* What a step that writes cells or the range owes.
LEMMA RangeKeeps ==
    ASSUME StatsInv, Quiet, NEW cells \in [StatRows -> Counts],
           stCell' = cells, \A r \in StatRows : stTotal'[r] = cells[r],
           stTotal' \in [StatRows -> Counts], UNCHANGED stView,
           stBook' \in Book, stBook'.dirty \subseteq stBook.dirty, stBook'.built = stBook.built,
           stBook.viewDirty \subseteq stBook'.viewDirty,
           \A h \in Hours : IsClosed(h) => stBook'.low <= h /\ h <= stBook'.high,
           stBook'.low <= stBook'.high,
           patrol' = [at |-> patrol.at, now |-> patrol.now, budget |-> patrol'.budget,
                     list |-> patrol'.list, row |-> patrol.row],
           patrol'.list \subseteq patrol.list,
           \A r \in StatRows :
              \/ cells[r] = stCell[r] \/ cells[r] = Absent
              \/ /\ stRaw[r].state \in Versions /\ cells[r] = One(stRaw[r].state)
                 /\ stBook'.low <= stRaw[r].hour /\ stRaw[r].hour <= stBook'.high,
           "all" \in stBook'.viewDirty \/ \A r \in StatRows : cells[r] = stCell[r],
           "short" \in stBook'.viewDirty
              \/ /\ Closed /\ stBook'.high = stBook.high
                 /\ \A r \in StatRows : stRaw[r].hour = stBook.high => cells[r] = stCell[r]
    PROVE  StatsInv'
<1>0. /\ BooksInv /\ (\A r \in StatRows : CellInv(r)) /\ ViewsAreFresh
      /\ PatrolForm /\ DirtyInv /\ StatsTypeOK
      /\ stBook.dirty \subseteq Hours /\ \A r \in StatRows : stRaw[r].hour \in Hours
  BY DEF StatsInv, BooksInv, StatsTypeOK
<1>1. /\ patrol'.at = patrol.at /\ patrol'.now = patrol.now /\ patrol'.row = patrol.row
      /\ patrol' = [at |-> patrol'.at, now |-> patrol'.now, budget |-> patrol'.budget,
                    list |-> patrol'.list, row |-> patrol'.row]
  OBVIOUS
<1>3. PatrolForm'
  BY <1>0, <1>1 DEF PatrolForm
<1>4. \A h \in Hours : IsClosed(h) => IsClosed(h)'
  BY DEF IsClosed, Closed
<1>5. DirtyInv'
  BY <1>0, <1>1, <1>4 DEF DirtyInv, IsClosed, Closed
<1>6. StatsTypeOK'
  BY <1>0, <1>1 DEF StatsTypeOK, Quiet, Book
<1>7. BooksInv'
  BY <1>3, <1>5, <1>6 DEF BooksInv
<1>8. ASSUME NEW r \in StatRows
      PROVE  CellInv(r)'
  <2>1. stTotal'[r] = stCell'[r] /\ stCell'[r] = cells[r] /\ UNCHANGED stRaw
    BY DEF Quiet
  <2>2. CASE cells[r] = Absent
    BY <2>1, <2>2 DEF CellInv, Absent
  <2>3. CASE cells[r] = stCell[r] /\ cells[r] # Absent
    <3>1. /\ IsClosed(stRaw[r].hour) /\ stRaw[r].state # "none"
          /\ \E v \in Versions : stCell[r] = One(v)
      BY <1>0, <2>3 DEF CellInv
    <3>2. IsClosed(stRaw[r].hour)'
      BY <1>0, <2>1, <3>1 DEF IsClosed, Closed
    <3> QED
      BY <2>1, <2>3, <3>1, <3>2 DEF CellInv, One, Absent
  <2>4. CASE /\ stRaw[r].state \in Versions /\ cells[r] = One(stRaw[r].state)
             /\ stBook'.low <= stRaw[r].hour /\ stRaw[r].hour <= stBook'.high
    <3>1. IsClosed(stRaw[r].hour)'
      BY <2>1, <2>4 DEF IsClosed, Closed
    <3>2. stRaw[r].state # "none"
      BY <2>4 DEF Versions, Settled
    <3> QED
      BY <2>1, <2>4, <3>1, <3>2 DEF CellInv, One, Absent
  <2> QED
    BY <2>2, <2>3, <2>4
<1>9. ASSUME NEW g \in Ranges, g \notin stBook'.viewDirty
      PROVE  Content(g)' = Content(g)
  <2>1. ASSUME NEW r \in StatRows, g = "all"
        PROVE  stTotal'[r] = stTotal[r]
    BY <1>0, <1>9, <2>1 DEF CellInv
  <2>2. ASSUME NEW r \in StatRows, g = "short"
        PROVE  (IF Closed /\ stRaw[r].hour = stBook.high THEN stCell[r] ELSE Absent)
                  = (IF stBook'.low <= stBook'.high /\ stRaw'[r].hour = stBook'.high
                     THEN stCell'[r] ELSE Absent)
    BY <1>9, <2>2 DEF Quiet
  <2> QED
    BY <1>0, <1>7, <2>1, <2>2, ContentStays
<1>10. ViewsAreFresh'
  BY <1>0, <1>9 DEF ViewsAreFresh, StaleViews
<1> QED
  BY <1>7, <1>8, <1>10 DEF StatsInv

LEMMA MarkedTyped ==
    ASSUME NEW book \in Book, NEW hour \in Hours, book.low <= hour, hour <= book.high
    PROVE  LET next == ViewsMarked(book, hour)
           IN  /\ next \in Book /\ next.low = book.low /\ next.high = book.high
               /\ next.built = book.built /\ next.dirty = book.dirty
               /\ book.viewDirty \subseteq next.viewDirty
               /\ "all" \in next.viewDirty
               /\ hour = book.high => "short" \in next.viewDirty
<1> DEFINE views == book.viewDirty \cup {g \in Ranges : RangeContains(book, g, hour)}
<1>1. views \in SUBSET Ranges
  BY DEF Book
<1>2. "all" \in views
  BY WindowOfAll DEF Ranges
<1>3. hour = book.high => "short" \in views
  BY WindowOfShort DEF Ranges
<1>4. book.viewDirty \subseteq views
  OBVIOUS
<1>5. ViewsMarked(book, hour) = [book EXCEPT !.viewDirty = views]
  BY DEF ViewsMarked
<1> HIDE DEF views
<1> QED
  BY <1>1, <1>2, <1>3, <1>4, <1>5, BookViews

\* close_hour of an hour next to the range, or of the first one.
LEMMA CloseKeeps ==
    ASSUME StatsInv, NEW hour \in Hours, CloseHour(hour),
           ~Closed \/ hour = stBook.high + 1 \/ hour = stBook.low - 1
    PROVE  StatsInv'
<1>0. /\ BooksInv /\ (\A r \in StatRows : CellInv(r)) /\ stBook \in Book
      /\ stCell \in [StatRows -> Counts] /\ stTotal \in [StatRows -> Counts]
  BY DEF StatsInv, BooksInv, StatsTypeOK
<1>hours. /\ stBook.low \in Hours /\ stBook.high \in -1..MaxHour
          /\ stBook.low \in Nat /\ stBook.high \in Int /\ hour \in Nat
          /\ hour <= MaxHour /\ MaxHour \in Nat /\ \A h \in Hours : h \in Nat
  BY <1>0, BookNumbers, HoursAreNatural
<1> DEFINE watched == Watched(stBook.pending, hour)
           book == [stBook EXCEPT !.pending = watched]
           low == IF Closed /\ ~(hour < stBook.low) THEN stBook.low ELSE hour
           high == IF Closed /\ ~(hour > stBook.high) THEN stBook.high ELSE hour
           opened == [book EXCEPT !.low = low]
           closed == CloseBook(book, hour)
<1>1. /\ book \in Book /\ book.low = stBook.low /\ book.high = stBook.high
      /\ book.viewDirty = stBook.viewDirty /\ book.built = stBook.built
      /\ book.dirty = stBook.dirty
  <2>1. watched \in SUBSET StatRows
    BY <1>0 DEF Watched, RowsOf, Existing, Book
  <2> HIDE DEF watched
  <2> QED
    BY <1>0, <2>1, BookPending
<1>2. /\ low \in Hours /\ high \in -1..MaxHour
      /\ low <= hour /\ hour <= high /\ low <= high
  <2>1. hour \in -1..MaxHour
    BY <1>hours
  <2> QED
    BY <1>hours, <2>1 DEF Closed
<1>3. closed = [opened EXCEPT !.high = high]
  BY <1>1 DEF CloseBook
<1> HIDE DEF book
<1>4. /\ closed \in Book /\ closed.low = low /\ closed.high = high
      /\ closed.viewDirty = stBook.viewDirty /\ closed.built = stBook.built
      /\ closed.dirty = stBook.dirty
  <2> HIDE DEF low, high, closed
  <2>1. /\ opened \in Book /\ opened.low = low
        /\ opened.viewDirty = stBook.viewDirty /\ opened.built = stBook.built
        /\ opened.dirty = stBook.dirty
    BY <1>1, <1>2, BookLow
  <2> HIDE DEF opened
  <2> QED
    BY <1>2, <1>3, <2>1, BookHigh
<1>5. stBook' = ViewsMarked(closed, hour)
  BY DEF CloseHour, book
<1>6. ~IsClosed(hour)
  BY <1>0, <1>hours DEF IsClosed, Closed
<1>7. \A h \in Hours : IsClosed(h) => low <= h /\ h <= high
  BY <1>0, <1>hours DEF IsClosed, Closed
<1>8. hour = high \/ (Closed /\ high = stBook.high /\ hour # high)
  BY <1>0, <1>hours
<1> HIDE DEF low, high, closed
<1>9. /\ stBook' \in Book /\ stBook'.low = low /\ stBook'.high = high
      /\ stBook'.built = stBook.built /\ stBook'.dirty = stBook.dirty
      /\ stBook.viewDirty \subseteq stBook'.viewDirty
      /\ "all" \in stBook'.viewDirty
      /\ hour = high => "short" \in stBook'.viewDirty
  BY <1>2, <1>4, <1>5, MarkedTyped
<1>10. \A r \in RowsOf(hour) : r \in StatRows /\ stCell[r] = Absent /\ stTotal[r] = Absent
  BY <1>0, <1>6 DEF RowsOf, Existing, CellInv
<1> DEFINE cells == FoldInto(stCell, hour)
<1>11. /\ cells \in [StatRows -> Counts]
       /\ \A r \in StatRows : cells[r] = IF r \in RowsOf(hour) THEN One(stRaw[r].state)
                                         ELSE stCell[r]
  BY <1>0, <1>10, FoldedOnce
<1>12. /\ FoldInto(stTotal, hour) \in [StatRows -> Counts]
       /\ \A r \in StatRows :
             FoldInto(stTotal, hour)[r] = IF r \in RowsOf(hour) THEN One(stRaw[r].state)
                                          ELSE stTotal[r]
  BY <1>0, <1>10, FoldedOnce
<1>13. stCell' = cells /\ stTotal' = FoldInto(stTotal, hour) /\ UNCHANGED stView /\ Quiet
  BY DEF CloseHour
<1> HIDE DEF cells
<1>14. \A r \in StatRows : stTotal'[r] = cells[r]
  BY <1>0, <1>11, <1>12, <1>13 DEF CellInv
<1>15. /\ patrol' = [at |-> patrol.at, now |-> patrol.now, budget |-> patrol'.budget,
                     list |-> patrol'.list, row |-> patrol.row]
       /\ patrol'.list = patrol.list
  <2>1. patrol = [at |-> patrol.at, now |-> patrol.now, budget |-> patrol.budget,
                  list |-> patrol.list, row |-> patrol.row]
    BY <1>0 DEF BooksInv, PatrolForm
  <2>2. patrol' = [patrol EXCEPT !.budget = patrol.budget - 1]
    BY DEF CloseHour
  <2>3. patrol' = [at |-> patrol.at, now |-> patrol.now, budget |-> patrol.budget - 1,
                   list |-> patrol.list, row |-> patrol.row]
    BY <2>1, <2>2
  <2> QED
    BY <2>1, <2>3
<1>16. ASSUME NEW r \in RowsOf(hour)
       PROVE  stRaw[r].state \in Versions /\ stRaw[r].hour = hour
  BY DEF RowsOf, Existing
<1>17. \A r \in StatRows :
           \/ cells[r] = stCell[r]
           \/ /\ stRaw[r].state \in Versions /\ cells[r] = One(stRaw[r].state)
              /\ stBook'.low <= stRaw[r].hour /\ stRaw[r].hour <= stBook'.high
  BY <1>2, <1>9, <1>11, <1>16
<1>18. \/ "short" \in stBook'.viewDirty
       \/ /\ Closed /\ stBook'.high = stBook.high
          /\ \A r \in StatRows : stRaw[r].hour = stBook.high => cells[r] = stCell[r]
  BY <1>8, <1>9, <1>11, <1>16
<1>19. stBook'.dirty \subseteq stBook.dirty /\ patrol'.list \subseteq patrol.list
       /\ stTotal' \in [StatRows -> Counts] /\ stBook'.low <= stBook'.high
       /\ \A h \in Hours : IsClosed(h) => stBook'.low <= h /\ h <= stBook'.high
  BY <1>2, <1>7, <1>9, <1>12, <1>13, <1>15
<1> QED
  BY <1>9, <1>11, <1>13, <1>14, <1>15, <1>17, <1>18, <1>19, RangeKeeps

\* A jump over hours that have no rows.
LEMMA JumpKeeps ==
    ASSUME StatsInv, NEW book \in Book, Jump(book),
           book.dirty = stBook.dirty, book.built = stBook.built,
           stBook.viewDirty \subseteq book.viewDirty, "all" \in book.viewDirty,
           Closed, book.low <= stBook.low, stBook.high <= book.high,
           "short" \in book.viewDirty \/ book.high = stBook.high
    PROVE  StatsInv'
<1>0. /\ BooksInv /\ (\A r \in StatRows : CellInv(r)) /\ stBook \in Book
      /\ stCell \in [StatRows -> Counts] /\ stTotal \in [StatRows -> Counts]
      /\ \A r \in StatRows : stRaw[r].hour \in Hours
  BY DEF StatsInv, BooksInv, StatsTypeOK
<1>1. /\ stBook.low \in Int /\ stBook.high \in Int /\ book.low \in Int /\ book.high \in Int
      /\ \A h \in Hours : h \in Int
  BY <1>0, BookNumbers, HoursAreNatural
<1>2. /\ stBook' = book /\ UNCHANGED <<stCell, stTotal, stView, patrol>> /\ Quiet
  BY DEF Jump, folded
<1>3. patrol' = [at |-> patrol.at, now |-> patrol.now, budget |-> patrol'.budget,
                     list |-> patrol'.list, row |-> patrol.row]
  BY <1>0, <1>2 DEF BooksInv, PatrolForm
<1>4. \A h \in Hours : IsClosed(h) => book.low <= h /\ h <= book.high
  BY <1>1 DEF IsClosed, Closed
<1>5. \A r \in StatRows : stTotal'[r] = stCell[r]
  BY <1>0, <1>2 DEF CellInv
<1>6. /\ stBook' \in Book /\ stBook'.dirty \subseteq stBook.dirty
      /\ stBook'.built = stBook.built /\ stBook.viewDirty \subseteq stBook'.viewDirty
      /\ stBook'.low <= stBook'.high /\ "all" \in stBook'.viewDirty
      /\ patrol'.list \subseteq patrol.list
      /\ stCell' = stCell /\ stTotal' \in [StatRows -> Counts]
      /\ \A h \in Hours : IsClosed(h) => stBook'.low <= h /\ h <= stBook'.high
  BY <1>0, <1>1, <1>2, <1>4 DEF Closed
<1> QED
  BY <1>0, <1>2, <1>3, <1>5, <1>6, RangeKeeps

\* advance_forward: the next hour with rows is folded when it is adjacent,
\* the empty ones before it are jumped over.
LEMMA ForwardKeeps ==
    ASSUME StatsInv, Forward
    PROVE  StatsInv'
<1>0. /\ BooksInv /\ stBook \in Book /\ stRaw \in RawType /\ patrol.now \in Hours
      /\ stBook.earliest \in -1..MaxHour
  BY DEF StatsInv, BooksInv, PatrolForm, StatsTypeOK, RawType
<1> DEFINE latest == LatestHour(patrol.now)
           rows == {r \in Existing : stRaw[r].hour \in (stBook.high + 1)..latest}
           next == FirstHour(rows)
<1>1. /\ stBook.high \in -1..MaxHour /\ stBook.high \in Int /\ stBook.low \in Nat
      /\ MaxHour \in Nat /\ \A h \in Hours : h \in Nat /\ h <= MaxHour
  BY <1>0, BookNumbers, HoursAreNatural
<1>2. stBook.earliest # -1 /\ stBook.earliest <= latest
  BY DEF Forward, ForwardNeeded, NoData
<1>3. latest \in Hours
  <2>1. latest \in Int /\ latest <= MaxHour
    BY <1>0, <1>1, StatsFoldAssumption DEF LatestHour
  <2>2. stBook.earliest \in Nat
    BY <1>0, <1>1, <1>2
  <2>3. latest \in Nat
    BY <1>2, <2>1, <2>2
  <2> QED
    BY <2>1, <2>3, HoursAreNatural
<1>4. rows \subseteq StatRows
  BY DEF Existing
<1>5. rows = {} => next = NoData
  BY DEF FirstHour
<1>6. ASSUME rows # {}
      PROVE  next \in Hours /\ next # NoData /\ next \in (stBook.high + 1)..latest
  <2> HIDE DEF latest
  <2>1. next \in Hours /\ \E r \in rows : stRaw[r].hour = next
    BY <1>0, <1>4, <1>6, FirstHourIsFirst
  <2>2. next \in (stBook.high + 1)..latest
    BY <2>1
  <2> HIDE DEF next
  <2> QED
    BY <1>1, <2>1, <2>2 DEF NoData
<1>7. IF ~Closed THEN CloseHour(latest)
      ELSE IF next = NoData THEN Jump(Slid(latest))
      ELSE IF next > stBook.high + 1 THEN Jump(Slid(next - 1))
      ELSE CloseHour(next)
  BY DEF Forward
<1>8. Closed => stBook.high < latest
  BY DEF Forward, ForwardNeeded
<1>9. ASSUME NEW high \in -1..MaxHour, Closed, stBook.high <= high, Jump(Slid(high))
      PROVE  StatsInv'
  <2> DEFINE moved == [stBook EXCEPT !.high = high]
             book == [moved EXCEPT !.viewDirty = Ranges]
  <2>1. /\ moved \in Book /\ moved.low = stBook.low /\ moved.high = high
        /\ moved.built = stBook.built /\ moved.dirty = stBook.dirty
    BY <1>0, BookHigh
  <2>2. Slid(high) = book
    BY DEF Slid
  <2> HIDE DEF moved
  <2>3. /\ book \in Book /\ book.low = stBook.low /\ book.high = high
        /\ book.built = stBook.built /\ book.dirty = stBook.dirty /\ book.viewDirty = Ranges
    BY <2>1, BookViews
  <2> HIDE DEF book
  <2>4. stBook.viewDirty \subseteq Ranges /\ "all" \in Ranges /\ "short" \in Ranges
    BY <1>0, BookNumbers DEF Ranges
  <2>5. book.low <= stBook.low /\ stBook.high <= book.high
    BY <1>1, <1>9, <2>3
  <2> QED
    BY <1>9, <2>2, <2>3, <2>4, <2>5, JumpKeeps
<1> HIDE DEF latest, next
<1>10. CASE ~Closed
  BY <1>3, <1>7, <1>10, CloseKeeps
<1>11. CASE Closed /\ next = NoData
  <2>1. latest \in -1..MaxHour /\ stBook.high <= latest
    BY <1>1, <1>3, <1>8, <1>11
  <2> QED
    BY <1>7, <1>9, <1>11, <2>1
<1>12. CASE Closed /\ next # NoData /\ next > stBook.high + 1
  <2>1. next \in Hours
    BY <1>5, <1>6, <1>12
  <2>2. next - 1 \in -1..MaxHour /\ stBook.high <= next - 1
    BY <1>1, <1>12, <2>1
  <2> QED
    BY <1>7, <1>9, <1>12, <2>2
<1>13. CASE Closed /\ next # NoData /\ ~(next > stBook.high + 1)
  <2>1. next \in Hours /\ next \in (stBook.high + 1)..latest
    BY <1>5, <1>6, <1>13
  <2>2. next = stBook.high + 1
    BY <1>1, <1>3, <1>13, <2>1
  <2> QED
    BY <1>7, <1>13, <2>1, <2>2, CloseKeeps
<1> QED
  BY <1>10, <1>11, <1>12, <1>13

\* advance_backfill: the same, downwards.
LEMMA BackfillKeeps ==
    ASSUME StatsInv, Backfill
    PROVE  StatsInv'
<1>0. /\ BooksInv /\ stBook \in Book /\ stRaw \in RawType
      /\ stBook.earliest \in -1..MaxHour
  BY DEF StatsInv, BooksInv, StatsTypeOK, RawType
<1>1. /\ stBook.high \in Int /\ stBook.low \in Nat /\ stBook.low <= MaxHour
      /\ MaxHour \in Nat /\ \A h \in Hours : h \in Nat /\ h <= MaxHour
  BY <1>0, BookNumbers, HoursAreNatural
<1>2. stBook.earliest # -1 /\ Closed /\ stBook.earliest < stBook.low
  BY DEF Backfill, BackfillNeeded, NoData
<1>3. stBook.earliest \in Hours
  <2>1. stBook.earliest \in Nat /\ stBook.earliest <= MaxHour
    BY <1>0, <1>1, <1>2
  <2> QED
    BY <2>1, HoursAreNatural
<1>4. IF RowsBelow = {} THEN JumpLow(stBook.earliest)
      ELSE IF LastBelow < stBook.low - 1 THEN JumpLow(LastBelow + 1)
      ELSE CloseHour(stBook.low - 1)
  BY DEF Backfill
<1>5. ASSUME NEW low \in Hours, low <= stBook.low, JumpLow(low)
      PROVE  StatsInv'
  <2> DEFINE moved == [stBook EXCEPT !.low = low]
             views == stBook.viewDirty \cup {"all"}
             book == [moved EXCEPT !.viewDirty = views]
  <2>1. /\ moved \in Book /\ moved.low = low /\ moved.high = stBook.high
        /\ moved.built = stBook.built /\ moved.dirty = stBook.dirty
        /\ moved.viewDirty = stBook.viewDirty
    BY <1>0, BookLow
  <2>2. Jump(book)
    BY <1>5, <2>1 DEF JumpLow
  <2>3. views \in SUBSET Ranges
    BY <1>0, BookNumbers DEF Ranges
  <2>4. stBook.viewDirty \subseteq views /\ "all" \in views
    OBVIOUS
  <2> HIDE DEF moved, views
  <2>5. /\ book \in Book /\ book.low = low /\ book.high = stBook.high
        /\ book.built = stBook.built /\ book.dirty = stBook.dirty /\ book.viewDirty = views
    BY <2>1, <2>3, BookViews
  <2> HIDE DEF book
  <2>6. book.low <= stBook.low /\ stBook.high <= book.high
    BY <1>1, <1>5, <2>5
  <2> QED
    BY <1>2, <2>2, <2>4, <2>5, <2>6, JumpKeeps
<1>6. CASE RowsBelow = {}
  BY <1>1, <1>2, <1>3, <1>4, <1>5, <1>6
<1>7. CASE RowsBelow # {}
  <2>1. LastBelow \in Hours
    BY <1>0, <1>7, LastBelowIsLast
  <2>2. CASE LastBelow < stBook.low - 1
    <3>1. LastBelow + 1 \in Nat /\ LastBelow + 1 <= stBook.low /\ LastBelow + 1 <= MaxHour
      BY <1>1, <2>1, <2>2
    <3>2. LastBelow + 1 \in Hours
      BY <3>1, HoursAreNatural
    <3> QED
      BY <1>4, <1>5, <1>7, <2>2, <3>1, <3>2
  <2>3. CASE ~(LastBelow < stBook.low - 1)
    <3>1. stBook.low - 1 \in Nat /\ stBook.low - 1 <= MaxHour
      BY <1>1, <1>2, <1>3
    <3>2. stBook.low - 1 \in Hours
      BY <3>1, HoursAreNatural
    <3> QED
      BY <1>4, <1>7, <2>3, <3>2, CloseKeeps
  <2> QED
    BY <2>2, <2>3
<1> QED
  BY <1>6, <1>7

\* recompute_dirty_hours: the cells of the hour leave and enter at once.
LEMMA RecomputeKeeps ==
    ASSUME StatsInv, NEW hour, Recompute(hour)
    PROVE  StatsInv'
<1>0. /\ BooksInv /\ (\A r \in StatRows : CellInv(r)) /\ stBook \in Book
      /\ stCell \in [StatRows -> Counts] /\ stTotal \in [StatRows -> Counts]
      /\ \A r \in StatRows : stRaw[r].hour \in Hours
  BY DEF StatsInv, BooksInv, StatsTypeOK
<1>1. hour \in Hours /\ IsClosed(hour)
  BY <1>0 DEF Recompute, BooksInv, DirtyInv
<1>2. Closed /\ stBook.low <= hour /\ hour <= stBook.high /\ stBook.low <= stBook.high
  BY <1>1 DEF IsClosed, Closed
<1> DEFINE clean == Cleared(stCell, hour)
           cells == FoldInto(clean, hour)
           totals == FoldInto(Subtracted(hour), hour)
           watched == Watched(stBook.pending, hour)
           left == stBook.dirty \ {hour}
           taken == [stBook EXCEPT !.dirty = left]
           book == [taken EXCEPT !.pending = watched]
<1>3. stCell' = cells /\ stTotal' = totals /\ UNCHANGED stView /\ Quiet
  BY DEF Recompute
<1>4. stBook' = ViewsMarked(book, hour)
  BY DEF Recompute
<1>5. /\ taken \in Book /\ taken.low = stBook.low /\ taken.high = stBook.high
      /\ taken.built = stBook.built /\ taken.viewDirty = stBook.viewDirty
      /\ taken.dirty = left
  <2>1. left \in SUBSET Hours
    BY <1>0, BookNumbers
  <2> HIDE DEF left
  <2> QED
    BY <1>0, <2>1, BookDirty
<1>6. watched \in SUBSET StatRows
  BY <1>0, BookNumbers DEF Watched, RowsOf, Existing
<1> HIDE DEF taken, watched
<1>7. /\ book \in Book /\ book.low = stBook.low /\ book.high = stBook.high
      /\ book.built = stBook.built /\ book.viewDirty = stBook.viewDirty
      /\ book.dirty = left
  BY <1>5, <1>6, BookPending
<1> HIDE DEF book
<1>8. /\ stBook' \in Book /\ stBook'.low = stBook.low /\ stBook'.high = stBook.high
      /\ stBook'.built = stBook.built /\ stBook'.dirty = left
      /\ stBook.viewDirty \subseteq stBook'.viewDirty
      /\ "all" \in stBook'.viewDirty
      /\ hour = stBook.high => "short" \in stBook'.viewDirty
  BY <1>1, <1>2, <1>4, <1>7, MarkedTyped
<1>9. /\ clean \in [StatRows -> Counts]
      /\ \A r \in StatRows : clean[r] = IF stRaw[r].hour = hour THEN Absent ELSE stCell[r]
  BY <1>0, CellsTyped DEF Cleared
<1>10. /\ Subtracted(hour) \in [StatRows -> Counts]
       /\ \A r \in StatRows : Subtracted(hour)[r] = clean[r]
  <2>1. ASSUME NEW r \in StatRows
        PROVE  [v \in Versions |-> stTotal[r][v] - stCell[r][v]] = Absent
    <3>1. stTotal[r] = stCell[r] /\ stCell[r] \in Counts
      BY <1>0 DEF CellInv
    <3>2. \A v \in Versions : stTotal[r][v] - stCell[r][v] = 0
      BY <3>1 DEF Counts
    <3> QED
      BY <3>2 DEF Absent
  <2>2. \A r \in StatRows :
           (IF stRaw[r].hour # hour THEN stTotal[r]
            ELSE [v \in Versions |-> stTotal[r][v] - stCell[r][v]]) = clean[r]
    BY <1>0, <1>9, <2>1 DEF CellInv
  <2>3. Subtracted(hour) = [r \in StatRows |-> clean[r]]
    BY <2>2 DEF Subtracted
  <2> HIDE DEF clean
  <2> QED
    BY <1>9, <2>3
<1>11. ASSUME NEW r \in RowsOf(hour)
       PROVE  /\ r \in StatRows /\ stRaw[r].state \in Versions /\ stRaw[r].hour = hour
              /\ clean[r] = Absent /\ Subtracted(hour)[r] = Absent
  BY <1>9, <1>10 DEF RowsOf, Existing
<1> HIDE DEF clean
<1>12. /\ cells \in [StatRows -> Counts]
       /\ \A r \in StatRows : cells[r] = IF r \in RowsOf(hour) THEN One(stRaw[r].state)
                                         ELSE clean[r]
  BY <1>0, <1>9, <1>11, FoldedOnce
<1>13. /\ totals \in [StatRows -> Counts]
       /\ \A r \in StatRows : totals[r] = IF r \in RowsOf(hour) THEN One(stRaw[r].state)
                                          ELSE Subtracted(hour)[r]
  BY <1>0, <1>10, <1>11, FoldedOnce
<1> HIDE DEF cells, totals
<1>14. \A r \in StatRows : stTotal'[r] = cells[r]
  BY <1>3, <1>10, <1>12, <1>13
<1>15. /\ patrol' = [at |-> patrol.at, now |-> patrol.now, budget |-> patrol'.budget,
                     list |-> patrol'.list, row |-> patrol.row]
       /\ patrol'.list \subseteq patrol.list
  <2>1. patrol = [at |-> patrol.at, now |-> patrol.now, budget |-> patrol.budget,
                  list |-> patrol.list, row |-> patrol.row]
    BY <1>0 DEF BooksInv, PatrolForm
  <2>2. patrol' = [patrol EXCEPT !.list = patrol.list \ {hour}]
    BY DEF Recompute
  <2>3. patrol' = [at |-> patrol.at, now |-> patrol.now, budget |-> patrol.budget,
                   list |-> patrol.list \ {hour}, row |-> patrol.row]
    BY <2>1, <2>2
  <2> QED
    BY <2>3
<1>16. \A r \in StatRows :
           \/ cells[r] = stCell[r] \/ cells[r] = Absent
           \/ /\ stRaw[r].state \in Versions /\ cells[r] = One(stRaw[r].state)
              /\ stBook'.low <= stRaw[r].hour /\ stRaw[r].hour <= stBook'.high
  BY <1>2, <1>8, <1>9, <1>11, <1>12
<1>17. \/ "short" \in stBook'.viewDirty
       \/ /\ Closed /\ stBook'.high = stBook.high
          /\ \A r \in StatRows : stRaw[r].hour = stBook.high => cells[r] = stCell[r]
  <2>1. CASE hour = stBook.high
    BY <1>8, <2>1
  <2>2. CASE hour # stBook.high
    BY <1>2, <1>8, <1>9, <1>11, <1>12, <2>2
  <2> QED
    BY <2>1, <2>2
<1>18. /\ stBook'.dirty \subseteq stBook.dirty /\ stBook'.low <= stBook'.high
       /\ stTotal' \in [StatRows -> Counts]
       /\ \A h \in Hours : IsClosed(h) => stBook'.low <= h /\ h <= stBook'.high
  BY <1>2, <1>3, <1>8, <1>13 DEF IsClosed
<1> QED
  BY <1>3, <1>8, <1>12, <1>14, <1>15, <1>16, <1>17, <1>18, RangeKeeps

\* rebuild_range: the view of one range becomes what it is to show.
LEMMA RebuildKeeps ==
    ASSUME StatsInv, NEW g \in Ranges, Rebuild(g)
    PROVE  StatsInv'
<1>0. /\ BooksInv /\ (\A r \in StatRows : CellInv(r)) /\ ViewsAreFresh
      /\ stBook \in Book /\ PatrolForm /\ DirtyInv /\ StatsTypeOK
  BY DEF StatsInv, BooksInv
<1>1. UNCHANGED <<stCell, stTotal>> /\ Quiet /\ patrol.at = "views"
  BY DEF Rebuild
<1> DEFINE views == stBook.viewDirty \ {g}
           built == stBook.built \cup {g}
           marked == [stBook EXCEPT !.viewDirty = views]
<1>2. stBook' = [marked EXCEPT !.built = built]
  BY DEF Rebuild
<1>3. /\ marked \in Book /\ marked.low = stBook.low /\ marked.high = stBook.high
      /\ marked.viewDirty = views /\ marked.built = stBook.built
      /\ marked.dirty = stBook.dirty
  <2>1. views \in SUBSET Ranges
    BY <1>0, BookNumbers
  <2> HIDE DEF views
  <2> QED
    BY <1>0, <2>1, BookViews
<1>4. built \in SUBSET Ranges
  BY <1>0 DEF StatsTypeOK
<1> HIDE DEF marked, built
<1>5. /\ stBook' \in Book /\ stBook'.low = stBook.low /\ stBook'.high = stBook.high
      /\ stBook'.viewDirty = views /\ stBook'.built = built /\ stBook'.dirty = stBook.dirty
  BY <1>2, <1>3, <1>4 DEF Book
<1>6. patrol' = [at |-> "views", now |-> patrol.now, budget |-> patrol.budget,
                 list |-> patrol.list \ {g}, row |-> patrol.row]
  BY <1>0, <1>1 DEF Rebuild, PatrolForm
<1>7. PatrolForm'
  BY <1>0, <1>6 DEF PatrolForm
<1>8. DirtyInv'
  BY <1>0, <1>5, <1>6 DEF DirtyInv, IsClosed, Closed
<1>9. Content(g) \in [StatRows -> Counts]
  <2>1. \A r \in StatRows : stTotal[r] \in Counts /\ stCell[r] \in Counts /\ Absent \in Counts
    BY <1>0, CellsTyped DEF StatsTypeOK
  <2> QED
    BY <2>1 DEF Content
<1>10. stView' = [stView EXCEPT ![g] = Content(g)]
  BY DEF Rebuild
<1>11. StatsTypeOK'
  <2>1. stView' \in [Ranges -> [StatRows -> Counts]]
    BY <1>0, <1>9, <1>10 DEF StatsTypeOK
  <2>2. /\ stBook'.low \in Hours /\ stBook'.high \in -1..MaxHour
        /\ stBook'.earliest \in -1..MaxHour
        /\ stBook'.pending \subseteq StatRows /\ stBook'.dirty \subseteq Hours
        /\ stBook'.viewDirty \subseteq Ranges /\ stBook'.built \subseteq Ranges
    BY <1>5 DEF Book
  <2> QED
    BY <1>0, <1>1, <1>6, <2>1, <2>2 DEF StatsTypeOK, Quiet
<1>12. BooksInv'
  BY <1>5, <1>7, <1>8, <1>11 DEF BooksInv
<1>13. ASSUME NEW r \in StatRows
       PROVE  CellInv(r)'
  BY <1>0, <1>1, <1>5 DEF CellInv, Quiet, IsClosed, Closed, One, Absent
<1>14. ASSUME NEW range \in Ranges
       PROVE  Content(range)' = Content(range)
  BY <1>0, <1>1, <1>5, <1>12, ContentStays DEF Quiet, Closed
<1>15. ASSUME NEW range \in Ranges, range \notin StaleViews'
       PROVE  stView'[range] = Content(range)
  <2>1. CASE range = g
    BY <1>0, <1>10, <2>1 DEF StatsTypeOK
  <2>2. CASE range # g
    <3>1. range \notin StaleViews
      BY <1>5, <1>15, <2>2 DEF StaleViews, built
    <3> QED
      BY <1>0, <1>10, <2>2, <3>1 DEF StatsTypeOK, ViewsAreFresh
  <2> QED
    BY <2>1, <2>2
<1>16. ViewsAreFresh'
  BY <1>14, <1>15 DEF ViewsAreFresh
<1> QED
  BY <1>12, <1>13, <1>16 DEF StatsInv

\* The process starts again between two commits.
LEMMA RestartKeeps ==
    ASSUME StatsInv, StatsRestart
    PROVE  StatsInv'
<1>0. BooksInv /\ stBook \in Book /\ StatsTypeOK /\ DirtyInv /\ 0 \in Hours
  BY HoursAreNatural DEF StatsInv, BooksInv
<1>1. UNCHANGED folded /\ UNCHANGED <<stClock, stRaw, stBook>>
  BY DEF StatsRestart
<1>2. patrol' = [at |-> "idle", now |-> 0, budget |-> 0, list |-> {}, row |-> "none"]
  BY DEF StatsRestart, Asleep
<1>3. PatrolForm'
  BY <1>0, <1>2 DEF PatrolForm
<1>4. DirtyInv'
  BY <1>0, <1>1, <1>2 DEF DirtyInv, IsClosed, Closed
<1>5. /\ stThread' \in {"live", "deleting", "gone"}
      /\ stFaults' \in 0..MaxStatFaults /\ stSkipped' \subseteq StatRows
  BY <1>0, StatsFoldAssumption DEF StatsRestart, StatsTypeOK
<1>6. StatsTypeOK'
  BY <1>0, <1>1, <1>2, <1>5 DEF StatsTypeOK, folded
<1>7. BooksInv'
  BY <1>0, <1>1, <1>3, <1>4, <1>6 DEF BooksInv
<1> QED
  BY <1>1, <1>7, FoldedStays DEF SameBook

LEMMA StatsStart == StatsInit => StatsInv
<1> SUFFICES ASSUME StatsInit
             PROVE  StatsInv
  OBVIOUS
<1>1. 0 \in Hours /\ -1 \in -1..MaxHour
  BY HoursAreNatural
<1>2. stBook = [low |-> 0, high |-> -1, earliest |-> -1, pending |-> {},
                dirty |-> {}, viewDirty |-> {}, built |-> {}]
  BY DEF StatsInit, NoData
<1>3. stBook \in Book
  BY <1>1, <1>2 DEF Book
<1>4. PatrolForm /\ patrol.at = "idle"
  BY <1>1 DEF StatsInit, PatrolForm, Asleep
<1>5. DirtyInv
  BY <1>2, <1>4 DEF DirtyInv
<1>6. StatsTypeOK
  <2>1. stRaw \in [StatRows -> [state : Versions \cup {"none", "gone"}, hour : Hours]]
    BY <1>1 DEF StatsInit
  <2>2. /\ stCell \in [StatRows -> Counts] /\ stTotal \in [StatRows -> Counts]
        /\ stView \in [Ranges -> [StatRows -> Counts]]
    BY CellsTyped DEF StatsInit
  <2>3. stClock \in Hours /\ stThread = "live" /\ stFaults \in 0..MaxStatFaults
        /\ stSkipped \subseteq StatRows
    BY <1>1, StatsFoldAssumption DEF StatsInit
  <2> QED
    BY <1>1, <1>2, <1>4, <2>1, <2>2, <2>3 DEF StatsTypeOK
<1>7. \A r \in StatRows : CellInv(r)
  BY DEF StatsInit, CellInv
<1>8. ViewsAreFresh
  BY <1>2 DEF ViewsAreFresh, StaleViews
<1> QED
  BY <1>3, <1>4, <1>5, <1>6, <1>7, <1>8 DEF StatsInv, BooksInv

LEMMA StatsStep == StatsInv /\ [StatsNext]_stVars => StatsInv'
<1> SUFFICES ASSUME StatsInv, [StatsNext]_stVars
             PROVE  StatsInv'
  OBVIOUS
<1>1. CASE UNCHANGED stVars
  <2>1. UNCHANGED <<folded, patrol, stFaults, stSkipped, stClock, stThread, stRaw, stBook>>
    BY <1>1 DEF stVars, folded
  <2>2. /\ stClock \in Hours /\ stThread \in {"live", "deleting", "gone"} /\ stRaw \in RawType
        /\ stBook \in Book /\ \A h \in stBook.dirty : IsClosed(h)
    BY DEF StatsInv, BooksInv, StatsTypeOK, RawType, DirtyInv
  <2> QED
    BY <2>1, <2>2, RequestKeeps DEF SameBook
<1>2. CASE \/ \E r \in StatRows : StatRecord(r) \/ SettleRow(r)
           \/ FinishAudit \/ ResultArrives \/ NoteDeleted \/ ThreadRowsGo \/ HourPasses
  BY <1>2, RequestSteps
<1>3. CASE PatrolStep
  <2>1. CASE \/ Begin \/ ForwardEnds \/ PendingEnds \/ DirtyEnds \/ ViewsEnd \/ BackfillEnds
             \/ Enqueue \/ \E r \in StatRows : LookAt(r)
    BY <2>1, PatrolMoves
  <2>2. CASE \/ Forward \/ Backfill
             \/ (\E h \in Hours : Recompute(h)) \/ (\E g \in Ranges : Rebuild(g))
    BY <2>2, ForwardKeeps, BackfillKeeps, RecomputeKeeps, RebuildKeeps
  <2> QED
    BY <1>3, <2>1, <2>2, Zenon DEF PatrolStep
<1>4. CASE StatsRestart
  BY <1>4, RestartKeeps
<1> QED
  BY <1>1, <1>2, <1>3, <1>4, Zenon DEF StatsNext

\* Every variable of the usage statistics keeps its type; in particular no
\* count of a cell, of a total or of a view is ever negative.
THEOREM StatsTypes == StatsSpec => []StatsTypeOK
<1>1. StatsInv => StatsTypeOK
  BY DEF StatsInv, BooksInv
<1> QED
  BY <1>1, StatsStart, StatsStep, PTL DEF StatsSpec

\* From the raw rows to the cells, to the totals, to the views: whatever the
\* patrol folds, jumps over, recomputes and rebuilds (close_hour,
\* jump_closed_high, advance_backfill, recompute_dirty_hours, rebuild_range),
\* whatever requests write between its commits and wherever it is stopped,
\* the totals are the sum of the cells, a row is in them once, and a view that
\* is not marked shows what a rebuild would show.
THEOREM StatisticsAddUp == StatsSpec => []StatsAddUp
<1>1. ASSUME StatsInv
      PROVE  TotalsAreCells
  <2> SUFFICES ASSUME NEW r \in StatRows
               PROVE  /\ stTotal[r] = stCell[r]
                      /\ \A v \in Versions : stCell[r][v] > 0 =>
                            /\ IsClosed(stRaw[r].hour)
                            /\ stCell[r] = [Absent EXCEPT ![v] = 1]
    BY DEF TotalsAreCells
  <2>1. CellInv(r)
    BY <1>1 DEF StatsInv
  <2>2. \A v, w \in Versions : One(w)[v] > 0 => w = v
    BY DEF One, Absent
  <2>3. \A v \in Versions : ~(Absent[v] > 0)
    BY DEF Absent
  <2> QED
    BY <2>1, <2>2, <2>3 DEF CellInv, One
<1>2. StatsInv => StatsAddUp
  BY <1>1 DEF StatsInv, StatsAddUp
<1> QED
  BY <1>2, StatsStart, StatsStep, PTL DEF StatsSpec

-----------------------------------------------------------------------------
(* The three beside each other.                                            *)

\* Every variable of these components keeps its type, whichever of them takes
\* the steps.
THEOREM RecordsTypes == RecordsSpec => []RecordsTypeOK
<1> DEFINE Inv == PageInv /\ MachineInv /\ StatsInv
<1>1. RecordsInit => Inv
  BY PageInit, MachineInit, StatsStart DEF RecordsInit
<1>2. Inv /\ [RecordsNext]_recordsVars => Inv'
  <2>1. [RecordsNext]_recordsVars => /\ [TsNext]_tsVars /\ [MaNext]_maVars
                                    /\ [StatsNext]_stVars
    BY Zenon DEF RecordsNext, TsOnly, MaOnly, StatsOnly, recordsVars
  <2> QED
    BY <2>1, PageStep, MachineStep, StatsStep
<1>3. Inv => RecordsTypeOK
  BY DEF RecordsTypeOK, PageInv, MachineInv, StatsInv, BooksInv
<1> QED
  BY <1>1, <1>2, <1>3, PTL DEF RecordsSpec

=============================================================================
