--------------------------- MODULE ThreadRunProofs ---------------------------
(***************************************************************************)
(* Theorems about ThreadRun, for any number of tasks, requests, items and  *)
(* faults.                                                                 *)
(***************************************************************************)
EXTENDS ThreadRun, TLAPS

-----------------------------------------------------------------------------
(* The pieces of the type invariant that several actions share.            *)

\* Appending a record keeps the history a sequence of records.
LEMMA AppendType ==
    ASSUME NEW h \in Seq(Record), NEW r \in Record
    PROVE  /\ Append(h, r) \in Seq(Record)
           /\ Len(Append(h, r)) = Len(h) + 1
           /\ Append(h, r)[Len(h) + 1] = r
           /\ \A i \in DOMAIN h : i \in DOMAIN Append(h, r) /\ Append(h, r)[i] = h[i]
           /\ \A i \in DOMAIN Append(h, r) : i \in DOMAIN h \/ i = Len(h) + 1
  OBVIOUS

LEMMA RecType ==
    ASSUME NEW kind \in Kinds, NEW req \in Nat, NEW ref \in Nat
    PROVE  Rec(kind, req, ref) \in Record
  BY DEF Rec, Record

LEMMA NewTaskType ==
    ASSUME NEW pc \in Labels, NEW rec \in Nat, NEW op \in Operations
    PROVE  NewTask(pc, rec, op) \in TaskState
  BY DEF NewTask, TaskState, Labels

\* A task that changes stays a task, and the others are as they were.
LEMMA UpdateType ==
    ASSUME TypeOK, NEW t \in Tasks, NEW s \in TaskState, task' = [task EXCEPT ![t] = s]
    PROVE  task' \in [Tasks -> TaskState]
  BY DEF TypeOK

\* Every label is one.
LEMMA LabelNames ==
    \A pc \in {"none", "start", "wait", "waiting", "settle", "tools", "waitcall",
               "effect", "answer", "context", "manual", "infer", "enqueue",
               "compacting", "checkpoint", "responded", "decide", "retry",
               "end", "succeed", "fail", "clear"} : pc \in Labels
  BY DEF Labels

\* The combinations of fields that steps assign.
LEMMA FieldTypes ==
    ASSUME NEW s \in TaskState, NEW pc \in Labels, NEW back \in {"none", "tools", "infer"},
           NEW n \in Nat, NEW pend \in SUBSET Nat,
           NEW resp \in {"none", "message", "local", "worker", "again"}
    PROVE  /\ [s EXCEPT !.pc = pc, !.call = n, !.pend = pend, !.back = back] \in TaskState
           /\ [s EXCEPT !.pc = pc, !.call = n, !.back = back] \in TaskState
           /\ [s EXCEPT !.pc = pc, !.pend = pend] \in TaskState
           /\ [s EXCEPT !.pc = pc, !.tail = n] \in TaskState
           /\ [s EXCEPT !.resp = resp] \in TaskState
           /\ [s EXCEPT !.resp = resp, !.pc = pc] \in TaskState
           /\ [s EXCEPT !.resp = resp, !.pc = pc, !.call = n, !.back = back] \in TaskState
  BY DEF TaskState

LEMMA CounterTypes ==
    ASSUME NEW s \in TaskState, NEW pc \in Labels, NEW n \in Nat, NEW m \in Nat,
           NEW resp \in {"none", "message", "local", "worker", "again"}
    PROVE  /\ [s EXCEPT !.pc = pc, !.tail = n, !.resp = resp] \in TaskState
           /\ [s EXCEPT !.pc = pc, !.tail = n, !.pro = m] \in TaskState
           /\ [s EXCEPT !.pc = pc, !.over = n, !.resp = resp] \in TaskState
  BY DEF TaskState

LEMMA ProgramCounterType ==
    ASSUME NEW s \in TaskState, NEW pc \in Labels
    PROVE  [s EXCEPT !.pc = pc] \in TaskState
  BY DEF TaskState

\* The three ways a task moves on keep its type.
LEMMA MoveType ==
    ASSUME TypeOK, NEW t \in Tasks
    PROVE  /\ \A pc \in Labels : Goto(t, pc) => task' \in [Tasks -> TaskState]
           /\ \A res \in {"ok", "error", "cancelled"} :
                 Finish(t, res) => task' \in [Tasks -> TaskState]
           /\ NextLap(t) => task' \in [Tasks -> TaskState]
  <1>1. ASSUME NEW pc \in Labels, Goto(t, pc) PROVE task' \in [Tasks -> TaskState]
    <2>1. [task[t] EXCEPT !.pc = pc] \in TaskState
      BY ProgramCounterType DEF TypeOK
    <2>2. task' = [task EXCEPT ![t] = [task[t] EXCEPT !.pc = pc]]
      BY <1>1 DEF Goto
    <2> QED BY <2>1, <2>2, UpdateType
  <1>2. ASSUME NEW res \in {"ok", "error", "cancelled"}, Finish(t, res)
        PROVE task' \in [Tasks -> TaskState]
    BY <1>2 DEF TypeOK, Finish, NewTask, TaskState, Labels
  <1>3. ASSUME NextLap(t) PROVE task' \in [Tasks -> TaskState]
    BY <1>3 DEF TypeOK, NextLap, NewTask, TaskState, Labels
  <1> QED BY <1>1, <1>2, <1>3

\* Registering a request keeps the types of the registry and the tasks.
LEMMA RegisterType ==
    ASSUME TypeOK, NEW t \in Tasks, NEW rec \in Nat, NEW op \in Operations,
           Register(t, rec, op)
    PROVE  active' \in Tasks \cup {NoTask} /\ task' \in [Tasks -> TaskState]
  <1>1. NewTask("start", rec, op) \in TaskState
    BY NewTaskType DEF Labels
  <1>2. \A u \in Tasks : [task[u] EXCEPT !.sig = TRUE] \in TaskState
    BY DEF TypeOK, TaskState
  <1>3. \A u \in Tasks : task[u] \in TaskState
    BY DEF TypeOK
  <1> QED BY <1>1, <1>2, <1>3 DEF Register

-----------------------------------------------------------------------------
(* How the history grows.                                                  *)

\* g continues h.
Extends(h, g) == DOMAIN h \subseteq DOMAIN g /\ \A i \in DOMAIN h : g[i] = h[i]

\* g continues h without a new boundary.
Quiet(h, g) == Extends(h, g) /\ \A i \in DOMAIN g \ DOMAIN h : ~IsBoundary(g[i])

\* BoundaryOwnsHistory of any history.
Owned(h) ==
    \A i \in DOMAIN h : h[i].kind \in OwnedKinds =>
        /\ h[i].req \in 1..i
        /\ \A j \in DOMAIN h : h[i].req < j /\ j < i => ~IsBoundary(h[j])

\* A record that may be written now: if a request owns it, it is the request
\* itself or one that no boundary supersedes.
Fits(h, r) ==
    r.kind \in OwnedKinds => r.req \in 1..(Len(h) + 1) /\ ~Superseded(h, r.req)

\* Writing a record that fits keeps every request in charge of its records.
LEMMA OwnedAppend ==
    ASSUME NEW h \in Seq(Record), NEW r \in Record, Owned(h), Fits(h, r)
    PROVE  Owned(Append(h, r))
  <1> DEFINE g == Append(h, r)
  <1>1. /\ Len(h) \in Nat /\ DOMAIN h = 1..Len(h) /\ DOMAIN g = 1..(Len(h) + 1)
        /\ g[Len(h) + 1] = r /\ \A i \in DOMAIN h : g[i] = h[i]
    OBVIOUS
  <1> SUFFICES ASSUME NEW i \in DOMAIN g, g[i].kind \in OwnedKinds
               PROVE  /\ g[i].req \in 1..i
                      /\ \A j \in DOMAIN g : g[i].req < j /\ j < i => ~IsBoundary(g[j])
    BY DEF Owned
  <1> HIDE DEF g
  <1>2. CASE i \in DOMAIN h
    BY <1>1, <1>2 DEF Owned
  <1>3. CASE i = Len(h) + 1
    <2>1. r.req \in 1..(Len(h) + 1) /\ ~Superseded(h, r.req)
      BY <1>1, <1>3 DEF Fits
    <2> QED BY <1>1, <1>3, <2>1 DEF Superseded
  <1> QED BY <1>1, <1>2, <1>3

\* Writing one record extends the history, quietly unless it is a boundary.
LEMMA QuietAppend ==
    ASSUME NEW h \in Seq(Record), NEW r \in Record
    PROVE  Extends(h, Append(h, r)) /\ (~IsBoundary(r) => Quiet(h, Append(h, r)))
  BY DEF Extends, Quiet

LEMMA QuietSame ==
    ASSUME NEW h \in Seq(Record)
    PROVE  Extends(h, h) /\ Quiet(h, h)
  BY DEF Extends, Quiet

\* The copies and notes added before a context is compiled belong to nobody.
LEMMA NotedHistory ==
    ASSUME NEW h \in Seq(Record), NEW n \in Noted(h)
    PROVE  n \in Seq(Record) /\ Quiet(h, n) /\ (Owned(h) => Owned(n))
  <1>1. Rec("note", 0, 0) \in Record
    BY RecType DEF Kinds, ProtocolKinds
  <1>2. ~IsBoundary(Rec("note", 0, 0)) /\ Fits(h, Rec("note", 0, 0))
    BY DEF IsBoundary, BoundaryKinds, Rec, Fits, OwnedKinds, CallKinds
  <1>3. n = h \/ n = Append(h, Rec("note", 0, 0))
    BY DEF Noted
  <1>4. CASE n = h
    BY <1>4, QuietSame
  <1>5. CASE n = Append(h, Rec("note", 0, 0))
    BY <1>1, <1>2, <1>5, QuietAppend, OwnedAppend, AppendType
  <1> QED BY <1>3, <1>4, <1>5

LEMMA QuietTransitive ==
    ASSUME NEW f, NEW g, NEW h, Quiet(f, g), Quiet(g, h)
    PROVE  Quiet(f, h)
  BY DEF Quiet, Extends

\* How current_context changes the history and the task that compiles it.
LEMMA ContextShape ==
    ASSUME TypeOK, NEW t \in Tasks, Context(t)
    PROVE  /\ \E switched \in Noted(hist) : hist' = switched \/ hist' \in Noted(switched)
           /\ \/ Finish(t, "cancelled")
              \/ \E tail \in Nat :
                    \/ task' = [task EXCEPT ![t].pc = "infer", ![t].tail = tail,
                                            ![t].resp = "none"]
                    \/ task' = [task EXCEPT ![t].pc = "compacting",
                                            ![t].tail = tail, ![t].pro = @ + 1]
  <1>1. PICK switched \in Noted(hist) :
             IF ~Current(switched, task[t].rec) \/ status # "running"
             THEN hist' = switched /\ Finish(t, "cancelled")
             ELSE \E h \in Noted(switched) : \E tail \in DOMAIN h :
                 /\ hist' = h
                 /\ \/ task' = [task EXCEPT ![t].pc = "infer", ![t].tail = tail,
                                            ![t].resp = "none"]
                    \/ task' = [task EXCEPT ![t].pc = "compacting",
                                            ![t].tail = tail, ![t].pro = @ + 1]
    BY Zenon DEF Context
  <1>2. CASE ~Current(switched, task[t].rec) \/ status # "running"
    BY <1>1, <1>2, Zenon
  <1>3. CASE ~(~Current(switched, task[t].rec) \/ status # "running")
    <2>1. PICK h \in Noted(switched) : \E tail \in DOMAIN h :
                 /\ hist' = h
                 /\ \/ task' = [task EXCEPT ![t].pc = "infer", ![t].tail = tail,
                                            ![t].resp = "none"]
                    \/ task' = [task EXCEPT ![t].pc = "compacting",
                                            ![t].tail = tail, ![t].pro = @ + 1]
      BY <1>1, <1>3, Zenon
    <2>2. h \in Seq(Record)
      BY NotedHistory DEF TypeOK
    <2>3. DOMAIN h \subseteq Nat
      BY <2>2
    <2> QED BY <2>1, <2>3, Zenon
  <1> QED BY <1>2, <1>3, Zenon

-----------------------------------------------------------------------------
(* Type correctness.                                                       *)

LEMMA TypeInit == Init => TypeOK
  <1> SUFFICES ASSUME Init PROVE TypeOK
    OBVIOUS
  <1>1. NoRun \in TaskState
    BY NewTaskType DEF NoRun, Labels, Operations
  <1>2. task \in [Tasks -> TaskState]
    BY <1>1 DEF Init
  <1>3. lock \in LockState
    BY DEF Init, LockState, Unlocked, Operations
  <1>4. hist \in Seq(Record)
    BY DEF Init
  <1>5. status \in {"idle", "running", "failed"} /\ retry \in Nat /\ blocked \in BOOLEAN
    BY DEF Init
  <1>6. active \in Tasks \cup {NoTask} /\ done \subseteq Nat /\ faults \in Nat
    BY DEF Init
  <1> QED BY <1>2, <1>3, <1>4, <1>5, <1>6 DEF TypeOK

\* The handlers.
LEMMA TypeHandlers ==
    ASSUME TypeOK, Handlers
    PROVE  TypeOK'
  <1>1. ASSUME NEW kind \in {"input", "continue", "compact"}, RecordRequest(kind)
        PROVE  /\ hist' \in Seq(Record)
               /\ status' \in {"idle", "running", "failed"} /\ retry' \in Nat
               /\ blocked' \in BOOLEAN /\ done' \subseteq Nat
    <2>1. Rec(kind, Len(hist) + 1, 0) \in Record
      BY RecType DEF TypeOK, Kinds, BoundaryKinds
    <2> QED BY <1>1, <2>1, AppendType DEF RecordRequest, TypeOK
  <1>2. ASSUME RecordCancel
        PROVE  /\ hist' \in Seq(Record) /\ status' \in {"idle", "running", "failed"}
               /\ retry' \in Nat /\ blocked' \in BOOLEAN /\ done' \subseteq Nat
    <2>1. Rec("cancel", Len(hist) + 1, 0) \in Record
      BY RecType DEF TypeOK, Kinds, BoundaryKinds
    <2> QED BY <1>2, <2>1, AppendType DEF RecordCancel, TypeOK
  <1>3. ASSUME NEW kind \in {"input", "continue", "compact"}, EnqueueCommit(kind)
        PROVE  TypeOK'
    <2>1. lock' \in LockState
      BY <1>3 DEF EnqueueCommit, TypeOK, LockState, OperationOf, Operations
    <2> QED BY <1>1, <1>3, <2>1 DEF EnqueueCommit, TypeOK
  <1>4. ASSUME NEW kind \in {"input", "continue", "compact"}, EnqueueDropped(kind)
        PROVE  TypeOK'
    BY <1>1, <1>4 DEF EnqueueDropped, Fault, TypeOK
  <1>5. ASSUME CancelCommit PROVE TypeOK'
    <2>1. lock' \in LockState
      BY <1>5 DEF CancelCommit, LockState, Unlocked, Operations
    <2> QED BY <1>2, <1>5, <2>1 DEF CancelCommit, TypeOK, durable
  <1>6. ASSUME CancelDropped PROVE TypeOK'
    BY <1>2, <1>6 DEF CancelDropped, Fault, TypeOK
  <1>7. ASSUME CancelSignal PROVE TypeOK'
    <2>1. \A u \in Tasks : [task[u] EXCEPT !.sig = TRUE] \in TaskState
      BY DEF TypeOK, TaskState
    <2>2. task' \in [Tasks -> TaskState]
      BY <1>7, <2>1 DEF CancelSignal, TypeOK
    <2>3. lock' \in LockState
      BY <1>7 DEF CancelSignal, LockState, Unlocked, Operations
    <2> QED BY <1>7, <2>2, <2>3 DEF CancelSignal, TypeOK, durable
  <1>8. ASSUME NEW t \in Tasks, EnqueueRegister(t) PROVE TypeOK'
    <2>1. lock.rec \in Nat /\ lock.as \in Operations
      BY DEF TypeOK, LockState
    <2>2. active' \in Tasks \cup {NoTask} /\ task' \in [Tasks -> TaskState]
      BY <1>8, <2>1, RegisterType DEF EnqueueRegister, TypeOK
    <2>3. lock' \in LockState
      BY <1>8 DEF EnqueueRegister, LockState, Unlocked, Operations
    <2> QED BY <1>8, <2>2, <2>3 DEF EnqueueRegister, TypeOK, durable
  <1> QED BY <1>3, <1>4, <1>5, <1>6, <1>7, <1>8 DEF Handlers

\* The supervisor and the faults of the whole process.
LEMMA TypeSupervisor ==
    ASSUME TypeOK, Supervisor \/ Crash
    PROVE  TypeOK'
  <1>1. ASSUME EnsureRead PROVE TypeOK'
    <2>1. lock' \in LockState
      BY <1>1 DEF EnsureRead, TypeOK, LockState, OperationOf, Operations
    <2> QED BY <1>1, <2>1 DEF EnsureRead, TypeOK, durable
  <1>2. ASSUME NEW t \in Tasks, EnsureRegister(t) PROVE TypeOK'
    <2>1. lock.rec \in Nat /\ lock.as \in Operations
      BY DEF TypeOK, LockState
    <2>2. active' \in Tasks \cup {NoTask} /\ task' \in [Tasks -> TaskState]
      BY <1>2, <2>1, RegisterType DEF EnsureRegister
    <2>3. lock' \in LockState
      BY <1>2 DEF EnsureRegister, LockState, Unlocked, Operations
    <2> QED BY <1>2, <2>2, <2>3 DEF EnsureRegister, TypeOK, durable
  <1>3. ASSUME Crash PROVE TypeOK'
    <2>1. NoRun \in TaskState
      BY NewTaskType DEF NoRun, Labels, Operations
    <2>2. lock' \in LockState
      BY <1>3 DEF Crash, LockState, Unlocked, Operations
    <2> QED BY <1>3, <2>1, <2>2 DEF Crash, Fault, TypeOK, durable
  <1> QED BY <1>1, <1>2, <1>3 DEF Supervisor

\* What a step may append for a task, and that it keeps the history typed.
LEMMA TaskRecordType ==
    ASSUME TypeOK, NEW t \in Tasks, NEW kind \in Kinds, NEW ref \in Nat
    PROVE  Append(hist, Rec(kind, task[t].rec, ref)) \in Seq(Record)
  <1>1. task[t].rec \in Nat
    BY DEF TypeOK, TaskState
  <1> QED BY <1>1, RecType, AppendType DEF TypeOK

\* Steps that only read the database.
LEMMA TypeReaders ==
    ASSUME TypeOK, NEW t \in Tasks
    PROVE  (\/ Load(t) \/ Wait(t) \/ Waited(t) \/ Settle(t) \/ SettleNext(t)
            \/ WaitCall(t) \/ ManualContext(t) \/ StreamEnqueue(t) \/ StreamError(t)
            \/ Responded(t) \/ Ending(t)) => TypeOK'
  <1> DEFINE Typed == task' \in [Tasks -> TaskState]
  <1>0. task[t] \in TaskState
    BY DEF TypeOK
  <1>1. ASSUME Load(t) PROVE Typed /\ ReadOnly
    BY <1>1, MoveType DEF Load, Labels
  <1>2. ASSUME Wait(t) PROVE Typed /\ ReadOnly
    BY <1>2, MoveType DEF Wait, Labels
  <1>3. ASSUME Waited(t) PROVE Typed /\ ReadOnly
    BY <1>3, MoveType DEF Waited, Labels
  <1>4. ASSUME Settle(t) PROVE Typed /\ ReadOnly
    <2>1. Unanswered(hist, task[t].rec) \in SUBSET Nat
      BY DEF Unanswered, TypeOK
    <2> DEFINE s == [task[t] EXCEPT !.pc = "tools", !.pend = Unanswered(hist, task[t].rec)]
    <2>2. s \in TaskState
      BY <1>0, <2>1 DEF TaskState, Labels
    <2>3. CASE Stale(t)
      BY <1>4, <2>3, MoveType DEF Settle
    <2>4. CASE ~Stale(t)
      <3>1. task' = [task EXCEPT ![t] = s]
        BY <1>4, <2>4 DEF Settle
      <3> QED BY <1>4, <2>2, <3>1, UpdateType DEF Settle
    <2> QED BY <2>3, <2>4
  <1>5. ASSUME SettleNext(t) PROVE Typed /\ ReadOnly
    <2>1. CASE task[t].pend = {}
      BY <1>5, <2>1, MoveType DEF SettleNext, Labels
    <2>2. CASE task[t].pend # {} /\ task[t].sig
      BY <1>5, <2>2, MoveType DEF SettleNext
    <2>3. CASE task[t].pend # {} /\ ~task[t].sig
      <3>1. PICK c \in task[t].pend :
               IF hist[c].kind = "call" /\ Stale(t)
               THEN Finish(t, "cancelled")
               ELSE task' = [task EXCEPT
                        ![t].pc = IF hist[c].kind = "call" THEN "waitcall" ELSE "effect",
                        ![t].call = c,
                        ![t].pend = @ \ {c},
                        ![t].back = "tools"]
        BY <1>5, <2>3 DEF SettleNext
      <3> DEFINE s == [task[t] EXCEPT
                        !.pc = IF hist[c].kind = "call" THEN "waitcall" ELSE "effect",
                        !.call = c, !.pend = @ \ {c}, !.back = "tools"]
      <3>2. s \in TaskState
        <4>1. task[t].pend \ {c} \in SUBSET Nat /\ c \in Nat
          BY <1>0 DEF TaskState
        <4> QED BY <1>0, <4>1, FieldTypes, LabelNames
      <3>3. CASE hist[c].kind = "call" /\ Stale(t)
        BY <1>5, <3>1, <3>3, MoveType DEF SettleNext
      <3>4. CASE ~(hist[c].kind = "call" /\ Stale(t))
        <4>1. task' = [task EXCEPT ![t] = s]
          BY <3>1, <3>4
        <4> QED BY <1>5, <3>2, <4>1, UpdateType DEF SettleNext
      <3> QED BY <3>3, <3>4
    <2> QED BY <2>1, <2>2, <2>3
  <1>6. ASSUME WaitCall(t) PROVE Typed /\ ReadOnly
    <2> DEFINE s == [task[t] EXCEPT !.pc = "tools", !.call = 0, !.back = "none"]
    <2>1. s \in TaskState
      BY <1>0, FieldTypes, LabelNames
    <2>2. CASE ~task[t].sig /\ Answered(hist, task[t].call)
      <3>1. task' = [task EXCEPT ![t] = s]
        BY <1>6, <2>2 DEF WaitCall
      <3> QED BY <1>6, <2>1, <3>1, UpdateType DEF WaitCall
    <2>3. CASE ~(~task[t].sig /\ Answered(hist, task[t].call))
      BY <1>6, <2>3, MoveType DEF WaitCall, Labels
    <2> QED BY <2>2, <2>3
  <1>7. ASSUME ManualContext(t) PROVE Typed /\ ReadOnly
    <2>1. PICK tail \in DOMAIN hist :
             task' = [task EXCEPT ![t].pc = "compacting", ![t].tail = tail]
      BY <1>7 DEF ManualContext
    <2> DEFINE s == [task[t] EXCEPT !.pc = "compacting", !.tail = tail]
    <2>2. tail \in Nat
      BY DEF TypeOK
    <2>3. s \in TaskState
      BY <1>0, <2>2 DEF TaskState, Labels
    <2>4. task' = [task EXCEPT ![t] = s]
      BY <2>1
    <2> QED BY <1>7, <2>3, <2>4, UpdateType DEF ManualContext
  <1>8. ASSUME StreamEnqueue(t) PROVE Typed /\ ReadOnly
    BY <1>8, MoveType DEF StreamEnqueue, Labels
  <1>9. ASSUME StreamError(t) PROVE Typed /\ ReadOnly
    <2> DEFINE r == [task[t] EXCEPT !.pc = "retry", !.tail = 0, !.resp = "none"]
    <2> DEFINE s == [task[t] EXCEPT !.pc = "compacting", !.over = @ + 1, !.resp = "none"]
    <2>0. task[t].over + 1 \in Nat
      BY <1>0 DEF TaskState
    <2>1. r \in TaskState /\ s \in TaskState
      BY <1>0, <2>0, CounterTypes, LabelNames
    <2>2. CASE task' = [task EXCEPT ![t].pc = "retry", ![t].tail = 0, ![t].resp = "none"]
      <3>1. task' = [task EXCEPT ![t] = r]
        BY <2>2
      <3> QED BY <1>9, <2>1, <3>1, UpdateType DEF StreamError
    <2>3. CASE task' = [task EXCEPT ![t].pc = "compacting", ![t].over = @ + 1,
                                    ![t].resp = "none"]
      <3>1. task' = [task EXCEPT ![t] = s]
        BY <2>3
      <3> QED BY <1>9, <2>1, <3>1, UpdateType DEF StreamError
    <2>4. CASE Finish(t, "error") \/ Finish(t, "cancelled")
      BY <1>9, <2>4, MoveType DEF StreamError
    <2> QED BY <1>9, <2>2, <2>3, <2>4 DEF StreamError
  <1>10. ASSUME Responded(t) PROVE Typed /\ ReadOnly
    BY <1>10, MoveType DEF Responded, Labels
  <1>11. ASSUME Ending(t) PROVE Typed /\ ReadOnly
    BY <1>11, MoveType DEF Ending, Labels
  <1>12. ASSUME Typed, ReadOnly PROVE TypeOK'
    BY <1>12 DEF ReadOnly, durable, TypeOK
  <1> QED
    BY <1>1, <1>2, <1>3, <1>4, <1>5, <1>6, <1>7, <1>8, <1>9, <1>10, <1>11, <1>12

\* Steps that write the database for a task.
LEMMA TypeWriters ==
    ASSUME TypeOK, NEW t \in Tasks
    PROVE  (\/ ToolEffect(t) \/ Answer(t) \/ Context(t)
            \/ \E kind \in {"message", "call", "local"} : StreamItem(t, kind)
            \/ \E endTurn \in BOOLEAN : Complete(t, endTurn)
            \/ Decide(t) \/ Retry(t) \/ Compacting(t) \/ Checkpoint(t)
            \/ FinalizeSuccess(t) \/ FinalizeFailure(t)) => TypeOK'
  <1> DEFINE Typed == task' \in [Tasks -> TaskState]
  <1>0. /\ task[t] \in TaskState
        /\ task[t].rec \in Nat /\ task[t].pro \in Nat /\ task[t].call \in Nat
        /\ task[t].back \in {"none", "tools", "infer"} /\ task[t].back \in Labels
        /\ task[t].resp \in {"none", "message", "local", "worker", "again"}
    BY LabelNames DEF TypeOK, TaskState
  <1>1. ASSUME ToolEffect(t) PROVE TypeOK'
    <2>1. Typed
      BY <1>1, MoveType, LabelNames DEF ToolEffect
    <2>2. blocked' \in BOOLEAN
      BY <1>1 DEF ToolEffect, TypeOK
    <2> QED BY <1>1, <2>1, <2>2 DEF ToolEffect, TypeOK
  <1>2. ASSUME Answer(t) PROVE TypeOK'
    <2> DEFINE s == [task[t] EXCEPT !.pc = task[t].back, !.call = 0, !.back = "none"]
    <2>1. s \in TaskState
      BY <1>0, FieldTypes, LabelNames
    <2>2. task' = [task EXCEPT ![t] = s]
      BY <1>2 DEF Answer
    <2>3. hist' \in Seq(Record)
      <3>1. \/ hist' = hist
            \/ hist' = Append(hist, Rec("output", task[t].rec, task[t].call))
            \/ hist' = Append(hist, Rec("late", task[t].rec, task[t].call))
        BY <1>2 DEF Answer
      <3> QED BY <1>0, <3>1, TaskRecordType DEF TypeOK, Kinds, ProtocolKinds, OwnedKinds
    <2> QED BY <1>2, <2>1, <2>2, <2>3, UpdateType DEF Answer, TypeOK
  <1>3. ASSUME Context(t) PROVE TypeOK'
    <2>1. hist' \in Seq(Record)
      BY <1>3, ContextShape, NotedHistory, Zenon DEF TypeOK
    <2>2. CASE Finish(t, "cancelled")
      BY <1>3, <2>1, <2>2, MoveType DEF Context, TypeOK
    <2>3. ASSUME NEW tail \in Nat,
                 \/ task' = [task EXCEPT ![t].pc = "infer", ![t].tail = tail,
                                         ![t].resp = "none"]
                 \/ task' = [task EXCEPT ![t].pc = "compacting",
                                         ![t].tail = tail, ![t].pro = @ + 1]
          PROVE  TypeOK'
      <3> DEFINE r == [task[t] EXCEPT !.pc = "infer", !.tail = tail, !.resp = "none"]
      <3> DEFINE s == [task[t] EXCEPT !.pc = "compacting", !.tail = tail, !.pro = @ + 1]
      <3>1. r \in TaskState /\ s \in TaskState
        <4>1. task[t].pro + 1 \in Nat
          BY <1>0
        <4> QED BY <1>0, <4>1, CounterTypes, LabelNames
      <3>2. task' = [task EXCEPT ![t] = r] \/ task' = [task EXCEPT ![t] = s]
        BY <2>3
      <3>3. Typed
        BY <3>1, <3>2, UpdateType
      <3> QED BY <1>3, <2>1, <3>3 DEF Context, TypeOK
    <2> QED BY <1>3, <2>2, <2>3, ContextShape, Zenon
  <1>4. ASSUME NEW kind \in {"message", "call", "local"}, StreamItem(t, kind) PROVE TypeOK'
    <2> DEFINE id == IF Stale(t) THEN 0 ELSE Len(hist) + 1
    <2> DEFINE r == [task[t] EXCEPT !.resp = "message"]
    <2> DEFINE s == [task[t] EXCEPT !.resp = "worker", !.pc = "enqueue"]
    <2> DEFINE u == [task[t] EXCEPT !.resp = "local", !.pc = "effect", !.call = id,
                                    !.back = "infer"]
    <2>1. r \in TaskState /\ s \in TaskState /\ u \in TaskState
      <3>1. id \in Nat
        BY DEF TypeOK
      <3>2. r \in TaskState
        BY <1>0, FieldTypes
      <3>3. s \in TaskState
        BY <1>0, FieldTypes, LabelNames
      <3>4. u \in TaskState
        <4>1. /\ "effect" \in Labels
              /\ "local" \in {"none", "message", "local", "worker", "again"}
              /\ "infer" \in {"none", "tools", "infer"}
          BY LabelNames
        <4> HIDE DEF id
        <4> QED BY <1>0, <3>1, <4>1, FieldTypes
      <3> QED BY <3>2, <3>3, <3>4
    <2>2. \/ task' = [task EXCEPT ![t] = r]
          \/ task' = [task EXCEPT ![t] = s]
          \/ task' = [task EXCEPT ![t] = u]
      BY <1>4 DEF StreamItem
    <2>3. hist' \in Seq(Record)
      <3>1. hist' = hist \/ hist' = Append(hist, Rec(kind, task[t].rec, 0))
        BY <1>4 DEF StreamItem
      <3> QED BY <3>1, TaskRecordType DEF TypeOK, Kinds, ProtocolKinds, OwnedKinds, CallKinds
    <2>4. Typed
      BY <2>1, <2>2, UpdateType
    <2> QED BY <1>4, <2>3, <2>4 DEF StreamItem, TypeOK
  <1>5. ASSUME NEW endTurn \in BOOLEAN, Complete(t, endTurn) PROVE TypeOK'
    <2> DEFINE r == [task[t] EXCEPT !.pc = "responded", !.tail = 0,
                                    !.resp = IF endTurn THEN @ ELSE "again"]
    <2>1. r \in TaskState
      <3>1. (IF endTurn THEN task[t].resp ELSE "again")
               \in {"none", "message", "local", "worker", "again"}
        BY <1>0
      <3> QED BY <1>0, <3>1, CounterTypes, LabelNames
    <2>2. task' = [task EXCEPT ![t] = r]
      BY <1>5 DEF Complete
    <2>3. status' \in {"idle", "running", "failed"} /\ retry' \in Nat
      BY <1>5 DEF Complete, TypeOK
    <2>4. done' \subseteq Nat
      <3>1. done' = done \/ done' = done \cup {task[t].rec}
        BY <1>5 DEF Complete
      <3> QED BY <1>0, <3>1 DEF TypeOK
    <2> QED BY <1>5, <2>1, <2>2, <2>3, <2>4, UpdateType DEF Complete, TypeOK
  <1>6. ASSUME Decide(t) PROVE TypeOK'
    <2>1. Typed /\ status' \in {"idle", "running", "failed"}
      BY <1>6, MoveType DEF Decide, TypeOK
    <2>2. hist' \in Seq(Record)
      <3>1. \/ hist' = hist
            \/ hist' = Append(hist, Rec("stopped", task[t].rec, 0))
            \/ hist' = Append(hist, Rec("nudge", task[t].rec, 0))
        BY <1>6 DEF Decide
      <3> QED BY <3>1, TaskRecordType DEF TypeOK, Kinds
    <2> QED BY <1>6, <2>1, <2>2 DEF Decide, TypeOK
  <1>7. ASSUME Retry(t) PROVE TypeOK'
    <2>1. Typed
      BY <1>7, MoveType DEF Retry
    <2>2. status' \in {"idle", "running", "failed"} /\ retry' \in Nat
      BY <1>7 DEF Retry, TypeOK
    <2> QED BY <1>7, <2>1, <2>2 DEF Retry, TypeOK
  <1>8. ASSUME Compacting(t) PROVE TypeOK'
    <2>1. Typed
      BY <1>8, MoveType, LabelNames DEF Compacting
    <2>2. retry' \in Nat
      BY <1>8 DEF Compacting, TypeOK
    <2> QED BY <1>8, <2>1, <2>2 DEF Compacting, TypeOK
  <1>9. ASSUME Checkpoint(t) PROVE TypeOK'
    <2>1. Typed
      BY <1>9, MoveType DEF Checkpoint
    <2>2. hist' \in Seq(Record)
      <3>1. hist' = hist \/ hist' = Append(hist, Rec("checkpoint", task[t].rec, 0))
        BY <1>9 DEF Checkpoint, durable
      <3> QED BY <3>1, TaskRecordType DEF TypeOK, Kinds, ProtocolKinds, OwnedKinds
    <2>3. status' \in {"idle", "running", "failed"} /\ retry' \in Nat
      BY <1>9 DEF Checkpoint, TypeOK, durable
    <2>4. done' \subseteq Nat
      <3>1. done' = done \/ done' = done \cup {task[t].rec}
        BY <1>9 DEF Checkpoint, durable
      <3> QED BY <1>0, <3>1 DEF TypeOK
    <2>5. blocked' = blocked
      BY <1>9 DEF Checkpoint, durable
    <2> QED BY <1>9, <2>1, <2>2, <2>3, <2>4, <2>5 DEF Checkpoint, TypeOK
  <1>10. ASSUME FinalizeSuccess(t) PROVE TypeOK'
    <2>1. Typed
      BY <1>10, MoveType, LabelNames DEF FinalizeSuccess
    <2> QED BY <1>10, <2>1 DEF FinalizeSuccess, TypeOK
  <1>11. ASSUME FinalizeFailure(t) PROVE TypeOK'
    <2>1. Typed
      BY <1>11, MoveType, LabelNames DEF FinalizeFailure
    <2> QED BY <1>11, <2>1 DEF FinalizeFailure, TypeOK
  <1> QED
    BY <1>1, <1>2, <1>3, <1>4, <1>5, <1>6, <1>7, <1>8, <1>9, <1>10, <1>11

\* The ends of a task, and the result of a Worker call.
LEMMA TypeRest ==
    ASSUME TypeOK
    PROVE  ((\E t \in Tasks : ClearCurrent(t) \/ StorageError(t) \/ Panic(t))
            \/ (\E c \in DOMAIN hist : WorkerResult(c))) => TypeOK'
  <1>1. ASSUME NEW t \in Tasks, ClearCurrent(t) PROVE TypeOK'
    <2>1. NoRun \in TaskState
      BY NewTaskType, LabelNames DEF NoRun, Operations
    <2>2. task' \in [Tasks -> TaskState]
      BY <1>1, <2>1, UpdateType DEF ClearCurrent
    <2> QED BY <1>1, <2>2 DEF ClearCurrent, TypeOK, durable
  <1>2. ASSUME NEW t \in Tasks, StorageError(t) PROVE TypeOK'
    <2>1. task' \in [Tasks -> TaskState]
      BY <1>2, MoveType, LabelNames DEF StorageError
    <2> QED BY <1>2, <2>1 DEF StorageError, Fault, TypeOK, durable
  <1>3. ASSUME NEW t \in Tasks, Panic(t) PROVE TypeOK'
    <2>1. NoRun \in TaskState
      BY NewTaskType, LabelNames DEF NoRun, Operations
    <2>2. [NoRun EXCEPT !.rec = task[t].rec] \in TaskState
      <3>1. task[t].rec \in Nat
        BY DEF TypeOK, TaskState
      <3> QED BY <2>1, <3>1 DEF TaskState
    <2>3. task' \in [Tasks -> TaskState]
      BY <1>3, <2>2, UpdateType DEF Panic
    <2> QED BY <1>3, <2>3 DEF Panic, Fault, TypeOK, durable
  <1>4. ASSUME NEW c \in DOMAIN hist, WorkerResult(c) PROVE TypeOK'
    <2>1. hist[c].req \in Nat /\ c \in Nat
      <3>1. hist \in Seq(Record)
        BY DEF TypeOK
      <3>2. hist[c] \in Record /\ c \in Nat
        BY <3>1
      <3> QED BY <3>2 DEF Record
    <2>2. /\ Rec("late", hist[c].req, c) \in Record
          /\ Rec("output", hist[c].req, c) \in Record
      BY <2>1, RecType DEF Kinds, ProtocolKinds, OwnedKinds
    <2>3. hist' \in Seq(Record)
      BY <1>4, <2>2, AppendType DEF WorkerResult, TypeOK
    <2> QED BY <1>4, <2>3 DEF WorkerResult, TypeOK
  <1> QED BY <1>1, <1>2, <1>3, <1>4

LEMMA TypeStep == TypeOK /\ [Next]_vars => TypeOK'
  <1> SUFFICES ASSUME TypeOK, [Next]_vars PROVE TypeOK'
    OBVIOUS
  <1>1. CASE Next
    BY <1>1, TypeHandlers, TypeSupervisor, TypeReaders, TypeWriters, TypeRest
    DEF Next, Run
  <1>2. CASE UNCHANGED vars
    BY <1>2 DEF vars, TypeOK
  <1> QED BY <1>1, <1>2

\* Every variable keeps its type in every behaviour.
THEOREM TypeCorrect == Spec => []TypeOK
  BY TypeInit, TypeStep, PTL DEF Spec

-----------------------------------------------------------------------------
(* What a step does to the tasks.                                          *)

\* A request is a boundary of the history with the operation it asks for.
IsRequest(h, rec, op) ==
    /\ rec \in DOMAIN h
    /\ IsBoundary(h[rec])
    /\ op = OperationOf(h[rec].kind)

\* Tasks and registrations under way run requests of the history.
RequestsExist ==
    /\ \A t \in Tasks : Live(t) => IsRequest(hist, task[t].rec, task[t].op)
    /\ lock.op \in {"enqueue", "ensure"} => IsRequest(hist, lock.rec, lock.as)

\* Only task t moves; while it lives it keeps its request and its operation.
KeepsRequest(t) ==
    /\ \A u \in Tasks \ {t} : task'[u] = task[u]
    /\ task'[t].pc # "none" =>
          Live(t) /\ task'[t].rec = task[t].rec /\ task'[t].op = task[t].op

\* The task committed the end of its turn, as far as it knows.
Concluded(t) ==
    \/ task[t].pc \in {"decide", "succeed"}
    \/ task[t].pc = "responded" /\ task[t].resp \in {"none", "message"}
    \/ task[t].pc = "end" /\ task[t].res = "ok"

\* The task is in the middle of its turn, or at an end without success.
Busy(t) ==
    \/ task[t].pc \notin {"decide", "succeed", "responded", "end"}
    \/ task[t].pc = "end" /\ task[t].res # "ok"

\* A step of t that may conclude its turn does so rightly.
Confirms(t) ==
    /\ task'[t].pc = "decide" => NotesContinuation
    /\ Concluded(t)' => Concluded(t) \/ Stale(t) \/ task[t].rec \in done'

\* The three ways a task moves on.
LEMMA MoveKeeps ==
    ASSUME TypeOK, NEW t \in Tasks, Live(t)
    PROVE  /\ \A pc \in Labels : Goto(t, pc) =>
                 KeepsRequest(t) /\ task'[t].pc = pc /\ task'[t].resp = task[t].resp
                                 /\ task'[t].res = task[t].res
           /\ \A res \in {"ok", "error", "cancelled"} : Finish(t, res) =>
                 KeepsRequest(t) /\ task'[t].pc = "end" /\ task'[t].res = res
           /\ NextLap(t) =>
                 KeepsRequest(t) /\ task'[t].pc = "wait"
  <1>1. task \in [Tasks -> TaskState] /\ task[t] \in TaskState
    BY DEF TypeOK
  <1>2. ASSUME NEW pc \in Labels, Goto(t, pc)
        PROVE  KeepsRequest(t) /\ task'[t].pc = pc /\ task'[t].resp = task[t].resp
                               /\ task'[t].res = task[t].res
    <2>1. task' = [task EXCEPT ![t] = [task[t] EXCEPT !.pc = pc]]
      BY <1>2 DEF Goto
    <2>2. /\ [task[t] EXCEPT !.pc = pc].pc = pc
          /\ [task[t] EXCEPT !.pc = pc].rec = task[t].rec
          /\ [task[t] EXCEPT !.pc = pc].op = task[t].op
          /\ [task[t] EXCEPT !.pc = pc].resp = task[t].resp
          /\ [task[t] EXCEPT !.pc = pc].res = task[t].res
      BY <1>1 DEF TaskState
    <2> QED BY <1>1, <2>1, <2>2 DEF KeepsRequest
  <1>3. ASSUME NEW res \in {"ok", "error", "cancelled"}, Finish(t, res)
        PROVE  KeepsRequest(t) /\ task'[t].pc = "end" /\ task'[t].res = res
    BY <1>1, <1>3 DEF Finish, NewTask, KeepsRequest
  <1>4. ASSUME NextLap(t)
        PROVE  KeepsRequest(t) /\ task'[t].pc = "wait"
    BY <1>1, <1>4 DEF NextLap, NewTask, KeepsRequest
  <1> QED BY <1>2, <1>3, <1>4

\* Assigning fields other than the request keeps it.
LEMMA FieldsKeep ==
    ASSUME TypeOK, NEW t \in Tasks, Live(t),
           NEW s, task' = [task EXCEPT ![t] = s],
           s.rec = task[t].rec, s.op = task[t].op
    PROVE  KeepsRequest(t) /\ task'[t] = s
  BY DEF TypeOK, KeepsRequest

\* Steps that only read the database.
LEMMA ReadersKeep ==
    ASSUME TypeOK, NEW t \in Tasks
    PROVE  (\/ Load(t) \/ Wait(t) \/ Waited(t) \/ Settle(t) \/ SettleNext(t)
            \/ WaitCall(t) \/ ManualContext(t) \/ StreamEnqueue(t) \/ StreamError(t))
           => KeepsRequest(t) /\ Busy(t)'
  <1> DEFINE Good == KeepsRequest(t) /\ Busy(t)'
  <1>0. task \in [Tasks -> TaskState] /\ task[t] \in TaskState
    BY DEF TypeOK
  <1>1. ASSUME Load(t) PROVE Good
    BY <1>1, MoveKeeps, LabelNames DEF Load, At, Live, Busy
  <1>2. ASSUME Wait(t) PROVE Good
    BY <1>2, MoveKeeps, LabelNames DEF Wait, At, Live, Busy
  <1>3. ASSUME Waited(t) PROVE Good
    BY <1>3, MoveKeeps, LabelNames DEF Waited, At, Live, Busy
  <1>4. ASSUME Settle(t) PROVE Good
    <2>1. CASE Stale(t)
      BY <1>4, <2>1, MoveKeeps DEF Settle, At, Live, Busy
    <2>2. CASE ~Stale(t)
      <3> DEFINE s == [task[t] EXCEPT !.pc = "tools", !.pend = Unanswered(hist, task[t].rec)]
      <3>1. task' = [task EXCEPT ![t] = s]
        BY <1>4, <2>2 DEF Settle
      <3>2. /\ s.rec = task[t].rec /\ s.op = task[t].op
            /\ s.pc = "tools"
        BY <1>0 DEF TaskState
      <3>3. Live(t)
        <4>1. At(t, "settle")
          BY <1>4 DEF Settle
        <4> QED BY <4>1 DEF At, Live
      <3> HIDE DEF s
      <3>4. KeepsRequest(t) /\ task'[t] = s
        BY <3>1, <3>2, <3>3, FieldsKeep
      <3> QED BY <3>2, <3>4 DEF Busy
    <2> QED BY <2>1, <2>2
  <1>5. ASSUME SettleNext(t) PROVE Good
    <2>0. Live(t)
      <3>1. At(t, "tools")
        BY <1>5, Zenon DEF SettleNext
      <3> QED BY <3>1 DEF At, Live
    <2>1. CASE task[t].pend = {}
      BY <1>5, <2>0, <2>1, MoveKeeps, LabelNames DEF SettleNext, Busy
    <2>2. CASE task[t].pend # {} /\ task[t].sig
      BY <1>5, <2>0, <2>2, MoveKeeps DEF SettleNext, Busy
    <2>3. CASE task[t].pend # {} /\ ~task[t].sig
      <3>1. PICK c \in task[t].pend :
               IF hist[c].kind = "call" /\ Stale(t)
               THEN Finish(t, "cancelled")
               ELSE task' = [task EXCEPT
                        ![t].pc = IF hist[c].kind = "call" THEN "waitcall" ELSE "effect",
                        ![t].call = c,
                        ![t].pend = @ \ {c},
                        ![t].back = "tools"]
        BY <1>5, <2>3 DEF SettleNext
      <3> DEFINE s == [task[t] EXCEPT
                        !.pc = IF hist[c].kind = "call" THEN "waitcall" ELSE "effect",
                        !.call = c, !.pend = @ \ {c}, !.back = "tools"]
      <3>2. /\ s.rec = task[t].rec /\ s.op = task[t].op
            /\ s.pc \in {"waitcall", "effect"}
        BY <1>0 DEF TaskState
      <3>3. CASE hist[c].kind = "call" /\ Stale(t)
        BY <2>0, <3>1, <3>3, MoveKeeps DEF Busy
      <3>4. CASE ~(hist[c].kind = "call" /\ Stale(t))
        <4>1. task' = [task EXCEPT ![t] = s]
          BY <3>1, <3>4
        <4> HIDE DEF s
        <4> QED BY <2>0, <3>2, <4>1, FieldsKeep DEF Busy
      <3> QED BY <3>3, <3>4
    <2> QED BY <2>1, <2>2, <2>3
  <1>6. ASSUME WaitCall(t) PROVE Good
    <2>0. Live(t)
      BY <1>6 DEF WaitCall, At, Live
    <2>1. CASE ~task[t].sig /\ Answered(hist, task[t].call)
      <3> DEFINE s == [task[t] EXCEPT !.pc = "tools", !.call = 0, !.back = "none"]
      <3>1. task' = [task EXCEPT ![t] = s]
        BY <1>6, <2>1 DEF WaitCall
      <3>2. /\ s.rec = task[t].rec /\ s.op = task[t].op /\ s.pc = "tools"
        BY <1>0 DEF TaskState
      <3> HIDE DEF s
      <3> QED BY <2>0, <3>1, <3>2, FieldsKeep DEF Busy
    <2>2. CASE ~(~task[t].sig /\ Answered(hist, task[t].call))
      BY <1>6, <2>0, <2>2, MoveKeeps, LabelNames DEF WaitCall, Busy
    <2> QED BY <2>1, <2>2
  <1>7. ASSUME ManualContext(t) PROVE Good
    <2>1. PICK tail \in DOMAIN hist :
             task' = [task EXCEPT ![t].pc = "compacting", ![t].tail = tail]
      BY <1>7 DEF ManualContext
    <2> DEFINE s == [task[t] EXCEPT !.pc = "compacting", !.tail = tail]
    <2>2. task' = [task EXCEPT ![t] = s]
      BY <2>1
    <2>3. /\ s.rec = task[t].rec /\ s.op = task[t].op
          /\ s.pc = "compacting"
      BY <1>0 DEF TaskState
    <2> HIDE DEF s
    <2> QED BY <1>7, <2>2, <2>3, FieldsKeep DEF ManualContext, At, Live, Busy
  <1>8. ASSUME StreamEnqueue(t) PROVE Good
    BY <1>8, MoveKeeps, LabelNames DEF StreamEnqueue, At, Live, Busy
  <1>9. ASSUME StreamError(t) PROVE Good
    <2>0. Live(t)
      BY <1>9 DEF StreamError, At, Live
    <2> DEFINE r == [task[t] EXCEPT !.pc = "retry", !.tail = 0, !.resp = "none"]
    <2> DEFINE s == [task[t] EXCEPT !.pc = "compacting", !.over = @ + 1, !.resp = "none"]
    <2>1. /\ r.rec = task[t].rec /\ r.op = task[t].op /\ r.pc = "retry"
          /\ s.rec = task[t].rec /\ s.op = task[t].op /\ s.pc = "compacting"
      BY <1>0 DEF TaskState
    <2>2. \/ task' = [task EXCEPT ![t] = r]
          \/ task' = [task EXCEPT ![t] = s]
          \/ Finish(t, "error") \/ Finish(t, "cancelled")
      BY <1>9 DEF StreamError
    <2>3. CASE task' = [task EXCEPT ![t] = r]
      <3> HIDE DEF r
      <3> QED BY <2>0, <2>1, <2>3, FieldsKeep DEF Busy
    <2>4. CASE task' = [task EXCEPT ![t] = s]
      <3> HIDE DEF s
      <3> QED BY <2>0, <2>1, <2>4, FieldsKeep DEF Busy
    <2>5. CASE Finish(t, "error") \/ Finish(t, "cancelled")
      BY <2>0, <2>5, MoveKeeps DEF Busy
    <2> QED BY <2>2, <2>3, <2>4, <2>5
  <1> QED
    BY <1>1, <1>2, <1>3, <1>4, <1>5, <1>6, <1>7, <1>8, <1>9

\* Steps that write the database for a task.
LEMMA WritersKeep ==
    ASSUME TypeOK, NEW t \in Tasks
    PROVE  (\/ ToolEffect(t) \/ Answer(t) \/ Context(t)
            \/ \E kind \in {"message", "call", "local"} : StreamItem(t, kind)
            \/ Retry(t) \/ Compacting(t)
            \/ FinalizeSuccess(t) \/ FinalizeFailure(t))
           => KeepsRequest(t) /\ Busy(t)'
  <1> DEFINE Good == KeepsRequest(t) /\ Busy(t)'
  <1>0. task \in [Tasks -> TaskState] /\ task[t] \in TaskState
    BY DEF TypeOK
  <1>1. ASSUME ToolEffect(t) PROVE Good
    BY <1>1, MoveKeeps, LabelNames DEF ToolEffect, At, Live, Busy
  <1>2. ASSUME Answer(t) PROVE Good
    <2>0. Live(t)
      <3>1. At(t, "answer")
        BY <1>2, Zenon DEF Answer
      <3> QED BY <3>1 DEF At, Live
    <2> DEFINE s == [task[t] EXCEPT !.pc = task[t].back, !.call = 0, !.back = "none"]
    <2>1. task' = [task EXCEPT ![t] = s]
      BY <1>2 DEF Answer
    <2>2. /\ s.rec = task[t].rec /\ s.op = task[t].op
          /\ s.pc = task[t].back /\ task[t].back \in {"none", "tools", "infer"}
      BY <1>0 DEF TaskState
    <2> HIDE DEF s
    <2>3. KeepsRequest(t) /\ task'[t] = s
      BY <2>0, <2>1, <2>2, FieldsKeep
    <2> QED BY <2>2, <2>3 DEF Busy
  <1>3. ASSUME Context(t) PROVE Good
    <2>0. Live(t)
      <3>1. At(t, "context")
        BY <1>3, Zenon DEF Context
      <3> QED BY <3>1 DEF At, Live
    <2>1. CASE Finish(t, "cancelled")
      BY <2>0, <2>1, MoveKeeps DEF Busy
    <2>2. ASSUME NEW tail \in Nat,
                 \/ task' = [task EXCEPT ![t].pc = "infer", ![t].tail = tail,
                                         ![t].resp = "none"]
                 \/ task' = [task EXCEPT ![t].pc = "compacting",
                                         ![t].tail = tail, ![t].pro = @ + 1]
          PROVE  Good
      <3> DEFINE r == [task[t] EXCEPT !.pc = "infer", !.tail = tail, !.resp = "none"]
      <3> DEFINE s == [task[t] EXCEPT !.pc = "compacting", !.tail = tail, !.pro = @ + 1]
      <3>1. task' = [task EXCEPT ![t] = r] \/ task' = [task EXCEPT ![t] = s]
        BY <2>2
      <3>2. /\ r.rec = task[t].rec /\ r.op = task[t].op /\ r.pc = "infer"
            /\ s.rec = task[t].rec /\ s.op = task[t].op /\ s.pc = "compacting"
        BY <1>0 DEF TaskState
      <3> HIDE DEF r, s
      <3>3. KeepsRequest(t) /\ (task'[t] = r \/ task'[t] = s)
        BY <2>0, <3>1, <3>2, FieldsKeep
      <3> QED BY <3>2, <3>3 DEF Busy
    <2> QED BY <1>3, <2>1, <2>2, ContextShape, Zenon
  <1>4. ASSUME NEW kind \in {"message", "call", "local"}, StreamItem(t, kind) PROVE Good
    <2>0. Live(t) /\ task[t].pc = "infer"
      <3>1. At(t, "infer")
        BY <1>4, Zenon DEF StreamItem
      <3> QED BY <3>1 DEF At, Live
    <2> DEFINE id == IF Stale(t) THEN 0 ELSE Len(hist) + 1
    <2> DEFINE r == [task[t] EXCEPT !.resp = "message"]
    <2> DEFINE s == [task[t] EXCEPT !.resp = "worker", !.pc = "enqueue"]
    <2> DEFINE u == [task[t] EXCEPT !.resp = "local", !.pc = "effect", !.call = id,
                                    !.back = "infer"]
    <2>1. \/ task' = [task EXCEPT ![t] = r]
          \/ task' = [task EXCEPT ![t] = s]
          \/ task' = [task EXCEPT ![t] = u]
      BY <1>4 DEF StreamItem
    <2>2. /\ r.rec = task[t].rec /\ r.op = task[t].op /\ r.pc = task[t].pc
          /\ s.rec = task[t].rec /\ s.op = task[t].op /\ s.pc = "enqueue"
          /\ u.rec = task[t].rec /\ u.op = task[t].op /\ u.pc = "effect"
      BY <1>0 DEF TaskState
    <2> HIDE DEF r, s, u
    <2>3. KeepsRequest(t) /\ (task'[t] = r \/ task'[t] = s \/ task'[t] = u)
      BY <2>0, <2>1, <2>2, FieldsKeep
    <2> QED BY <2>0, <2>2, <2>3 DEF Busy
  <1>5. ASSUME Retry(t) PROVE Good
    BY <1>5, MoveKeeps DEF Retry, At, Live, Busy
  <1>6. ASSUME Compacting(t) PROVE Good
    BY <1>6, MoveKeeps, LabelNames DEF Compacting, At, Live, Busy
  <1>7. ASSUME FinalizeSuccess(t) PROVE Good
    BY <1>7, MoveKeeps, LabelNames DEF FinalizeSuccess, At, Live, Busy
  <1>8. ASSUME FinalizeFailure(t) PROVE Good
    BY <1>8, MoveKeeps, LabelNames DEF FinalizeFailure, At, Live, Busy
  <1> QED
    BY <1>1, <1>2, <1>3, <1>4, <1>5, <1>6, <1>7, <1>8

\* The last steps of a task.
LEMMA EndsKeep ==
    ASSUME TypeOK, NEW t \in Tasks
    PROVE  ClearCurrent(t) \/ Panic(t) => KeepsRequest(t) /\ Busy(t)'
  <1> DEFINE Good == KeepsRequest(t) /\ Busy(t)'
  <1>0. task \in [Tasks -> TaskState] /\ task[t] \in TaskState
    BY DEF TypeOK
  <1>1. ASSUME ClearCurrent(t) PROVE Good
    <2>1. task' = [task EXCEPT ![t] = NoRun]
      BY <1>1, Zenon DEF ClearCurrent
    <2> QED BY <1>0, <2>1 DEF KeepsRequest, Busy, NoRun, NewTask
  <1>2. ASSUME Panic(t) PROVE Good
    <2> DEFINE s == [NoRun EXCEPT !.rec = task[t].rec]
    <2>1. task' = [task EXCEPT ![t] = s]
      BY <1>2, Zenon DEF Panic
    <2>2. s.pc = "none"
      BY DEF NoRun, NewTask
    <2> HIDE DEF s
    <2> QED BY <1>0, <2>1, <2>2 DEF KeepsRequest, Busy
  <1> QED BY <1>1, <1>2

\* Steps that may conclude a turn.
LEMMA ConcludersKeep ==
    ASSUME TypeOK, RequestsExist, NEW t \in Tasks
    PROVE  (\/ \E endTurn \in BOOLEAN : Complete(t, endTurn)
            \/ Responded(t) \/ Decide(t) \/ Checkpoint(t) \/ Ending(t) \/ StorageError(t))
           => KeepsRequest(t) /\ (Busy(t)' \/ Confirms(t))
  <1> DEFINE Good == KeepsRequest(t) /\ (Busy(t)' \/ Confirms(t))
  <1>0. task \in [Tasks -> TaskState] /\ task[t] \in TaskState
    BY DEF TypeOK
  <1>1. ASSUME NEW endTurn \in BOOLEAN, Complete(t, endTurn) PROVE Good
    <2>0. Live(t)
      <3>1. At(t, "infer")
        BY <1>1, Zenon DEF Complete
      <3> QED BY <3>1 DEF At, Live
    <2> DEFINE r == [task[t] EXCEPT !.pc = "responded", !.tail = 0,
                                    !.resp = IF endTurn THEN @ ELSE "again"]
    <2>1. task' = [task EXCEPT ![t] = r]
      BY <1>1 DEF Complete
    <2>2. /\ r.rec = task[t].rec /\ r.op = task[t].op /\ r.pc = "responded"
          /\ r.resp = IF endTurn THEN task[t].resp ELSE "again"
      BY <1>0 DEF TaskState
    <2> HIDE DEF r
    <2>3. KeepsRequest(t) /\ task'[t] = r
      BY <2>0, <2>1, <2>2, FieldsKeep
    <2>4. ASSUME endTurn /\ task[t].resp \in {"none", "message"} /\ ~Stale(t)
          PROVE  task[t].rec \in done'
      <3>1. done' = done \cup {task[t].rec}
        BY <1>1, <2>4, Zenon DEF Complete
      <3> QED BY <3>1
    <2> QED BY <2>2, <2>3, <2>4 DEF Confirms, Concluded
  <1>2. ASSUME Responded(t) PROVE Good
    <2>0. At(t, "responded") /\ Live(t)
      <3>1. At(t, "responded")
        BY <1>2, Zenon DEF Responded
      <3> QED BY <3>1 DEF At, Live
    <2>1. \/ Finish(t, "cancelled") \/ NextLap(t)
          \/ /\ task[t].resp \notin {"local", "worker", "again"}
             /\ (NotesContinuation /\ Goto(t, "decide")) \/ Finish(t, "ok")
      BY <1>2, Zenon DEF Responded
    <2>2. task[t].resp \in {"none", "message", "local", "worker", "again"}
      BY <1>0 DEF TaskState
    <2>3. CASE Finish(t, "cancelled") \/ NextLap(t)
      BY <2>0, <2>3, MoveKeeps DEF Busy
    <2>4. CASE /\ task[t].resp \notin {"local", "worker", "again"}
               /\ (NotesContinuation /\ Goto(t, "decide")) \/ Finish(t, "ok")
      <3>1. Concluded(t)
        BY <2>0, <2>2, <2>4 DEF Concluded, At
      <3> QED BY <2>0, <2>4, <3>1, MoveKeeps, LabelNames DEF Confirms
    <2> QED BY <2>1, <2>3, <2>4
  <1>3. ASSUME Decide(t) PROVE Good
    <2>0. At(t, "decide") /\ (Finish(t, "ok") \/ NextLap(t))
      BY <1>3, Zenon DEF Decide
    <2>1. Live(t) /\ Concluded(t)
      BY <2>0 DEF At, Live, Concluded
    <2> QED BY <2>0, <2>1, MoveKeeps DEF Confirms
  <1>4. ASSUME Checkpoint(t) PROVE Good
    <2>0. Live(t)
      <3>1. At(t, "checkpoint")
        BY <1>4, Zenon DEF Checkpoint
      <3> QED BY <3>1 DEF At, Live
    <2>1. \/ Finish(t, "cancelled") \/ Finish(t, "error") \/ NextLap(t)
          \/ /\ Finish(t, "ok") /\ task[t].op = "compaction"
             /\ hist[task[t].rec].kind = "compact" => done' = done \cup {task[t].rec}
      BY <1>4, Zenon DEF Checkpoint
    <2>2. CASE Finish(t, "cancelled") \/ Finish(t, "error") \/ NextLap(t)
      BY <2>0, <2>2, MoveKeeps DEF Busy
    <2>3. CASE /\ Finish(t, "ok") /\ task[t].op = "compaction"
               /\ hist[task[t].rec].kind = "compact" => done' = done \cup {task[t].rec}
      <3>1. IsRequest(hist, task[t].rec, task[t].op)
        BY <2>0 DEF RequestsExist
      <3>2. task[t].rec \in done'
        BY <2>3, <3>1 DEF IsRequest, OperationOf
      <3> QED BY <2>0, <2>3, <3>2, MoveKeeps DEF Confirms
    <2> QED BY <2>1, <2>2, <2>3
  <1>5. ASSUME Ending(t) PROVE Good
    <2>0. At(t, "end") /\ Live(t)
      <3>1. At(t, "end")
        BY <1>5, Zenon DEF Ending
      <3> QED BY <3>1 DEF At, Live
    <2>1. \/ Goto(t, "fail") \/ Goto(t, "clear")
          \/ task[t].res = "ok" /\ Goto(t, "succeed")
      BY <1>5 DEF Ending
    <2>2. CASE Goto(t, "fail") \/ Goto(t, "clear")
      BY <2>0, <2>2, MoveKeeps, LabelNames DEF Busy
    <2>3. CASE task[t].res = "ok" /\ Goto(t, "succeed")
      <3>1. Concluded(t)
        BY <2>0, <2>3 DEF Concluded, At
      <3> QED BY <2>0, <2>3, <3>1, MoveKeeps, LabelNames DEF Confirms
    <2> QED BY <2>1, <2>2, <2>3
  <1>6. ASSUME StorageError(t) PROVE Good
    <2>0. Live(t)
      BY <1>6 DEF StorageError
    <2>1. \/ Finish(t, "error") \/ Goto(t, "clear")
          \/ At(t, "decide") /\ Finish(t, "ok")
      BY <1>6, Zenon DEF StorageError
    <2>2. CASE Finish(t, "error") \/ Goto(t, "clear")
      BY <2>0, <2>2, MoveKeeps, LabelNames DEF Busy
    <2>3. CASE At(t, "decide") /\ Finish(t, "ok")
      <3>1. Concluded(t)
        BY <2>3 DEF Concluded, At
      <3> QED BY <2>0, <2>3, <3>1, MoveKeeps DEF Confirms
    <2> QED BY <2>1, <2>2, <2>3
  <1> QED BY <1>1, <1>2, <1>3, <1>4, <1>5, <1>6

\* A task that is busy has concluded nothing.
LEMMA BusyConfirms ==
    ASSUME NEW t \in Tasks
    PROVE  Busy(t)' => Confirms(t)
  BY DEF Busy, Confirms, Concluded

-----------------------------------------------------------------------------
(* Requests exist, and what steps write for them.                          *)

\* Requests stay what they are while the history grows.
LEMMA RequestStays ==
    ASSUME NEW h, NEW g, Extends(h, g), NEW rec, NEW op, IsRequest(h, rec, op)
    PROVE  IsRequest(g, rec, op)
  BY DEF Extends, IsRequest

\* What a task writes for its request, unless it is stale.
LEMMA TaskWrites ==
    ASSUME TypeOK, RequestsExist, Owned(hist), NEW t \in Tasks, Live(t),
           NEW kind \in Kinds \ BoundaryKinds, NEW ref \in Nat,
           kind \in OwnedKinds => ~Stale(t)
    PROVE  LET h == Append(hist, Rec(kind, task[t].rec, ref))
           IN  Quiet(hist, h) /\ Owned(h)
  <1> DEFINE r == Rec(kind, task[t].rec, ref)
  <1>1. hist \in Seq(Record) /\ task[t].rec \in Nat
    BY DEF TypeOK, TaskState
  <1>2. r \in Record
    BY <1>1, RecType
  <1>3. r.kind = kind /\ r.req = task[t].rec
    BY DEF Rec
  <1>4. ~IsBoundary(r)
    BY <1>3 DEF IsBoundary
  <1>5. task[t].rec \in DOMAIN hist
    BY DEF RequestsExist, IsRequest
  <1>6. task[t].rec \in 1..(Len(hist) + 1)
    BY <1>1, <1>5
  <1>7. Fits(hist, r)
    BY <1>3, <1>6 DEF Fits, Stale
  <1> HIDE DEF r
  <1>8. Quiet(hist, Append(hist, r)) /\ Owned(Append(hist, r))
    BY <1>1, <1>2, <1>4, <1>7, QuietAppend, OwnedAppend
  <1> QED BY <1>8 DEF r

\* Steps of a task add nothing but records that fit.
LEMMA TaskHistory ==
    ASSUME TypeOK, RequestsExist, Owned(hist), NEW t \in Tasks,
           Run(t) \/ Ending(t) \/ ClearCurrent(t) \/ StorageError(t) \/ Panic(t)
    PROVE  Quiet(hist, hist') /\ Owned(hist')
  <1>0. hist \in Seq(Record)
    BY DEF TypeOK
  <1>1. ASSUME hist' = hist PROVE Quiet(hist, hist') /\ Owned(hist')
    BY <1>0, <1>1, QuietSame
  <1>2. ASSUME NEW kind \in Kinds \ BoundaryKinds, NEW ref \in Nat, Live(t),
               kind \in OwnedKinds => ~Stale(t),
               hist' = Append(hist, Rec(kind, task[t].rec, ref))
        PROVE  Quiet(hist, hist') /\ Owned(hist')
    BY <1>2, TaskWrites
  <1>3. ASSUME Answer(t) PROVE Quiet(hist, hist') /\ Owned(hist')
    <2>1. Live(t)
      <3>1. At(t, "answer")
        BY <1>3, Zenon DEF Answer
      <3> QED BY <3>1 DEF At, Live
    <2>2. \/ hist' = hist
          \/ ~Stale(t) /\ hist' = Append(hist, Rec("output", task[t].rec, task[t].call))
          \/ hist' = Append(hist, Rec("late", task[t].rec, task[t].call))
      BY <1>3 DEF Answer
    <2>3. task[t].call \in Nat
      BY DEF TypeOK, TaskState
    <2>4. /\ "output" \in Kinds \ BoundaryKinds /\ "late" \in Kinds \ BoundaryKinds
          /\ "late" \notin OwnedKinds
      BY DEF Kinds, BoundaryKinds, ProtocolKinds, OwnedKinds, CallKinds
    <2> QED BY <1>1, <1>2, <2>1, <2>2, <2>3, <2>4
  <1>4. ASSUME Context(t) PROVE Quiet(hist, hist') /\ Owned(hist')
    <2>1. PICK switched \in Noted(hist) : hist' = switched \/ hist' \in Noted(switched)
      BY <1>4, ContextShape
    <2>2. switched \in Seq(Record) /\ Quiet(hist, switched) /\ Owned(switched)
      BY <1>0, NotedHistory
    <2>3. ASSUME hist' \in Noted(switched) PROVE Quiet(hist, hist') /\ Owned(hist')
      <3>1. Quiet(switched, hist') /\ Owned(hist')
        BY <2>2, <2>3, NotedHistory, Zenon
      <3> QED BY <2>2, <3>1, QuietTransitive, Zenon
    <2> QED BY <2>1, <2>2, <2>3, Zenon
  <1>5. ASSUME NEW kind \in {"message", "call", "local"}, StreamItem(t, kind)
        PROVE  Quiet(hist, hist') /\ Owned(hist')
    <2>1. Live(t)
      <3>1. At(t, "infer")
        BY <1>5, Zenon DEF StreamItem
      <3> QED BY <3>1 DEF At, Live
    <2>2. \/ hist' = hist
          \/ ~Stale(t) /\ hist' = Append(hist, Rec(kind, task[t].rec, 0))
      BY <1>5 DEF StreamItem
    <2>3. kind \in Kinds \ BoundaryKinds
      BY DEF Kinds, BoundaryKinds, ProtocolKinds, OwnedKinds, CallKinds
    <2> QED BY <1>1, <1>2, <2>1, <2>2, <2>3
  <1>6. ASSUME Decide(t) PROVE Quiet(hist, hist') /\ Owned(hist')
    <2>1. Live(t)
      BY <1>6 DEF Decide, At, Live
    <2>2. \/ hist' = hist
          \/ hist' = Append(hist, Rec("stopped", task[t].rec, 0))
          \/ hist' = Append(hist, Rec("nudge", task[t].rec, 0))
      BY <1>6 DEF Decide
    <2>3. /\ "stopped" \in Kinds \ BoundaryKinds /\ "nudge" \in Kinds \ BoundaryKinds
          /\ "stopped" \notin OwnedKinds /\ "nudge" \notin OwnedKinds
      BY DEF Kinds, BoundaryKinds, ProtocolKinds, OwnedKinds, CallKinds
    <2> QED BY <1>1, <1>2, <2>1, <2>2, <2>3
  <1>7. ASSUME Checkpoint(t) PROVE Quiet(hist, hist') /\ Owned(hist')
    <2>1. Live(t)
      <3>1. At(t, "checkpoint")
        BY <1>7, Zenon DEF Checkpoint
      <3> QED BY <3>1 DEF At, Live
    <2>2. \/ hist' = hist
          \/ ~Stale(t) /\ hist' = Append(hist, Rec("checkpoint", task[t].rec, 0))
      BY <1>7, Zenon DEF Checkpoint, durable
    <2>3. "checkpoint" \in Kinds \ BoundaryKinds
      BY DEF Kinds, BoundaryKinds, ProtocolKinds, OwnedKinds, CallKinds
    <2> QED BY <1>1, <1>2, <2>1, <2>2, <2>3
  <1>8. CASE Load(t) \/ Wait(t) \/ Waited(t) \/ Settle(t) \/ SettleNext(t) \/ WaitCall(t)
    BY <1>1, <1>8, Zenon
    DEF Load, Wait, Waited, Settle, SettleNext, WaitCall, ReadOnly, durable
  <1>9. CASE \/ ManualContext(t) \/ StreamEnqueue(t) \/ StreamError(t)
             \/ Responded(t) \/ Ending(t) \/ ToolEffect(t)
    BY <1>1, <1>9, Zenon
    DEF ManualContext, StreamEnqueue, StreamError, Responded, Ending, ToolEffect,
        ReadOnly, durable
  <1>10. CASE \/ \E endTurn \in BOOLEAN : Complete(t, endTurn)
              \/ Retry(t) \/ Compacting(t) \/ FinalizeSuccess(t) \/ FinalizeFailure(t)
    BY <1>1, <1>10, Zenon DEF Complete, Retry, Compacting, FinalizeSuccess, FinalizeFailure
  <1>11. CASE ClearCurrent(t) \/ StorageError(t) \/ Panic(t)
    BY <1>1, <1>11, Zenon DEF ClearCurrent, StorageError, Panic, durable
  <1> QED
    BY <1>3, <1>4, <1>5, <1>6, <1>7, <1>8, <1>9, <1>10, <1>11, Zenon DEF Run

\* A result never writes into the history of a request that is over.
LEMMA ResultHistory ==
    ASSUME TypeOK, Owned(hist), NEW c \in DOMAIN hist, WorkerResult(c)
    PROVE  Quiet(hist, hist') /\ Owned(hist')
  <1>1. hist \in Seq(Record)
    BY DEF TypeOK
  <1>2. hist[c] \in Record /\ c \in 1..Len(hist) /\ c \in Nat
    BY <1>1
  <1>3. hist[c].req \in Nat
    BY <1>2 DEF Record
  <1>4. hist[c].kind = "call"
    BY DEF WorkerResult
  <1>5. hist[c].req \in 1..c
    BY <1>4 DEF Owned, OwnedKinds, CallKinds
  <1> DEFINE kind == IF Superseded(hist, hist[c].req) THEN "late" ELSE "output"
  <1> DEFINE r == Rec(kind, hist[c].req, c)
  <1>6. hist' = Append(hist, r)
    BY DEF WorkerResult
  <1>7. r \in Record
    <2>1. kind \in Kinds
      BY DEF Kinds, ProtocolKinds, OwnedKinds
    <2> HIDE DEF kind
    <2> QED BY <1>2, <1>3, <2>1, RecType
  <1>8. r.kind = kind /\ r.req = hist[c].req
    BY DEF Rec
  <1>9. ~IsBoundary(r)
    BY <1>8 DEF IsBoundary, BoundaryKinds
  <1>10. Fits(hist, r)
    <2>1. hist[c].req \in 1..(Len(hist) + 1)
      BY <1>1, <1>2, <1>5
    <2> QED BY <1>8, <2>1 DEF Fits, OwnedKinds, CallKinds
  <1> HIDE DEF r
  <1> QED BY <1>1, <1>6, <1>7, <1>9, <1>10, QuietAppend, OwnedAppend

\* A new boundary belongs to itself.
LEMMA BoundaryHistory ==
    ASSUME TypeOK, Owned(hist), NEW kind \in BoundaryKinds,
           hist' = Append(hist, Rec(kind, Len(hist) + 1, 0))
    PROVE  Extends(hist, hist') /\ Owned(hist')
  <1> DEFINE r == Rec(kind, Len(hist) + 1, 0)
  <1>1. hist \in Seq(Record) /\ Len(hist) \in Nat /\ DOMAIN hist = 1..Len(hist)
    BY DEF TypeOK
  <1>2. r \in Record
    BY <1>1, RecType DEF Kinds
  <1>3. r.req = Len(hist) + 1
    BY DEF Rec
  <1>4. Fits(hist, r)
    BY <1>1, <1>3 DEF Fits, Superseded
  <1> HIDE DEF r
  <1>5. hist' = Append(hist, r)
    BY DEF r
  <1> QED BY <1>1, <1>2, <1>4, <1>5, QuietAppend, OwnedAppend

\* Every step extends the history and leaves requests in charge of theirs.
\* Only handlers add boundaries.
LEMMA StepHistory ==
    ASSUME TypeOK, RequestsExist, Owned(hist), [Next]_vars
    PROVE  /\ Extends(hist, hist') /\ Owned(hist')
           /\ \/ Quiet(hist, hist')
              \/ \E kind \in {"input", "continue", "compact"} : RecordRequest(kind)
              \/ RecordCancel
  <1>0. hist \in Seq(Record)
    BY DEF TypeOK
  <1>1. ASSUME hist' = hist PROVE Quiet(hist, hist') /\ Owned(hist')
    BY <1>0, <1>1, QuietSame
  <1>2. ASSUME NEW kind \in {"input", "continue", "compact"}, RecordRequest(kind)
        PROVE  Extends(hist, hist') /\ Owned(hist')
    <2>1. kind \in BoundaryKinds
      BY DEF BoundaryKinds
    <2>2. hist' = Append(hist, Rec(kind, Len(hist) + 1, 0))
      BY <1>2 DEF RecordRequest
    <2> QED BY <2>1, <2>2, BoundaryHistory
  <1>3. ASSUME RecordCancel PROVE Extends(hist, hist') /\ Owned(hist')
    <2>1. "cancel" \in BoundaryKinds
      BY DEF BoundaryKinds
    <2>2. hist' = Append(hist, Rec("cancel", Len(hist) + 1, 0))
      BY <1>3 DEF RecordCancel
    <2> QED BY <2>1, <2>2, BoundaryHistory
  <1>4. ASSUME Handlers
        PROVE  \/ hist' = hist
               \/ \E kind \in {"input", "continue", "compact"} : RecordRequest(kind)
               \/ RecordCancel
    BY <1>4, Zenon
    DEF Handlers, EnqueueCommit, EnqueueDropped, CancelCommit, CancelDropped,
        CancelSignal, EnqueueRegister, durable
  <1>5. ASSUME Supervisor \/ Crash \/ UNCHANGED vars PROVE hist' = hist
    BY <1>5, Zenon DEF Supervisor, EnsureRead, EnsureRegister, Crash, durable, vars
  <1>6. ASSUME NEW t \in Tasks,
               Run(t) \/ Ending(t) \/ ClearCurrent(t) \/ StorageError(t) \/ Panic(t)
        PROVE  Quiet(hist, hist') /\ Owned(hist')
    BY <1>6, TaskHistory
  <1>7. ASSUME NEW c \in DOMAIN hist, WorkerResult(c)
        PROVE  Quiet(hist, hist') /\ Owned(hist')
    BY <1>7, ResultHistory
  <1>8. Quiet(hist, hist') => Extends(hist, hist')
    BY DEF Quiet
  <1> QED BY <1>1, <1>2, <1>3, <1>4, <1>5, <1>6, <1>7, <1>8, Zenon DEF Next

-----------------------------------------------------------------------------
(* Requests of tasks and of registrations under way exist.                 *)

\* A registered request has a task of its own; the others keep theirs.
LEMMA RegisterKeeps ==
    ASSUME TypeOK, NEW t \in Tasks, NEW rec, NEW op, Register(t, rec, op)
    PROVE  /\ task'[t].rec = rec /\ task'[t].op = op /\ task'[t].pc = "start"
           /\ \A u \in Tasks \ {t} :
                 task'[u] \in {task[u], [task[u] EXCEPT !.sig = TRUE]}
  <1>1. task'[t] = NewTask("start", rec, op)
    BY DEF Register
  <1>2. \A u \in Tasks \ {t} :
           task'[u] = [task[u] EXCEPT !.sig = TRUE] \/ task'[u] = task[u]
    BY DEF Register
  <1>3. task'[t].rec = rec /\ task'[t].op = op /\ task'[t].pc = "start"
    BY <1>1 DEF NewTask
  <1> QED BY <1>2, <1>3

\* What a step leaves of a task it does not register anew: its request, and
\* the knowledge that its turn was concluded.
Continues(u) ==
    /\ task'[u].pc # "none" =>
          Live(u) /\ task'[u].rec = task[u].rec /\ task'[u].op = task[u].op
    /\ task'[u].pc = "decide" => NotesContinuation \/ task[u].pc = "decide"
    /\ Concluded(u)' => Concluded(u) \/ Stale(u) \/ task[u].rec \in done'

\* A step registers a new task for u, or u continues.
LEMMA TasksStep ==
    ASSUME TypeOK, RequestsExist, [Next]_vars, NEW u \in Tasks
    PROVE  \/ Continues(u)
           \/ /\ lock.op \in {"enqueue", "ensure"}
              /\ task'[u].rec = lock.rec /\ task'[u].op = lock.as
              /\ task'[u].pc = "start"
  <1> DEFINE New == /\ lock.op \in {"enqueue", "ensure"}
                    /\ task'[u].rec = lock.rec /\ task'[u].op = lock.as
                    /\ task'[u].pc = "start"
  <1>0. task \in [Tasks -> TaskState]
    BY DEF TypeOK
  <1>1. ASSUME task'[u] \in {task[u], [task[u] EXCEPT !.sig = TRUE]} PROVE Continues(u)
    <2>1. /\ [task[u] EXCEPT !.sig = TRUE].rec = task[u].rec
          /\ [task[u] EXCEPT !.sig = TRUE].op = task[u].op
          /\ [task[u] EXCEPT !.sig = TRUE].pc = task[u].pc
          /\ [task[u] EXCEPT !.sig = TRUE].resp = task[u].resp
          /\ [task[u] EXCEPT !.sig = TRUE].res = task[u].res
      BY <1>0 DEF TaskState
    <2>2. /\ task'[u].rec = task[u].rec /\ task'[u].op = task[u].op
          /\ task'[u].pc = task[u].pc /\ task'[u].resp = task[u].resp
          /\ task'[u].res = task[u].res
      BY <1>1, <2>1
    <2> QED BY <2>2 DEF Continues, Live, Concluded
  <1>2. ASSUME NEW t \in Tasks, KeepsRequest(t), Busy(t)' \/ Confirms(t)
        PROVE  Continues(u)
    <2>1. CASE u = t
      <3>1. Confirms(t)
        BY <1>2, BusyConfirms
      <3> QED BY <1>2, <2>1, <3>1 DEF KeepsRequest, Confirms, Continues
    <2>2. CASE u # t
      BY <1>1, <1>2, <2>2 DEF KeepsRequest
    <2> QED BY <2>1, <2>2
  <1>3. ASSUME NEW t \in Tasks, lock.op \in {"enqueue", "ensure"},
               Register(t, lock.rec, lock.as)
        PROVE  Continues(u) \/ New
    <2>1. CASE u = t
      BY <1>3, <2>1, RegisterKeeps
    <2>2. CASE u # t
      BY <1>1, <1>3, <2>2, RegisterKeeps
    <2> QED BY <2>1, <2>2
  <1>4. ASSUME CancelSignal PROVE Continues(u)
    <2>1. task'[u] = [task[u] EXCEPT !.sig = TRUE] \/ task'[u] = task[u]
      BY <1>4 DEF CancelSignal
    <2> QED BY <1>1, <2>1
  <1>5. ASSUME Crash PROVE Continues(u)
    <2>1. task'[u] = NoRun
      BY <1>5 DEF Crash
    <2>2. NoRun.pc = "none"
      BY DEF NoRun, NewTask
    <2> QED BY <2>1, <2>2 DEF Continues, Concluded
  <1>6. ASSUME NEW t \in Tasks, EnqueueRegister(t) PROVE Continues(u) \/ New
    <2>1. lock.op \in {"enqueue", "ensure"}
      BY <1>6 DEF EnqueueRegister
    <2>2. Register(t, lock.rec, lock.as) \/ task' = task
      BY <1>6, Zenon DEF EnqueueRegister
    <2> QED BY <1>1, <1>3, <2>1, <2>2
  <1>7. ASSUME NEW t \in Tasks, EnsureRegister(t) PROVE Continues(u) \/ New
    <2>1. lock.op \in {"enqueue", "ensure"} /\ Register(t, lock.rec, lock.as)
      BY <1>7 DEF EnsureRegister
    <2> QED BY <1>3, <2>1
  <1>8. ASSUME \/ \E kind \in {"input", "continue", "compact"} :
                     EnqueueCommit(kind) \/ EnqueueDropped(kind)
               \/ CancelCommit \/ CancelDropped \/ EnsureRead \/ UNCHANGED vars
               \/ \E c \in DOMAIN hist : WorkerResult(c)
        PROVE  Continues(u)
    <2>1. task' = task
      BY <1>8, Zenon
      DEF EnqueueCommit, EnqueueDropped, CancelCommit, CancelDropped, EnsureRead,
          WorkerResult, vars
    <2> QED BY <1>1, <2>1
  <1>9. ASSUME NEW t \in Tasks,
               Run(t) \/ Ending(t) \/ ClearCurrent(t) \/ StorageError(t) \/ Panic(t)
        PROVE  Continues(u)
    <2>1. KeepsRequest(t) /\ (Busy(t)' \/ Confirms(t))
      BY <1>9, ReadersKeep, WritersKeep, EndsKeep, ConcludersKeep, Zenon DEF Run
    <2> QED BY <1>2, <2>1
  <1> HIDE DEF New
  <1>10. Continues(u) \/ New
    BY <1>4, <1>5, <1>6, <1>7, <1>8, <1>9, Zenon DEF Next, Handlers, Supervisor
  <1> QED BY <1>10 DEF New

\* What a step does to the lock: it registers nothing new, or a handler or
\* the supervisor takes the lock to register a request.
LEMMA LockStep ==
    ASSUME [Next]_vars
    PROVE  \/ lock' = lock \/ lock'.op \in {"free", "cancel"} \/ EnsureRead
           \/ \E kind \in {"input", "continue", "compact"} : EnqueueCommit(kind)
  <1>1. Unlocked.op = "free" /\ [Unlocked EXCEPT !.op = "cancel"].op = "cancel"
    BY DEF Unlocked
  <1>2. \/ lock' = lock \/ lock' = Unlocked
        \/ lock' = [Unlocked EXCEPT !.op = "cancel"] \/ EnsureRead
        \/ \E kind \in {"input", "continue", "compact"} : EnqueueCommit(kind)
    <2>1. ASSUME Handlers
          PROVE  \/ lock' = lock \/ lock' = Unlocked
                 \/ lock' = [Unlocked EXCEPT !.op = "cancel"]
                 \/ \E kind \in {"input", "continue", "compact"} : EnqueueCommit(kind)
      BY <2>1, Zenon
      DEF Handlers, EnqueueDropped, CancelCommit, CancelDropped, CancelSignal,
          EnqueueRegister
    <2>2. ASSUME Supervisor \/ Crash
          PROVE  lock' = Unlocked \/ EnsureRead
      BY <2>2, Zenon DEF Supervisor, EnsureRegister, Crash
    <2>3. ASSUME NEW t \in Tasks,
                 \/ Load(t) \/ Wait(t) \/ Waited(t) \/ Settle(t) \/ SettleNext(t)
                 \/ WaitCall(t) \/ ToolEffect(t) \/ Answer(t) \/ Context(t)
                 \/ ManualContext(t)
                 \/ \E kind \in {"message", "call", "local"} : StreamItem(t, kind)
          PROVE  lock' = lock
      BY <2>3, Zenon
      DEF Load, Wait, Waited, Settle, SettleNext, WaitCall, ToolEffect, Answer,
          Context, ManualContext, StreamItem, ReadOnly
    <2>4. ASSUME NEW t \in Tasks,
                 \/ StreamEnqueue(t) \/ \E endTurn \in BOOLEAN : Complete(t, endTurn)
                 \/ StreamError(t) \/ Responded(t) \/ Decide(t) \/ Retry(t)
                 \/ Compacting(t) \/ Checkpoint(t)
                 \/ FinalizeSuccess(t) \/ FinalizeFailure(t)
          PROVE  lock' = lock
      BY <2>4, Zenon
      DEF StreamEnqueue, Complete, StreamError, Responded, Decide, Retry,
          Compacting, Checkpoint, FinalizeSuccess, FinalizeFailure, ReadOnly
    <2>5. ASSUME NEW t \in Tasks,
                 Ending(t) \/ ClearCurrent(t) \/ StorageError(t) \/ Panic(t)
          PROVE  lock' = lock
      BY <2>5, Zenon DEF Ending, ClearCurrent, StorageError, Panic, ReadOnly
    <2>6. ASSUME UNCHANGED vars \/ \E c \in DOMAIN hist : WorkerResult(c)
          PROVE  lock' = lock
      BY <2>6, Zenon DEF vars, WorkerResult
    <2> QED BY <2>1, <2>2, <2>3, <2>4, <2>5, <2>6, Zenon DEF Next, Run
  <1> QED BY <1>1, <1>2

LEMMA RequestsStep ==
    ASSUME TypeOK, RequestsExist, Owned(hist), [Next]_vars
    PROVE  RequestsExist'
  <1>1. Extends(hist, hist') /\ hist \in Seq(Record)
    BY StepHistory DEF TypeOK
  <1>2. ASSUME NEW u \in Tasks, task'[u].pc # "none"
        PROVE  IsRequest(hist', task'[u].rec, task'[u].op)
    <2>1. \/ Live(u) /\ task'[u].rec = task[u].rec /\ task'[u].op = task[u].op
          \/ /\ lock.op \in {"enqueue", "ensure"}
             /\ task'[u].rec = lock.rec /\ task'[u].op = lock.as
      BY <1>2, TasksStep DEF Continues
    <2>2. IsRequest(hist, task'[u].rec, task'[u].op)
      BY <2>1 DEF RequestsExist
    <2> QED BY <1>1, <2>2, RequestStays
  <1>3. ASSUME lock'.op \in {"enqueue", "ensure"}
        PROVE  IsRequest(hist', lock'.rec, lock'.as)
    <2>1. CASE lock' = lock
      <3>1. IsRequest(hist, lock.rec, lock.as)
        BY <1>3, <2>1 DEF RequestsExist
      <3> QED BY <1>1, <2>1, <3>1, RequestStays
    <2>2. ASSUME NEW kind \in {"input", "continue", "compact"}, EnqueueCommit(kind)
          PROVE  IsRequest(hist', lock'.rec, lock'.as)
      <3> DEFINE r == Rec(kind, Len(hist) + 1, 0)
      <3>1. /\ hist' = Append(hist, r)
            /\ lock' = [op |-> "enqueue", rec |-> Len(hist) + 1, as |-> OperationOf(kind)]
        BY <2>2 DEF EnqueueCommit, RecordRequest
      <3>2. lock'.rec = Len(hist) + 1 /\ lock'.as = OperationOf(kind)
        BY <3>1
      <3>3. r \in Record /\ r.kind = kind
        BY <1>1, RecType DEF Rec, Kinds, BoundaryKinds
      <3> HIDE DEF r
      <3>4. Len(hist) + 1 \in DOMAIN hist' /\ hist'[Len(hist) + 1] = r
        BY <1>1, <3>1, <3>3
      <3>5. IsBoundary(r)
        BY <3>3 DEF IsBoundary, BoundaryKinds
      <3> QED BY <3>2, <3>3, <3>4, <3>5 DEF IsRequest
    <2>3. CASE EnsureRead
      <3>1. PICK r \in DOMAIN hist :
               /\ Current(hist, r)
               /\ lock' = [op |-> "ensure", rec |-> r, as |-> OperationOf(hist[r].kind)]
        BY <2>3 DEF EnsureRead
      <3>2. lock'.rec = r /\ lock'.as = OperationOf(hist[r].kind)
        BY <3>1
      <3>3. IsRequest(hist, r, OperationOf(hist[r].kind))
        BY <3>1 DEF IsRequest, Current
      <3> QED BY <1>1, <3>2, <3>3, RequestStays
    <2>4. CASE lock'.op \in {"free", "cancel"}
      BY <1>3, <2>4
    <2> QED BY <2>1, <2>2, <2>3, <2>4, LockStep
  <1> QED BY <1>2, <1>3 DEF RequestsExist, Live

\* What keeps requests apart, strengthened to be inductive: the history is
\* owned, and whoever writes for a request writes for one that exists.
HistoryInv == TypeOK /\ RequestsExist /\ Owned(hist)

LEMMA HistoryInit == Init => HistoryInv
  <1> SUFFICES ASSUME Init PROVE HistoryInv
    OBVIOUS
  <1>1. TypeOK
    BY TypeInit
  <1>2. DOMAIN hist = {}
    BY DEF Init
  <1>3. Owned(hist)
    BY <1>2 DEF Owned
  <1>4. \A t \in Tasks : ~Live(t)
    BY DEF Init, Live, NoRun, NewTask
  <1>5. lock.op = "free"
    BY DEF Init, Unlocked
  <1> QED BY <1>1, <1>3, <1>4, <1>5 DEF HistoryInv, RequestsExist

LEMMA HistoryStep == HistoryInv /\ [Next]_vars => HistoryInv'
  <1> SUFFICES ASSUME HistoryInv, [Next]_vars PROVE HistoryInv'
    OBVIOUS
  <1>1. TypeOK /\ RequestsExist /\ Owned(hist)
    BY DEF HistoryInv
  <1>2. TypeOK'
    BY <1>1, TypeStep
  <1>3. RequestsExist'
    BY <1>1, RequestsStep
  <1>4. Owned(hist')
    BY <1>1, StepHistory
  <1> QED BY <1>2, <1>3, <1>4 DEF HistoryInv

\* No request writes protocol history past a newer boundary, however many
\* tasks, recovered turns and late results there are.
THEOREM HistoryIsOwned == Spec => []BoundaryOwnsHistory
  <1>1. HistoryInv => BoundaryOwnsHistory
    BY DEF HistoryInv, Owned, BoundaryOwnsHistory
  <1> QED BY <1>1, HistoryInit, HistoryStep, PTL DEF Spec

-----------------------------------------------------------------------------
(* Stop holds, unless a decision of the notes continuation undoes it.      *)

\* The notes continuation sets a Thread running again that was at rest.
Rearms(t) == Decide(t) /\ status # "running" /\ status' = "running"

\* The step undoes no Stop: a Thread is set running again only for its newest
\* request, by a task that no Stop has reached or is about to reach.
UndoesNoStop ==
    \A t \in Tasks : Rearms(t) =>
        Current(hist, task[t].rec) /\ ~task[t].sig /\ lock.op # "cancel"

\* What the theorems about Stop and about tasks assume.  Where the notes
\* continuation is off it says nothing; where it is on, as a deployment has
\* it by default, it excludes the runs in which a decision undoes a Stop.
StopsAreKept == NotesContinuation => [][UndoesNoStop]_vars

\* No task consults the continuation.
NobodyDecides == \A t \in Tasks : task[t].pc # "decide"

LEMMA UndecidedStep ==
    ASSUME TypeOK, RequestsExist, ~NotesContinuation, NobodyDecides, [Next]_vars
    PROVE  NobodyDecides'
  <1> SUFFICES ASSUME NEW u \in Tasks PROVE task'[u].pc # "decide"
    BY DEF NobodyDecides
  <1>1. task[u].pc # "decide"
    BY DEF NobodyDecides
  <1> QED BY <1>1, TasksStep DEF Continues

LEMMA UndoesNothing ==
    /\ NobodyDecides => UndoesNoStop
    /\ UNCHANGED vars => UndoesNoStop
  BY DEF NobodyDecides, UndoesNoStop, Rearms, Decide, At, vars

\* Either way no step of such a behaviour undoes a Stop.
LEMMA NoStopUndone == Spec /\ StopsAreKept => [][UndoesNoStop]_vars
  <1> DEFINE Inv == HistoryInv /\ NobodyDecides
  <1>1. Init => Inv
    <2>1. Init => \A t \in Tasks : task[t].pc # "decide"
      BY DEF Init, NoRun, NewTask
    <2> QED BY <2>1, HistoryInit DEF NobodyDecides
  <1>2. Inv => UndoesNoStop
    BY UndoesNothing
  <1>3. CASE NotesContinuation
    BY <1>3, PTL DEF StopsAreKept
  <1>4. CASE ~NotesContinuation
    <2>1. Inv /\ [Next]_vars => Inv'
      BY <1>4, HistoryStep, UndecidedStep DEF HistoryInv
    <2> HIDE DEF Inv
    <2> QED BY <1>1, <1>2, <2>1, PTL DEF Spec
  <1> QED BY <1>3, <1>4

\* A step that starts nothing and fails nothing that was not running, and
\* keeps within the retry budget.
Calm ==
    /\ status' = "running" =>
          status = "running" /\ (retry' = retry \/ retry' = 0 \/ retry' < MaxFailures)
    /\ status' = "failed" => status # "idle"

\* Steps of a task do not wake a Thread, but for a decision.
LEMMA TaskCalm ==
    ASSUME TypeOK, NEW t \in Tasks,
           Run(t) \/ Ending(t) \/ ClearCurrent(t) \/ StorageError(t) \/ Panic(t)
    PROVE  Calm \/ Rearms(t)
  <1>1. ASSUME status' = status, retry' = retry PROVE Calm
    BY <1>1 DEF Calm
  <1>2. CASE \/ Load(t) \/ Wait(t) \/ Waited(t) \/ Settle(t) \/ SettleNext(t)
             \/ WaitCall(t) \/ ToolEffect(t) \/ Answer(t) \/ Context(t)
             \/ ManualContext(t)
             \/ \E kind \in {"message", "call", "local"} : StreamItem(t, kind)
    BY <1>1, <1>2, Zenon
    DEF Load, Wait, Waited, Settle, SettleNext, WaitCall, ToolEffect, Answer,
        Context, ManualContext, StreamItem, ReadOnly, durable
  <1>3. CASE \/ StreamEnqueue(t) \/ StreamError(t) \/ Responded(t) \/ Ending(t)
             \/ ClearCurrent(t) \/ StorageError(t) \/ Panic(t)
    BY <1>1, <1>3, Zenon
    DEF StreamEnqueue, StreamError, Responded, Ending, ClearCurrent, StorageError,
        Panic, ReadOnly, durable
  <1>4. ASSUME NEW endTurn \in BOOLEAN, Complete(t, endTurn) PROVE Calm
    <2>1. /\ retry' = retry \/ retry' = 0
          /\ status' = status \/ status' = "idle"
      BY <1>4, Zenon DEF Complete
    <2> QED BY <2>1 DEF Calm
  <1>5. ASSUME Decide(t) PROVE Calm \/ Rearms(t)
    <2>1. retry' = retry /\ status' \in {status, "running"}
      BY <1>5, Zenon DEF Decide
    <2> QED BY <1>5, <2>1 DEF Calm, Rearms
  <1>6. ASSUME Retry(t) PROVE Calm
    <2>1. \/ status' = status /\ retry' = retry
          \/ /\ status = "running" /\ retry' = retry + 1
             /\ status' = IF retry + 1 >= MaxFailures THEN "failed" ELSE status
      BY <1>6, Zenon DEF Retry
    <2>2. retry \in Nat /\ MaxFailures \in Nat
      BY ThreadRunAssumption DEF TypeOK
    <2> QED BY <2>1, <2>2 DEF Calm
  <1>7. ASSUME Compacting(t) PROVE Calm
    BY <1>7 DEF Compacting, Calm
  <1>8. ASSUME Checkpoint(t) PROVE Calm
    <2>1. /\ retry' = retry \/ retry' = 0
          /\ status' = status \/ status' = "idle"
      BY <1>8, Zenon DEF Checkpoint, durable
    <2> QED BY <2>1 DEF Calm
  <1>9. ASSUME FinalizeSuccess(t) PROVE Calm
    BY <1>9 DEF FinalizeSuccess, Calm
  <1>10. ASSUME FinalizeFailure(t) PROVE Calm
    BY <1>10 DEF FinalizeFailure, Calm
  <1> QED
    BY <1>2, <1>3, <1>4, <1>5, <1>6, <1>7, <1>8, <1>9, <1>10, Zenon DEF Run

\* A step is calm, or a decision wakes the Thread, or a handler records a
\* boundary.
LEMMA StepCalm ==
    ASSUME TypeOK, [Next]_vars
    PROVE  \/ Calm
           \/ \E t \in Tasks : Rearms(t)
           \/ \E kind \in {"input", "continue", "compact"} : RecordRequest(kind)
           \/ RecordCancel
  <1>1. ASSUME status' = status, retry' = retry PROVE Calm
    BY <1>1 DEF Calm
  <1>2. CASE Handlers
    BY <1>1, <1>2, Zenon
    DEF Handlers, EnqueueCommit, EnqueueDropped, CancelCommit, CancelDropped,
        CancelSignal, EnqueueRegister, durable
  <1>3. CASE Supervisor \/ Crash \/ UNCHANGED vars
    BY <1>1, <1>3, Zenon DEF Supervisor, EnsureRead, EnsureRegister, Crash, durable, vars
  <1>4. CASE \E c \in DOMAIN hist : WorkerResult(c)
    BY <1>1, <1>4, Zenon DEF WorkerResult
  <1>5. ASSUME NEW t \in Tasks,
               Run(t) \/ Ending(t) \/ ClearCurrent(t) \/ StorageError(t) \/ Panic(t)
        PROVE  Calm \/ Rearms(t)
    BY <1>5, TaskCalm
  <1> QED BY <1>2, <1>3, <1>4, <1>5, Zenon DEF Next

\* The newest boundary is unique.
LEMMA CurrentIsUnique ==
    ASSUME NEW h \in Seq(Record), NEW r \in DOMAIN h, NEW s \in DOMAIN h,
           Current(h, r), Current(h, s)
    PROVE  r = s
  <1>1. r \in Nat /\ s \in Nat
    OBVIOUS
  <1>2. ~(r > s) /\ ~(s > r)
    BY DEF Current, Superseded
  <1> QED BY <1>1, <1>2

\* Nobody runs a Stop: tasks and registrations under way are for requests.
NoCancelRuns ==
    /\ \A t \in Tasks : Live(t) => hist[task[t].rec].kind # "cancel"
    /\ lock.op \in {"enqueue", "ensure"} => hist[lock.rec].kind # "cancel"

StopInv == HistoryInv /\ NoCancelRuns /\ StoppedStaysStopped

LEMMA StopInit == Init => StopInv
  <1> SUFFICES ASSUME Init PROVE StopInv
    OBVIOUS
  <1>1. \A t \in Tasks : ~Live(t)
    BY DEF Init, Live, NoRun, NewTask
  <1>2. lock.op = "free" /\ StoppedStaysStopped
    BY DEF Init, Unlocked, StoppedStaysStopped
  <1> QED BY <1>1, <1>2, HistoryInit DEF StopInv, NoCancelRuns

\* Requests are registered by the handler that recorded them, or by the
\* supervisor, which finds no Stop to be running.
LEMMA NoCancelStep ==
    ASSUME StopInv, [Next]_vars
    PROVE  NoCancelRuns'
  <1>1. /\ TypeOK /\ RequestsExist /\ NoCancelRuns /\ StoppedStaysStopped
        /\ hist \in Seq(Record)
    BY DEF StopInv, HistoryInv, TypeOK
  <1>2. Extends(hist, hist')
    BY StepHistory DEF StopInv, HistoryInv
  <1>3. ASSUME NEW u \in Tasks, Live(u)' PROVE hist'[task'[u].rec].kind # "cancel"
    <2>1. \/ Live(u) /\ task'[u].rec = task[u].rec
          \/ lock.op \in {"enqueue", "ensure"} /\ task'[u].rec = lock.rec
      BY <1>1, <1>3, TasksStep DEF Continues, Live
    <2>2. task'[u].rec \in DOMAIN hist /\ hist[task'[u].rec].kind # "cancel"
      BY <1>1, <2>1 DEF RequestsExist, IsRequest, NoCancelRuns
    <2> QED BY <1>2, <2>2 DEF Extends
  <1>4. ASSUME lock'.op \in {"enqueue", "ensure"}
        PROVE  hist'[lock'.rec].kind # "cancel"
    <2>1. CASE lock' = lock
      <3>1. lock.rec \in DOMAIN hist /\ hist[lock.rec].kind # "cancel"
        BY <1>1, <1>4, <2>1 DEF RequestsExist, IsRequest, NoCancelRuns
      <3> QED BY <1>2, <2>1, <3>1 DEF Extends
    <2>2. ASSUME NEW kind \in {"input", "continue", "compact"}, EnqueueCommit(kind)
          PROVE  hist'[lock'.rec].kind # "cancel"
      <3> DEFINE r == Rec(kind, Len(hist) + 1, 0)
      <3>1. /\ hist' = Append(hist, r)
            /\ lock' = [op |-> "enqueue", rec |-> Len(hist) + 1, as |-> OperationOf(kind)]
        BY <2>2 DEF EnqueueCommit, RecordRequest
      <3>2. lock'.rec = Len(hist) + 1
        BY <3>1
      <3>3. r \in Record /\ r.kind = kind
        BY <1>1, RecType DEF Rec, Kinds, BoundaryKinds
      <3> HIDE DEF r
      <3>4. hist'[Len(hist) + 1] = r
        BY <1>1, <3>1, <3>3
      <3> QED BY <3>2, <3>3, <3>4
    <2>3. CASE EnsureRead
      <3>1. PICK r \in DOMAIN hist :
               /\ Current(hist, r)
               /\ lock' = [op |-> "ensure", rec |-> r, as |-> OperationOf(hist[r].kind)]
        BY <2>3 DEF EnsureRead
      <3>2. lock'.rec = r /\ status = "running"
        BY <2>3, <3>1 DEF EnsureRead
      <3>3. hist[r].kind # "cancel"
        BY <1>1, <3>1, <3>2 DEF StoppedStaysStopped
      <3> QED BY <1>2, <3>2, <3>3 DEF Extends
    <2>4. CASE lock'.op \in {"free", "cancel"}
      BY <1>4, <2>4
    <2> QED BY <2>1, <2>2, <2>3, <2>4, LockStep
  <1> QED BY <1>3, <1>4 DEF NoCancelRuns

LEMMA StopStep ==
    ASSUME StopInv, [Next]_vars, UndoesNoStop
    PROVE  StopInv'
  <1>1. HistoryInv /\ NoCancelRuns /\ StoppedStaysStopped
    BY DEF StopInv
  <1>2. TypeOK /\ TypeOK' /\ HistoryInv'
    BY <1>1, HistoryStep, TypeStep DEF HistoryInv
  <1>3. NoCancelRuns'
    BY NoCancelStep
  <1>4. Extends(hist, hist')
    BY <1>1, StepHistory DEF HistoryInv
  <1>5. StoppedStaysStopped'
    <2> SUFFICES ASSUME NEW r \in DOMAIN hist', hist'[r].kind = "cancel", Current(hist', r)
                 PROVE  status' = "idle"
      BY DEF StoppedStaysStopped
    <2>1. IsBoundary(hist'[r]) /\ ~Superseded(hist', r)
      BY DEF Current
    <2>2. hist \in Seq(Record) /\ DOMAIN hist = 1..Len(hist) /\ Len(hist) \in Nat
      BY <1>2 DEF TypeOK
    <2>3. CASE RecordCancel
      BY <2>3 DEF RecordCancel
    <2>4. ASSUME NEW kind \in {"input", "continue", "compact"}, RecordRequest(kind)
          PROVE  FALSE
      <3> DEFINE b == Rec(kind, Len(hist) + 1, 0)
      <3>1. hist' = Append(hist, b)
        BY <2>4 DEF RecordRequest
      <3>2. b \in Record /\ b.kind = kind
        BY <2>2, RecType DEF Rec, Kinds, BoundaryKinds
      <3> HIDE DEF b
      <3>3. /\ Len(hist) + 1 \in DOMAIN hist' /\ hist'[Len(hist) + 1] = b
            /\ r \in 1..(Len(hist) + 1)
        BY <2>2, <3>1, <3>2
      <3>4. IsBoundary(b)
        BY <3>2 DEF IsBoundary, BoundaryKinds
      <3>5. ~(Len(hist) + 1 > r)
        BY <2>1, <3>3, <3>4 DEF Superseded
      <3>6. r = Len(hist) + 1
        BY <2>2, <3>3, <3>5
      <3> QED BY <3>2, <3>3, <3>6
    <2>5. CASE Quiet(hist, hist')
      <3>1. r \in DOMAIN hist
        BY <2>1, <2>5 DEF Quiet
      <3>2. hist[r] = hist'[r]
        BY <1>4, <3>1 DEF Extends
      <3>3. ~Superseded(hist, r)
        BY <1>4, <2>1 DEF Superseded, Extends
      <3>4. Current(hist, r) /\ hist[r].kind = "cancel"
        BY <2>1, <3>1, <3>2, <3>3 DEF Current
      <3>5. status = "idle"
        BY <1>1, <3>1, <3>4 DEF StoppedStaysStopped
      <3>6. status' \in {"idle", "running", "failed"}
        BY <1>2 DEF TypeOK
      <3>7. CASE Calm
        BY <3>5, <3>6, <3>7 DEF Calm
      <3>8. ASSUME NEW t \in Tasks, Rearms(t) PROVE FALSE
        <4>1. Current(hist, task[t].rec) /\ task[t].rec \in DOMAIN hist
          BY <3>8 DEF UndoesNoStop, Current
        <4>2. task[t].rec = r
          BY <2>2, <3>1, <3>4, <4>1, CurrentIsUnique
        <4>3. Live(t)
          BY <3>8 DEF Rearms, Decide, At, Live
        <4> QED BY <1>1, <3>4, <4>2, <4>3 DEF NoCancelRuns
      <3> QED BY <1>2, <2>3, <2>4, <3>7, <3>8, StepCalm
    <2> QED
      <3>1. \/ Quiet(hist, hist')
            \/ \E kind \in {"input", "continue", "compact"} : RecordRequest(kind)
            \/ RecordCancel
        BY <1>1, StepHistory DEF HistoryInv
      <3> QED BY <2>3, <2>4, <2>5, <3>1
  <1> QED BY <1>2, <1>3, <1>5 DEF StopInv

\* Stop holds: unless a decision of the notes continuation undoes it, no step
\* of any task, handler or supervisor sets a stopped Thread running or fails
\* it.
THEOREM StopHolds == Spec /\ StopsAreKept => []StoppedStaysStopped
  <1>1. StopInv /\ [Next]_vars /\ [UndoesNoStop]_vars => StopInv'
    BY StopStep, UndoesNothing
  <1>2. StopInv => StoppedStaysStopped
    BY DEF StopInv
  <1> QED BY <1>1, <1>2, StopInit, NoStopUndone, PTL DEF Spec

-----------------------------------------------------------------------------
(* No accepted request is lost.                                            *)

\* A turn that concluded is done, unless a newer boundary made it stale.
ConclusionsHold ==
    \A t \in Tasks : Concluded(t) => Stale(t) \/ task[t].rec \in done

IdleInv == HistoryInv /\ ConclusionsHold /\ IdleIsExplained

\* Nothing that is done is forgotten.
LEMMA DoneGrows ==
    ASSUME TypeOK, [Next]_vars
    PROVE  done \subseteq done'
  <1>1. ASSUME done' = done PROVE done \subseteq done'
    BY <1>1
  <1>2. ASSUME NEW t \in Tasks,
               done' = done \cup {task[t].rec}
        PROVE  done \subseteq done'
    BY <1>2
  <1>3. CASE Handlers
    BY <1>1, <1>3, Zenon
    DEF Handlers, EnqueueCommit, EnqueueDropped, CancelCommit, CancelDropped,
        CancelSignal, EnqueueRegister, RecordRequest, RecordCancel, durable
  <1>4. CASE Supervisor \/ Crash \/ UNCHANGED vars \/ \E c \in DOMAIN hist : WorkerResult(c)
    BY <1>1, <1>4, Zenon
    DEF Supervisor, EnsureRead, EnsureRegister, Crash, WorkerResult, durable, vars
  <1>5. ASSUME NEW t \in Tasks,
               Run(t) \/ Ending(t) \/ ClearCurrent(t) \/ StorageError(t) \/ Panic(t)
        PROVE  done \subseteq done'
    <2>1. CASE \/ Load(t) \/ Wait(t) \/ Waited(t) \/ Settle(t) \/ SettleNext(t)
               \/ WaitCall(t) \/ ToolEffect(t) \/ Answer(t) \/ Context(t)
               \/ ManualContext(t)
               \/ \E kind \in {"message", "call", "local"} : StreamItem(t, kind)
      BY <1>1, <2>1, Zenon
      DEF Load, Wait, Waited, Settle, SettleNext, WaitCall, ToolEffect, Answer,
          Context, ManualContext, StreamItem, ReadOnly, durable
    <2>2. CASE \/ StreamEnqueue(t) \/ StreamError(t) \/ Responded(t) \/ Ending(t)
               \/ ClearCurrent(t) \/ StorageError(t) \/ Panic(t) \/ Decide(t) \/ Retry(t)
               \/ Compacting(t) \/ FinalizeSuccess(t) \/ FinalizeFailure(t)
      BY <1>1, <2>2, Zenon
      DEF StreamEnqueue, StreamError, Responded, Ending, ClearCurrent, StorageError,
          Panic, Decide, Retry, Compacting, FinalizeSuccess, FinalizeFailure,
          ReadOnly, durable
    <2>3. CASE (\E endTurn \in BOOLEAN : Complete(t, endTurn)) \/ Checkpoint(t)
      BY <1>1, <1>2, <2>3, Zenon DEF Complete, Checkpoint, durable
    <2> QED BY <1>5, <2>1, <2>2, <2>3, Zenon DEF Run
  <1> QED BY <1>3, <1>4, <1>5, Zenon DEF Next

\* A boundary stays superseded.
LEMMA StaleStays ==
    ASSUME NEW h, NEW g, Extends(h, g), NEW rec, Superseded(h, rec)
    PROVE  Superseded(g, rec)
  BY DEF Extends, Superseded

LEMMA ConclusionsStep ==
    ASSUME HistoryInv, ConclusionsHold, [Next]_vars
    PROVE  ConclusionsHold'
  <1> SUFFICES ASSUME NEW u \in Tasks, Concluded(u)'
               PROVE  Superseded(hist', task'[u].rec) \/ task'[u].rec \in done'
    BY DEF ConclusionsHold, Stale
  <1>1. TypeOK /\ RequestsExist /\ Extends(hist, hist') /\ done \subseteq done'
    BY StepHistory, DoneGrows DEF HistoryInv
  <1>2. task'[u].pc # "start" /\ task'[u].pc # "none"
    BY DEF Concluded
  <1>3. Continues(u)
    BY <1>1, <1>2, TasksStep
  <1>4. task'[u].rec = task[u].rec
    BY <1>2, <1>3 DEF Continues
  <1>5. Stale(u) \/ task[u].rec \in done'
    BY <1>1, <1>3 DEF Continues, ConclusionsHold
  <1> QED BY <1>1, <1>4, <1>5, StaleStays DEF Stale

\* The steps that put a running or failed Thread to rest.
LEMMA RestIsEarned ==
    ASSUME HistoryInv, ConclusionsHold, NEW t \in Tasks,
           Run(t) \/ Ending(t) \/ ClearCurrent(t) \/ StorageError(t) \/ Panic(t),
           status' = "idle", status # "idle"
    PROVE  task[t].rec \in done' /\ Current(hist, task[t].rec)
  <1>0. TypeOK /\ RequestsExist
    BY DEF HistoryInv
  <1>1. CASE \/ Load(t) \/ Wait(t) \/ Waited(t) \/ Settle(t) \/ SettleNext(t)
             \/ WaitCall(t) \/ ToolEffect(t) \/ Answer(t) \/ Context(t)
             \/ ManualContext(t)
             \/ \E kind \in {"message", "call", "local"} : StreamItem(t, kind)
    <2>1. status' = status
      BY <1>1, Zenon
      DEF Load, Wait, Waited, Settle, SettleNext, WaitCall, ToolEffect, Answer,
          Context, ManualContext, StreamItem, ReadOnly, durable
    <2> QED BY <2>1
  <1>2. CASE \/ StreamEnqueue(t) \/ StreamError(t) \/ Responded(t) \/ Ending(t)
             \/ ClearCurrent(t) \/ StorageError(t) \/ Panic(t) \/ Compacting(t)
    <2>1. status' = status
      BY <1>2, Zenon
      DEF StreamEnqueue, StreamError, Responded, Ending, ClearCurrent, StorageError,
          Panic, Compacting, ReadOnly, durable
    <2> QED BY <2>1
  <1>3. CASE Decide(t) \/ Retry(t) \/ FinalizeFailure(t)
    BY <1>3 DEF Decide, Retry, FinalizeFailure
  <1>4. ASSUME Live(t), ~Stale(t) PROVE Current(hist, task[t].rec)
    BY <1>0, <1>4 DEF RequestsExist, IsRequest, Current, Stale
  <1>5. ASSUME NEW endTurn \in BOOLEAN, Complete(t, endTurn)
        PROVE  task[t].rec \in done' /\ Current(hist, task[t].rec)
    <2>1. At(t, "infer") /\ ~Stale(t) /\ done' = done \cup {task[t].rec}
      BY <1>5, Zenon DEF Complete
    <2>2. Live(t)
      BY <2>1 DEF At, Live
    <2> QED BY <1>4, <2>1, <2>2
  <1>6. ASSUME Checkpoint(t) PROVE task[t].rec \in done' /\ Current(hist, task[t].rec)
    <2>1. At(t, "checkpoint") /\ ~Stale(t) /\ done' = done \cup {task[t].rec}
      BY <1>6, Zenon DEF Checkpoint, durable
    <2>2. Live(t)
      BY <2>1 DEF At, Live
    <2> QED BY <1>4, <2>1, <2>2
  <1>7. ASSUME FinalizeSuccess(t) PROVE task[t].rec \in done' /\ Current(hist, task[t].rec)
    <2>1. At(t, "succeed") /\ Current(hist, task[t].rec) /\ done' = done
      BY <1>7, Zenon DEF FinalizeSuccess
    <2>2. Concluded(t) /\ ~Stale(t)
      BY <2>1 DEF At, Concluded, Stale, Current
    <2> QED BY <2>1, <2>2 DEF ConclusionsHold
  <1> QED BY <1>1, <1>2, <1>3, <1>5, <1>6, <1>7, Zenon DEF Run

LEMMA IdleStep ==
    ASSUME IdleInv, [Next]_vars
    PROVE  IdleIsExplained'
  <1>0. HistoryInv /\ ConclusionsHold /\ IdleIsExplained /\ TypeOK /\ TypeOK'
    BY TypeStep DEF IdleInv, HistoryInv
  <1>1. hist \in Seq(Record) /\ Extends(hist, hist') /\ done \subseteq done'
    BY <1>0, StepHistory, DoneGrows DEF HistoryInv, TypeOK
  <1> SUFFICES ASSUME status' = "idle", NEW r \in DOMAIN hist', Current(hist', r)
               PROVE  hist'[r].kind = "cancel" \/ r \in done'
    BY DEF IdleIsExplained
  <1>2. ASSUME NEW kind \in {"input", "continue", "compact"}, RecordRequest(kind)
        PROVE  FALSE
    BY <1>2 DEF RecordRequest
  <1>3. CASE RecordCancel
    <2> DEFINE b == Rec("cancel", Len(hist) + 1, 0)
    <2>1. hist' = Append(hist, b)
      BY <1>3 DEF RecordCancel
    <2>2. b \in Record /\ b.kind = "cancel"
      BY <1>1, RecType DEF Rec, Kinds, BoundaryKinds
    <2> HIDE DEF b
    <2>3. /\ Len(hist) + 1 \in DOMAIN hist' /\ hist'[Len(hist) + 1] = b
          /\ r \in 1..(Len(hist) + 1) /\ Len(hist) \in Nat
      BY <1>1, <2>1, <2>2
    <2>4. IsBoundary(b)
      BY <2>2 DEF IsBoundary, BoundaryKinds
    <2>5. ~(Len(hist) + 1 > r)
      BY <2>3, <2>4 DEF Superseded, Current
    <2>6. r = Len(hist) + 1
      BY <2>3, <2>5
    <2> QED BY <2>2, <2>3, <2>6
  <1>4. CASE Quiet(hist, hist')
    <2>1. r \in DOMAIN hist /\ hist'[r] = hist[r]
      BY <1>4 DEF Quiet, Current, Extends
    <2>2. ~Superseded(hist, r)
      BY <1>1, StaleStays DEF Current
    <2>3. Current(hist, r)
      BY <2>1, <2>2 DEF Current
    <2>4. CASE status = "idle"
      BY <1>0, <1>1, <2>1, <2>3, <2>4 DEF IdleIsExplained
    <2>5. ASSUME status # "idle", NEW t \in Tasks,
                 Run(t) \/ Ending(t) \/ ClearCurrent(t) \/ StorageError(t) \/ Panic(t)
          PROVE  r \in done'
      <3>1. task[t].rec \in done' /\ Current(hist, task[t].rec)
        BY <1>0, <2>5, RestIsEarned
      <3>2. task[t].rec \in DOMAIN hist
        BY <3>1 DEF Current
      <3> QED BY <1>1, <2>1, <2>3, <3>1, <3>2, CurrentIsUnique
    <2>6. CASE Handlers
      <3>1. \/ status' = status \/ RecordCancel
            \/ \E kind \in {"input", "continue", "compact"} : RecordRequest(kind)
        BY <2>6, Zenon
        DEF Handlers, EnqueueCommit, EnqueueDropped, CancelCommit, CancelDropped,
            CancelSignal, EnqueueRegister, durable
      <3> QED BY <1>2, <1>3, <2>4, <3>1
    <2>7. CASE Supervisor \/ Crash \/ UNCHANGED vars \/ \E c \in DOMAIN hist : WorkerResult(c)
      <3>1. status' = status
        BY <2>7, Zenon
        DEF Supervisor, EnsureRead, EnsureRegister, Crash, WorkerResult, durable, vars
      <3> QED BY <2>4, <3>1
    <2> QED BY <2>4, <2>5, <2>6, <2>7, Zenon DEF Next
  <1> QED BY <1>0, <1>2, <1>3, <1>4, StepHistory DEF HistoryInv

LEMMA IdleInvInit == Init => IdleInv
  <1> SUFFICES ASSUME Init PROVE IdleInv
    OBVIOUS
  <1>1. \A t \in Tasks : ~Concluded(t)
    BY DEF Init, NoRun, NewTask, Concluded
  <1>2. IdleIsExplained
    BY DEF Init, IdleIsExplained
  <1> QED BY <1>1, <1>2, HistoryInit DEF IdleInv, ConclusionsHold

LEMMA IdleInvStep == IdleInv /\ [Next]_vars => IdleInv'
  <1> SUFFICES ASSUME IdleInv, [Next]_vars PROVE IdleInv'
    OBVIOUS
  <1>1. HistoryInv' /\ ConclusionsHold'
    BY HistoryStep, ConclusionsStep DEF IdleInv
  <1> QED BY <1>1, IdleStep DEF IdleInv

\* An idle Thread was stopped or has finished its newest request: crashes,
\* races, storage errors and dropped callers lose no accepted prompt.
THEOREM NothingIsLost == Spec => []IdleIsExplained
  <1>1. IdleInv => IdleIsExplained
    BY DEF IdleInv
  <1> QED BY <1>1, IdleInvInit, IdleInvStep, PTL DEF Spec

=============================================================================
