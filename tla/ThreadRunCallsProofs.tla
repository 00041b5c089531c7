------------------------ MODULE ThreadRunCallsProofs ------------------------
(***************************************************************************)
(* Theorems about ThreadRun that say who runs a request and what becomes   *)
(* of the calls it makes, for any number of tasks, requests, items and     *)
(* faults, with the notes continuation off or on.  Where it is on they     *)
(* assume that no decision of it undoes a Stop (StopsAreKept): one that    *)
(* does runs a request in two tasks at once.                               *)
(***************************************************************************)
EXTENDS ThreadRunProofs, FiniteSetTheorems

-----------------------------------------------------------------------------
(* The invariants.                                                         *)

\* The Thread will not run request rec again: a newer boundary exists, or the
\* request is still the newest one but the Thread does not run.
Moot(rec) == Superseded(hist, rec) \/ status # "running"

\* Two tasks never run one request.
OwnRequests ==
    \A t, u \in Tasks : Live(t) /\ Live(u) /\ task[t].rec = task[u].rec => t = u

\* A task is only told to stop when its request is moot.
SignalledIsMoot == \A t \in Tasks : Live(t) /\ task[t].sig => Moot(task[t].rec)

\* What holds while a handler or the supervisor keeps the registry locked:
\* Stop has made every request moot, a prompt is newer than every task, and
\* the request that the supervisor found abandoned has no task.
LockInv ==
    /\ lock.op = "cancel" => \A t \in Tasks : Live(t) => Moot(task[t].rec)
    /\ lock.op = "enqueue" => \A t \in Tasks : Live(t) => task[t].rec < lock.rec
    /\ lock.op = "ensure" =>
          ~LiveEntry /\ \A t \in Tasks : Live(t) => task[t].rec # lock.rec

LoopInv ==
    /\ HistoryInv
    /\ LoopIsRegistered /\ OwnRequests /\ SignalledIsMoot /\ LockInv

\* Records answer earlier calls; an answer outside the request's history
\* comes after a newer boundary.
RefsInv ==
    \A i \in DOMAIN hist :
        /\ hist[i].ref < i
        /\ hist[i].ref # 0 =>
              \/ hist[i].kind = "output"
              \/ hist[i].kind = "late" /\ Superseded(hist, hist[i].ref)

Unique == \A c \in DOMAIN hist : \A i, j \in Outputs(hist, c) : i = j

\* Call c of history h is one of request rec: no boundary lies between them.
CallOf(h, rec, c) ==
    /\ c \in DOMAIN h /\ h[c].kind \in CallKinds /\ rec < c
    /\ \A j \in DOMAIN h : rec < j /\ j <= c => ~IsBoundary(h[j])

\* A call that a task is to settle.  Nobody else answers a Controller tool,
\* while a Worker call may be answered by its Worker meanwhile.
Due(h, rec, c) ==
    /\ CallOf(h, rec, c)
    /\ h[c].kind = "local" /\ ~Superseded(h, rec) => Outputs(h, c) = {}

\* A call that needs no answer any more.
Settled(h, rec, c) == Superseded(h, rec) \/ Outputs(h, c) # {}

AtCall(s) == s.pc \in {"waitcall", "effect", "answer"}

\* Task s is settling the saved calls of its request.
Settling(s) ==
    \/ s.pc \in {"tools", "context", "waitcall"}
    \/ s.pc \in {"effect", "answer"} /\ s.back = "tools"

\* Task s will settle call c.
Owes(s, c) ==
    \/ s.pc # "context" /\ c \in s.pend
    \/ AtCall(s) /\ c = s.call

\* What a task s knows of the calls of its request in history h: which of
\* them it is to settle, that it forgets none of them, and that none is open
\* up to the end of the context it compiled.
Turn(h, s) ==
    /\ s.tail <= Len(h)
    /\ \A c \in s.pend : Due(h, s.rec, c)
    /\ AtCall(s) /\ s.call # 0 => Due(h, s.rec, s.call) /\ s.call \notin s.pend
    /\ Settling(s) =>
          \A c \in DOMAIN h : CallOf(h, s.rec, c) => Settled(h, s.rec, c) \/ Owes(s, c)
    /\ \A c \in DOMAIN h :
          CallOf(h, s.rec, c) /\ c <= s.tail => Settled(h, s.rec, c)

TurnsInv == \A t \in Tasks : Live(t) => Turn(hist, task[t])

\* A checkpoint leaves no call of the newest request unanswered behind it.
Sealed ==
    \A k \in DOMAIN hist : hist[k].kind = "checkpoint" =>
        \A c \in DOMAIN hist : c < k /\ hist[c].kind \in CallKinds =>
            Superseded(hist, c) \/ \E o \in Outputs(hist, c) : o < k

\* The answers of a history.
AnswersInv == RefsInv /\ Unique /\ CheckpointKeepsPairs /\ Sealed

CallsInv == LoopInv /\ AnswersInv /\ TurnsInv

-----------------------------------------------------------------------------
(* How a task moves.                                                       *)

\* The labels at which a task deals with calls.
CallLabels == {"tools", "context", "waitcall", "effect", "answer"}

\* Task t moves on to a label where it deals with no call, perhaps having
\* forgotten the calls and the context it had.
Rests(t) ==
    /\ task'[t].rec = task[t].rec /\ task'[t].sig = task[t].sig
    /\ task'[t].pc \notin CallLabels
    /\ task'[t].pend \in {task[t].pend, {}}
    /\ task'[t].tail \in {task[t].tail, 0}

\* The three ways a task moves on.
LEMMA MoveRests ==
    ASSUME TypeOK, NEW t \in Tasks
    PROVE  /\ \A pc \in Labels \ CallLabels : Goto(t, pc) => Rests(t)
           /\ \A res \in {"ok", "error", "cancelled"} : Finish(t, res) => Rests(t)
           /\ NextLap(t) => Rests(t)
  <1>1. task \in [Tasks -> TaskState] /\ task[t] \in TaskState
    BY DEF TypeOK
  <1>2. ASSUME NEW pc \in Labels \ CallLabels, Goto(t, pc) PROVE Rests(t)
    <2> DEFINE s == [task[t] EXCEPT !.pc = pc]
    <2>1. task' = [task EXCEPT ![t] = s]
      BY <1>2 DEF Goto
    <2>2. /\ s.pc = pc /\ s.rec = task[t].rec /\ s.sig = task[t].sig
          /\ s.pend = task[t].pend /\ s.tail = task[t].tail
      BY <1>1 DEF TaskState
    <2> HIDE DEF s
    <2>3. task'[t] = s
      BY <1>1, <2>1
    <2> QED BY <2>2, <2>3 DEF Rests
  <1>3. ASSUME NEW res \in {"ok", "error", "cancelled"}, Finish(t, res) PROVE Rests(t)
    BY <1>1, <1>3 DEF Finish, NewTask, Rests, CallLabels
  <1>4. ASSUME NextLap(t) PROVE Rests(t)
    BY <1>1, <1>4 DEF NextLap, NewTask, Rests, CallLabels
  <1> QED BY <1>2, <1>3, <1>4

\* Steps of a task that deal with no call.
LEMMA OtherMoves ==
    ASSUME TypeOK, NEW t \in Tasks
    PROVE  (\/ Load(t) \/ Wait(t) \/ Waited(t) \/ StreamEnqueue(t) \/ StreamError(t)
            \/ \E endTurn \in BOOLEAN : Complete(t, endTurn)
            \/ Responded(t) \/ Decide(t) \/ Retry(t) \/ Compacting(t) \/ Checkpoint(t)
            \/ FinalizeSuccess(t) \/ FinalizeFailure(t) \/ Ending(t) \/ StorageError(t))
           => Rests(t)
  <1>0. task \in [Tasks -> TaskState] /\ task[t] \in TaskState
    BY DEF TypeOK
  <1>1. {"wait", "waiting", "manual", "settle", "infer", "decide", "retry", "checkpoint",
         "fail", "succeed", "clear"} \subseteq Labels \ CallLabels
    BY LabelNames DEF CallLabels
  <1>2. CASE Load(t) \/ Wait(t) \/ Waited(t) \/ StreamEnqueue(t)
    <2>1. \/ Goto(t, "wait") \/ Goto(t, "waiting") \/ Goto(t, "manual")
          \/ Goto(t, "settle") \/ Goto(t, "infer")
          \/ Finish(t, "error") \/ Finish(t, "cancelled")
      BY <1>2 DEF Load, Wait, Waited, StreamEnqueue
    <2> QED BY <1>1, <2>1, MoveRests
  <1>3. CASE StreamError(t)
    <2> DEFINE r == [task[t] EXCEPT !.pc = "retry", !.tail = 0, !.resp = "none"]
    <2> DEFINE s == [task[t] EXCEPT !.pc = "compacting", !.over = @ + 1, !.resp = "none"]
    <2>1. \/ task' = [task EXCEPT ![t] = r] \/ task' = [task EXCEPT ![t] = s]
          \/ Finish(t, "error") \/ Finish(t, "cancelled")
      BY <1>3 DEF StreamError
    <2>2. /\ r.pc = "retry" /\ r.rec = task[t].rec /\ r.sig = task[t].sig
          /\ r.pend = task[t].pend /\ r.tail = 0
          /\ s.pc = "compacting" /\ s.rec = task[t].rec /\ s.sig = task[t].sig
          /\ s.pend = task[t].pend /\ s.tail = task[t].tail
      BY <1>0 DEF TaskState
    <2> HIDE DEF r, s
    <2>3. \/ task'[t] = r \/ task'[t] = s \/ Finish(t, "error") \/ Finish(t, "cancelled")
      BY <1>0, <2>1
    <2> QED BY <2>2, <2>3, MoveRests DEF Rests, CallLabels
  <1>4. ASSUME NEW endTurn \in BOOLEAN, Complete(t, endTurn) PROVE Rests(t)
    <2> DEFINE r == [task[t] EXCEPT !.pc = "responded", !.tail = 0,
                                    !.resp = IF endTurn THEN @ ELSE "again"]
    <2>1. task' = [task EXCEPT ![t] = r]
      BY <1>4 DEF Complete
    <2>2. /\ r.pc = "responded" /\ r.rec = task[t].rec /\ r.sig = task[t].sig
          /\ r.pend = task[t].pend /\ r.tail = 0
      BY <1>0 DEF TaskState
    <2> HIDE DEF r
    <2>3. task'[t] = r
      BY <1>0, <2>1
    <2> QED BY <2>2, <2>3 DEF Rests, CallLabels
  <1>5. CASE Responded(t) \/ Decide(t) \/ Retry(t)
    <2>1. \/ Goto(t, "decide") \/ NextLap(t)
          \/ Finish(t, "ok") \/ Finish(t, "error") \/ Finish(t, "cancelled")
      BY <1>5, Zenon DEF Responded, Decide, Retry
    <2> QED BY <1>1, <2>1, MoveRests
  <1>6. CASE Compacting(t) \/ Checkpoint(t)
    <2>1. \/ Goto(t, "checkpoint") \/ Goto(t, "retry") \/ NextLap(t)
          \/ Finish(t, "ok") \/ Finish(t, "error") \/ Finish(t, "cancelled")
      BY <1>6, Zenon DEF Compacting, Checkpoint
    <2> QED BY <1>1, <2>1, MoveRests
  <1>7. CASE FinalizeSuccess(t) \/ FinalizeFailure(t) \/ Ending(t) \/ StorageError(t)
    <2>1. \/ Goto(t, "fail") \/ Goto(t, "succeed") \/ Goto(t, "clear")
          \/ Finish(t, "ok") \/ Finish(t, "error")
      BY <1>7 DEF FinalizeSuccess, FinalizeFailure, Ending, StorageError
    <2> QED BY <1>1, <2>1, MoveRests
  <1> QED BY <1>2, <1>3, <1>4, <1>5, <1>6, <1>7

\* Steps that start, settle and answer calls.
LEMMA SettleMove ==
    ASSUME TypeOK, NEW t \in Tasks, Settle(t)
    PROVE  \/ Rests(t)
           \/ /\ ~Stale(t) /\ task'[t].pc = "tools"
              /\ task'[t].rec = task[t].rec /\ task'[t].sig = task[t].sig
              /\ task'[t].pend = Unanswered(hist, task[t].rec)
              /\ task'[t].tail = task[t].tail
  <1>1. task \in [Tasks -> TaskState] /\ task[t] \in TaskState
    BY DEF TypeOK
  <1>2. CASE Stale(t)
    BY <1>2, MoveRests DEF Settle
  <1>3. CASE ~Stale(t)
    <2> DEFINE calls == Unanswered(hist, task[t].rec)
    <2> DEFINE s == [task[t] EXCEPT !.pc = "tools", !.pend = calls]
    <2>1. task' = [task EXCEPT ![t] = s]
      BY <1>3 DEF Settle
    <2> HIDE DEF calls
    <2>2. /\ s.pc = "tools" /\ s.rec = task[t].rec /\ s.sig = task[t].sig
          /\ s.pend = calls /\ s.tail = task[t].tail
      BY <1>1 DEF TaskState
    <2> HIDE DEF s
    <2>3. task'[t] = s
      BY <1>1, <2>1
    <2> QED BY <1>3, <2>2, <2>3 DEF calls
  <1> QED BY <1>2, <1>3

\* The fields that steps which deal with calls leave alone.
KeepsTurn(t) ==
    /\ task'[t].rec = task[t].rec /\ task'[t].sig = task[t].sig
    /\ task'[t].tail = task[t].tail

LEMMA SettleNextMove ==
    ASSUME TypeOK, NEW t \in Tasks, SettleNext(t)
    PROVE  \/ Rests(t)
           \/ /\ KeepsTurn(t) /\ task[t].pc = "tools" /\ task'[t].pc = "context"
              /\ task[t].pend = {} /\ task'[t].pend = {}
           \/ /\ KeepsTurn(t) /\ task[t].pc = "tools"
              /\ \E c \in task[t].pend :
                    /\ task'[t].call = c /\ task'[t].pend = task[t].pend \ {c}
                    /\ task'[t].pc \in {"waitcall", "effect"} /\ task'[t].back = "tools"
  <1>1. task \in [Tasks -> TaskState] /\ task[t] \in TaskState
    BY DEF TypeOK
  <1>2. task[t].pc = "tools"
    BY Zenon DEF SettleNext, At
  <1>3. CASE task[t].pend = {}
    <2> DEFINE s == [task[t] EXCEPT !.pc = "context"]
    <2>1. task' = [task EXCEPT ![t] = s]
      BY <1>3 DEF SettleNext, Goto
    <2>2. /\ s.pc = "context" /\ s.rec = task[t].rec /\ s.sig = task[t].sig
          /\ s.pend = task[t].pend /\ s.tail = task[t].tail
      BY <1>1 DEF TaskState
    <2> HIDE DEF s
    <2>3. task'[t] = s
      BY <1>1, <2>1
    <2> QED BY <1>2, <1>3, <2>2, <2>3 DEF KeepsTurn
  <1>4. CASE task[t].pend # {} /\ task[t].sig
    BY <1>4, MoveRests DEF SettleNext
  <1>5. CASE task[t].pend # {} /\ ~task[t].sig
    <2>1. PICK c \in task[t].pend :
             IF hist[c].kind = "call" /\ Stale(t)
             THEN Finish(t, "cancelled")
             ELSE task' = [task EXCEPT
                      ![t].pc = IF hist[c].kind = "call" THEN "waitcall" ELSE "effect",
                      ![t].call = c,
                      ![t].pend = @ \ {c},
                      ![t].back = "tools"]
      BY <1>5 DEF SettleNext
    <2> DEFINE s == [task[t] EXCEPT
                      !.pc = IF hist[c].kind = "call" THEN "waitcall" ELSE "effect",
                      !.call = c, !.pend = @ \ {c}, !.back = "tools"]
    <2>2. CASE hist[c].kind = "call" /\ Stale(t)
      BY <2>1, <2>2, MoveRests
    <2>3. CASE ~(hist[c].kind = "call" /\ Stale(t))
      <3>1. task' = [task EXCEPT ![t] = s]
        BY <2>1, <2>3
      <3>2. /\ s.pc \in {"waitcall", "effect"} /\ s.rec = task[t].rec /\ s.sig = task[t].sig
            /\ s.call = c /\ s.pend = task[t].pend \ {c} /\ s.tail = task[t].tail
            /\ s.back = "tools"
        BY <1>1 DEF TaskState
      <3> HIDE DEF s
      <3>3. task'[t] = s
        BY <1>1, <3>1
      <3> QED BY <1>2, <3>2, <3>3 DEF KeepsTurn
    <2> QED BY <2>2, <2>3
  <1> QED BY <1>3, <1>4, <1>5

LEMMA WaitCallMove ==
    ASSUME TypeOK, NEW t \in Tasks, WaitCall(t)
    PROVE  \/ Rests(t)
           \/ /\ KeepsTurn(t) /\ task[t].pc = "waitcall" /\ task'[t].pc = "tools"
              /\ Answered(hist, task[t].call) /\ task'[t].pend = task[t].pend
           \/ /\ KeepsTurn(t) /\ task[t].pc = "waitcall" /\ task'[t].pc = "answer"
              /\ task'[t].call = task[t].call /\ task'[t].pend = task[t].pend
  <1>1. task \in [Tasks -> TaskState] /\ task[t] \in TaskState
    BY DEF TypeOK
  <1>2. task[t].pc = "waitcall"
    BY Zenon DEF WaitCall, At
  <1>3. CASE task[t].sig
    BY <1>3, MoveRests DEF WaitCall
  <1>4. CASE ~task[t].sig
    <2> DEFINE r == [task[t] EXCEPT !.pc = "tools", !.call = 0, !.back = "none"]
    <2> DEFINE s == [task[t] EXCEPT !.pc = "answer"]
    <2>1. \/ Answered(hist, task[t].call) /\ task' = [task EXCEPT ![t] = r]
          \/ task' = [task EXCEPT ![t] = s]
      BY <1>4 DEF WaitCall, Goto
    <2>2. /\ r.pc = "tools" /\ r.rec = task[t].rec /\ r.sig = task[t].sig
          /\ r.pend = task[t].pend /\ r.tail = task[t].tail
          /\ s.pc = "answer" /\ s.rec = task[t].rec /\ s.sig = task[t].sig
          /\ s.pend = task[t].pend /\ s.tail = task[t].tail /\ s.call = task[t].call
      BY <1>1 DEF TaskState
    <2> HIDE DEF r, s
    <2>3. \/ Answered(hist, task[t].call) /\ task'[t] = r
          \/ task'[t] = s
      BY <1>1, <2>1
    <2> QED BY <1>2, <2>2, <2>3 DEF KeepsTurn
  <1> QED BY <1>3, <1>4

LEMMA ToolMove ==
    ASSUME TypeOK, NEW t \in Tasks, ToolEffect(t)
    PROVE  /\ KeepsTurn(t) /\ task[t].pc = "effect" /\ task'[t].pc = "answer"
           /\ task'[t].call = task[t].call /\ task'[t].pend = task[t].pend
           /\ task'[t].back = task[t].back
  <1>1. task \in [Tasks -> TaskState] /\ task[t] \in TaskState
    BY DEF TypeOK
  <1> DEFINE s == [task[t] EXCEPT !.pc = "answer"]
  <1>2. task[t].pc = "effect" /\ task' = [task EXCEPT ![t] = s]
    BY DEF ToolEffect, At, Goto
  <1>3. /\ s.pc = "answer" /\ s.rec = task[t].rec /\ s.sig = task[t].sig
        /\ s.pend = task[t].pend /\ s.tail = task[t].tail /\ s.call = task[t].call
        /\ s.back = task[t].back
    BY <1>1 DEF TaskState
  <1> HIDE DEF s
  <1>4. task'[t] = s
    BY <1>1, <1>2
  <1> QED BY <1>2, <1>3, <1>4 DEF KeepsTurn

LEMMA AnswerMove ==
    ASSUME TypeOK, NEW t \in Tasks, Answer(t)
    PROVE  /\ KeepsTurn(t) /\ task[t].pc = "answer"
           /\ task'[t].pc = task[t].back /\ task[t].back \in {"none", "tools", "infer"}
           /\ task'[t].pend = task[t].pend
  <1>1. task \in [Tasks -> TaskState] /\ task[t] \in TaskState
    BY DEF TypeOK
  <1> DEFINE s == [task[t] EXCEPT !.pc = task[t].back, !.call = 0, !.back = "none"]
  <1>2. task[t].pc = "answer" /\ task' = [task EXCEPT ![t] = s]
    BY DEF Answer, At
  <1>3. /\ s.pc = task[t].back /\ s.rec = task[t].rec /\ s.sig = task[t].sig
        /\ s.pend = task[t].pend /\ s.tail = task[t].tail
        /\ task[t].back \in {"none", "tools", "infer"}
    BY <1>1 DEF TaskState
  <1> HIDE DEF s
  <1>4. task'[t] = s
    BY <1>1, <1>2
  <1> QED BY <1>2, <1>3, <1>4 DEF KeepsTurn

LEMMA ManualMove ==
    ASSUME TypeOK, NEW t \in Tasks, ManualContext(t)
    PROVE  /\ task'[t].rec = task[t].rec /\ task'[t].sig = task[t].sig
           /\ task'[t].pc = "compacting" /\ task'[t].pend = task[t].pend
           /\ task'[t].tail \in DOMAIN hist /\ task'[t].tail <= task[t].rec
  <1>1. task \in [Tasks -> TaskState] /\ task[t] \in TaskState
    BY DEF TypeOK
  <1>2. PICK tail \in DOMAIN hist :
           /\ tail <= task[t].rec
           /\ task' = [task EXCEPT ![t].pc = "compacting", ![t].tail = tail]
    BY DEF ManualContext, IsTail
  <1> DEFINE s == [task[t] EXCEPT !.pc = "compacting", !.tail = tail]
  <1>3. task' = [task EXCEPT ![t] = s]
    BY <1>2
  <1>4. /\ s.pc = "compacting" /\ s.rec = task[t].rec /\ s.sig = task[t].sig
        /\ s.pend = task[t].pend /\ s.tail = tail
    BY <1>1 DEF TaskState
  <1> HIDE DEF s
  <1>5. task'[t] = s
    BY <1>1, <1>3
  <1> QED BY <1>2, <1>4, <1>5

LEMMA StreamMove ==
    ASSUME TypeOK, NEW t \in Tasks, NEW kind \in {"message", "call", "local"},
           StreamItem(t, kind)
    PROVE  /\ KeepsTurn(t) /\ task[t].pc = "infer" /\ task'[t].pend = task[t].pend
           /\ \/ kind # "local" /\ task'[t].pc \in {"infer", "enqueue"}
              \/ /\ kind = "local" /\ task'[t].pc = "effect" /\ task'[t].back = "infer"
                 /\ task'[t].call = IF Stale(t) THEN 0 ELSE Len(hist) + 1
  <1>1. task \in [Tasks -> TaskState] /\ task[t] \in TaskState
    BY DEF TypeOK
  <1> DEFINE id == IF Stale(t) THEN 0 ELSE Len(hist) + 1
  <1> DEFINE r == [task[t] EXCEPT !.resp = "message"]
  <1> DEFINE s == [task[t] EXCEPT !.resp = "worker", !.pc = "enqueue"]
  <1> DEFINE u == [task[t] EXCEPT !.resp = "local", !.pc = "effect", !.call = id,
                                  !.back = "infer"]
  <1>2. /\ task[t].pc = "infer"
        /\ \/ kind = "message" /\ task' = [task EXCEPT ![t] = r]
           \/ kind = "call" /\ task' = [task EXCEPT ![t] = s]
           \/ kind = "local" /\ task' = [task EXCEPT ![t] = u]
    BY DEF StreamItem, At
  <1> HIDE DEF id
  <1>3. /\ r.pc = task[t].pc /\ r.rec = task[t].rec /\ r.sig = task[t].sig
        /\ r.pend = task[t].pend /\ r.tail = task[t].tail
        /\ s.pc = "enqueue" /\ s.rec = task[t].rec /\ s.sig = task[t].sig
        /\ s.pend = task[t].pend /\ s.tail = task[t].tail
    BY <1>1 DEF TaskState
  <1>4. /\ u.pc = "effect" /\ u.rec = task[t].rec /\ u.sig = task[t].sig
        /\ u.pend = task[t].pend /\ u.tail = task[t].tail /\ u.call = id
        /\ u.back = "infer"
    BY <1>1 DEF TaskState
  <1> HIDE DEF r, s, u
  <1>5. \/ kind = "message" /\ task'[t] = r
        \/ kind = "call" /\ task'[t] = s
        \/ kind = "local" /\ task'[t] = u
    BY <1>1, <1>2
  <1> QED BY <1>2, <1>3, <1>4, <1>5 DEF KeepsTurn, id

\* A context compiles a settled history up to its last protocol record.
LEMMA ContextMove ==
    ASSUME TypeOK, NEW t \in Tasks, Context(t)
    PROVE  \/ Rests(t)
           \/ /\ task[t].pc = "context" /\ task'[t].pc \in {"infer", "compacting"}
              /\ task'[t].rec = task[t].rec /\ task'[t].sig = task[t].sig
              /\ task'[t].pend = task[t].pend /\ task'[t].tail \in DOMAIN hist'
              /\ ~Superseded(hist, task[t].rec)
  <1>1. task \in [Tasks -> TaskState] /\ task[t] \in TaskState
    BY DEF TypeOK
  <1>2. task[t].pc = "context"
    BY Zenon DEF Context, At
  <1>3. PICK switched \in Noted(hist) :
             IF ~Current(switched, task[t].rec) \/ status # "running"
             THEN hist' = switched /\ Finish(t, "cancelled")
             ELSE \E h \in Noted(switched) : \E tail \in DOMAIN h :
                 /\ hist' = h
                 /\ \/ task' = [task EXCEPT ![t].pc = "infer", ![t].tail = tail,
                                            ![t].resp = "none"]
                    \/ task' = [task EXCEPT ![t].pc = "compacting",
                                            ![t].tail = tail, ![t].pro = @ + 1]
    BY Zenon DEF Context
  <1>4. CASE ~Current(switched, task[t].rec) \/ status # "running"
    BY <1>3, <1>4, MoveRests
  <1>5. CASE ~(~Current(switched, task[t].rec) \/ status # "running")
    <2>1. PICK tail \in DOMAIN hist' :
                 \/ task' = [task EXCEPT ![t].pc = "infer", ![t].tail = tail,
                                         ![t].resp = "none"]
                 \/ task' = [task EXCEPT ![t].pc = "compacting",
                                         ![t].tail = tail, ![t].pro = @ + 1]
      BY <1>3, <1>5, Zenon
    <2> DEFINE r == [task[t] EXCEPT !.pc = "infer", !.tail = tail, !.resp = "none"]
    <2> DEFINE s == [task[t] EXCEPT !.pc = "compacting", !.tail = tail, !.pro = @ + 1]
    <2>2. task' = [task EXCEPT ![t] = r] \/ task' = [task EXCEPT ![t] = s]
      BY <2>1
    <2>3. /\ r.pc = "infer" /\ r.rec = task[t].rec /\ r.sig = task[t].sig
          /\ r.pend = task[t].pend /\ r.tail = tail
          /\ s.pc = "compacting" /\ s.rec = task[t].rec /\ s.sig = task[t].sig
          /\ s.pend = task[t].pend /\ s.tail = tail
      BY <1>1 DEF TaskState
    <2> HIDE DEF r, s
    <2>4. task'[t] = r \/ task'[t] = s
      BY <1>1, <2>2
    <2>5. Extends(hist, switched)
      BY NotedHistory DEF Quiet, TypeOK
    <2>6. ~Superseded(hist, task[t].rec)
      BY <1>5, <2>5, StaleStays DEF Current
    <2> QED BY <1>2, <2>1, <2>3, <2>4, <2>6
  <1> QED BY <1>4, <1>5

-----------------------------------------------------------------------------
(* One loop for one request.                                               *)

\* A task's own step does not tell it to stop, nor forget that it was told.
LEMMA SignalStays ==
    ASSUME TypeOK, NEW t \in Tasks,
           Run(t) \/ Ending(t) \/ ClearCurrent(t) \/ StorageError(t) \/ Panic(t)
    PROVE  task'[t].pc # "none" => task'[t].sig = task[t].sig
  <1>0. task \in [Tasks -> TaskState]
    BY DEF TypeOK
  <1>1. CASE ClearCurrent(t)
    <2>1. task'[t] = NoRun
      BY <1>0, <1>1 DEF ClearCurrent
    <2> QED BY <2>1 DEF NoRun, NewTask
  <1>2. CASE Panic(t)
    <2>1. task'[t] = [NoRun EXCEPT !.rec = task[t].rec]
      BY <1>0, <1>2 DEF Panic
    <2>2. [NoRun EXCEPT !.rec = task[t].rec].pc = "none"
      BY DEF NoRun, NewTask
    <2> QED BY <2>1, <2>2
  <1>3. ASSUME NEW kind \in {"message", "call", "local"}, StreamItem(t, kind)
        PROVE  task'[t].sig = task[t].sig
    BY <1>3, StreamMove DEF KeepsTurn
  <1>4. CASE \/ Settle(t) \/ SettleNext(t) \/ WaitCall(t) \/ ToolEffect(t) \/ Answer(t)
             \/ Context(t) \/ ManualContext(t)
    BY <1>4, SettleMove, SettleNextMove, WaitCallMove, ToolMove, AnswerMove, ContextMove,
       ManualMove, Zenon DEF KeepsTurn, Rests
  <1>5. ASSUME Rests(t) PROVE task'[t].sig = task[t].sig
    BY <1>5 DEF Rests
  <1> QED BY <1>1, <1>2, <1>3, <1>4, <1>5, OtherMoves, Zenon DEF Run

\* Moot(rec), after the step.
MootAfter(rec) == Superseded(hist', rec) \/ status' # "running"

\* A superseded request stays so.
LEMMA SupersededStays ==
    ASSUME HistoryInv, [Next]_vars, NEW rec, Superseded(hist, rec)
    PROVE  MootAfter(rec)
  BY StepHistory, StaleStays DEF HistoryInv, MootAfter

\* The request of a task that was told to stop, or is about to be, stays moot:
\* only a newer boundary sets the Thread running, or a decision for another
\* request that is the newest one.
LEMMA MootStays ==
    ASSUME LoopInv, [Next]_vars, UndoesNoStop, NEW u \in Tasks, Live(u),
           task[u].sig \/ lock.op = "cancel"
    PROVE  MootAfter(task[u].rec)
  <1> DEFINE rec == task[u].rec
  <1>0. /\ HistoryInv /\ TypeOK /\ hist \in Seq(Record)
        /\ rec \in DOMAIN hist /\ IsBoundary(hist[rec])
    BY DEF LoopInv, HistoryInv, TypeOK, RequestsExist, IsRequest
  <1>1. Moot(rec)
    BY DEF LoopInv, SignalledIsMoot, LockInv
  <1>2. CASE Superseded(hist, rec)
    BY <1>0, <1>2, SupersededStays
  <1>3. CASE status # "running" /\ ~Superseded(hist, rec)
    <2>1. CASE Calm
      BY <1>3, <2>1 DEF Calm, MootAfter
    <2>2. CASE RecordCancel
      BY <2>2 DEF RecordCancel, MootAfter
    <2>3. ASSUME NEW kind \in {"input", "continue", "compact"}, RecordRequest(kind)
          PROVE  Superseded(hist', rec)
      <3> DEFINE r == Rec(kind, Len(hist) + 1, 0)
      <3>1. hist' = Append(hist, r)
        BY <2>3 DEF RecordRequest
      <3>2. IsBoundary(r)
        BY DEF IsBoundary, BoundaryKinds, Rec
      <3> HIDE DEF r
      <3>3. Len(hist) + 1 \in DOMAIN hist' /\ hist'[Len(hist) + 1] = r /\ Len(hist) + 1 > rec
        BY <1>0, <3>1
      <3> QED BY <3>2, <3>3 DEF Superseded
    <2>4. ASSUME NEW t \in Tasks, Rearms(t) PROVE FALSE
      <3>1. Current(hist, task[t].rec) /\ ~task[t].sig /\ lock.op # "cancel"
        BY <2>4 DEF UndoesNoStop
      <3>2. task[t].rec = rec
        <4>1. Current(hist, rec)
          BY <1>0, <1>3 DEF Current
        <4>2. task[t].rec \in DOMAIN hist
          BY <3>1 DEF Current
        <4> HIDE DEF rec
        <4> QED BY <1>0, <3>1, <4>1, <4>2, CurrentIsUnique
      <3>3. Live(t)
        BY <2>4 DEF Rearms, Decide, At, Live
      <3>4. t = u
        BY <3>2, <3>3 DEF LoopInv, OwnRequests
      <3> QED BY <3>1, <3>4
    <2>5. \/ Calm \/ RecordCancel
          \/ \E kind \in {"input", "continue", "compact"} : RecordRequest(kind)
      BY <1>0, <2>4, StepCalm, Zenon
    <2>6. CASE \E kind \in {"input", "continue", "compact"} : RecordRequest(kind)
      BY <2>3, <2>6 DEF MootAfter
    <2> QED BY <2>1, <2>2, <2>5, <2>6, Zenon
  <1> QED BY <1>1, <1>2, <1>3 DEF Moot

\* Tasks that go on as they were, or stop, keep the invariant with the
\* registry and its lock.
LEMMA LoopKept ==
    ASSUME LoopInv, [Next]_vars, UndoesNoStop, active' = active, lock' = lock,
           \A u \in Tasks : task'[u].pc # "none" =>
              Live(u) /\ task'[u].rec = task[u].rec /\ task'[u].sig = task[u].sig
    PROVE  (LoopIsRegistered /\ OwnRequests /\ SignalledIsMoot /\ LockInv)'
  <1>1. ASSUME NEW u \in Tasks, Live(u)' PROVE Live(u)
    BY <1>1 DEF Live
  <1>2. LoopIsRegistered'
    BY <1>1 DEF LoopInv, LoopIsRegistered, Live
  <1>3. OwnRequests'
    BY <1>1 DEF LoopInv, OwnRequests, Live
  <1>4. ASSUME NEW u \in Tasks, Live(u)', task[u].sig \/ lock.op = "cancel"
        PROVE  MootAfter(task'[u].rec)
    <2>1. Live(u) /\ task'[u].rec = task[u].rec
      BY <1>1, <1>4 DEF Live
    <2> QED BY <1>4, <2>1, MootStays
  <1>5. SignalledIsMoot'
    BY <1>4 DEF SignalledIsMoot, Live, Moot, MootAfter
  <1>6. LiveEntry' => LiveEntry
    <2>1. active \in Tasks \cup {NoTask}
      BY DEF LoopInv, HistoryInv, TypeOK
    <2> QED BY <2>1 DEF LiveEntry, Live
  <1>7. LockInv'
    <2>1. lock.op = "cancel" => \A u \in Tasks : Live(u)' => MootAfter(task'[u].rec)
      BY <1>4
    <2>2. lock.op = "enqueue" => \A u \in Tasks : Live(u)' => task'[u].rec < lock.rec
      BY DEF LoopInv, LockInv, Live
    <2>3. lock.op = "ensure" => \A u \in Tasks : Live(u)' => task'[u].rec # lock.rec
      BY DEF LoopInv, LockInv, Live
    <2>4. lock.op = "ensure" => ~LiveEntry'
      BY <1>6 DEF LoopInv, LockInv
    <2> QED BY <2>1, <2>2, <2>3, <2>4 DEF LockInv, Moot, MootAfter, Live
  <1> QED BY <1>2, <1>3, <1>5, <1>7

\* A task's own steps.
LEMMA LoopTasks ==
    ASSUME LoopInv, [Next]_vars, UndoesNoStop, NEW t \in Tasks,
           Run(t) \/ Ending(t) \/ ClearCurrent(t) \/ StorageError(t) \/ Panic(t)
    PROVE  (LoopIsRegistered /\ OwnRequests /\ SignalledIsMoot /\ LockInv)'
  <1>0. TypeOK /\ RequestsExist
    BY DEF LoopInv, HistoryInv
  <1>1. KeepsRequest(t)
    BY <1>0, ReadersKeep, WritersKeep, EndsKeep, ConcludersKeep, Zenon DEF Run
  <1>2. ASSUME NEW u \in Tasks, task'[u].pc # "none"
        PROVE  Live(u) /\ task'[u].rec = task[u].rec /\ task'[u].sig = task[u].sig
    BY <1>0, <1>1, <1>2, SignalStays DEF KeepsRequest, Live
  <1>3. CASE Run(t) \/ Ending(t) \/ StorageError(t) \/ Panic(t)
    <2>1. CASE \/ Load(t) \/ Wait(t) \/ Waited(t) \/ Settle(t) \/ SettleNext(t)
               \/ WaitCall(t) \/ ToolEffect(t) \/ Answer(t) \/ Context(t)
               \/ ManualContext(t)
               \/ \E kind \in {"message", "call", "local"} : StreamItem(t, kind)
      <3>1. active' = active /\ lock' = lock
        BY <2>1, Zenon
        DEF Load, Wait, Waited, Settle, SettleNext, WaitCall, ToolEffect, Answer,
            Context, ManualContext, StreamItem, ReadOnly
      <3> QED BY <1>2, <3>1, LoopKept
    <2>2. CASE \/ StreamEnqueue(t) \/ \E endTurn \in BOOLEAN : Complete(t, endTurn)
               \/ StreamError(t) \/ Responded(t) \/ Decide(t) \/ Retry(t)
               \/ Compacting(t) \/ Checkpoint(t)
               \/ FinalizeSuccess(t) \/ FinalizeFailure(t)
      <3>1. active' = active /\ lock' = lock
        BY <2>2, Zenon
        DEF StreamEnqueue, Complete, StreamError, Responded, Decide, Retry,
            Compacting, Checkpoint, FinalizeSuccess, FinalizeFailure, ReadOnly
      <3> QED BY <1>2, <3>1, LoopKept
    <2>3. CASE Ending(t) \/ StorageError(t) \/ Panic(t)
      <3>1. active' = active /\ lock' = lock
        BY <2>3, Zenon DEF Ending, StorageError, Panic, ReadOnly
      <3> QED BY <1>2, <3>1, LoopKept
    <2> QED BY <1>3, <2>1, <2>2, <2>3, Zenon DEF Run
  <1>4. CASE ClearCurrent(t)
    <2>1. /\ task[t].pc = "clear" /\ lock' = lock /\ lock.op = "free"
          /\ task' = [task EXCEPT ![t] = NoRun]
          /\ active' = IF active # NoTask /\ task[active].rec = task[t].rec
                       THEN NoTask ELSE active
      BY <1>4 DEF ClearCurrent, At
    <2>2. task'[t].pc = "none"
      BY <1>0, <2>1 DEF TypeOK, NoRun, NewTask
    <2>3. Live(t)
      BY <2>1 DEF Live
    <2>4. ASSUME NEW u \in Tasks, Live(u)' PROVE Live(u) /\ u # t
      BY <1>2, <2>2, <2>4 DEF Live
    <2>5. LoopIsRegistered'
      <3> SUFFICES ASSUME NEW u \in Tasks, Live(u)', ~task'[u].sig PROVE active' = u
        BY DEF LoopIsRegistered
      <3>1. Live(u) /\ u # t /\ ~task[u].sig
        BY <1>2, <2>4 DEF Live
      <3>2. active = u
        BY <3>1 DEF LoopInv, LoopIsRegistered
      <3>3. task[u].rec # task[t].rec
        BY <2>3, <3>1 DEF LoopInv, OwnRequests
      <3> QED BY <2>1, <3>2, <3>3
    <2>6. OwnRequests'
      BY <1>2, <2>4 DEF LoopInv, OwnRequests, Live
    <2>7. SignalledIsMoot'
      <3> SUFFICES ASSUME NEW u \in Tasks, Live(u)', task'[u].sig
                   PROVE  MootAfter(task'[u].rec)
        BY DEF SignalledIsMoot, Moot, MootAfter
      <3>1. Live(u) /\ task[u].sig /\ task'[u].rec = task[u].rec
        BY <1>2, <2>4 DEF Live
      <3> QED BY <3>1, MootStays
    <2>8. LockInv'
      BY <2>1 DEF LockInv
    <2> QED BY <2>5, <2>6, <2>7, <2>8
  <1> QED BY <1>3, <1>4, Zenon

\* Registering a request that no live task runs: every live task but the
\* registered one was told to stop, and now that one is, too.
LEMMA LoopRegister ==
    ASSUME LoopInv, [Next]_vars, UndoesNoStop, NEW t \in Tasks, ~Live(t), lock' = Unlocked,
           Register(t, lock.rec, lock.as), lock.op \in {"enqueue", "ensure"}
    PROVE  (LoopIsRegistered /\ OwnRequests /\ SignalledIsMoot /\ LockInv)'
  <1>0. TypeOK /\ RequestsExist /\ HistoryInv
    BY DEF LoopInv, HistoryInv
  <1>1. /\ task'[t].rec = lock.rec /\ task'[t].pc = "start" /\ task'[t].sig = FALSE
        /\ active' = t
    BY DEF Register, NewTask
  <1>2. ASSUME NEW u \in Tasks \ {t}
        PROVE  /\ Live(u)' <=> Live(u)
               /\ task'[u].rec = task[u].rec
               /\ task'[u].sig <=> (task[u].sig \/ (u = active /\ Live(u)))
    <2>1. task[u] \in TaskState /\ task[u].sig \in BOOLEAN
      BY <1>0 DEF TypeOK, TaskState
    <2>2. CASE u = active /\ Live(u)
      <3>1. task'[u] = [task[u] EXCEPT !.sig = TRUE]
        BY <2>2 DEF Register
      <3>2. /\ [task[u] EXCEPT !.sig = TRUE].pc = task[u].pc
            /\ [task[u] EXCEPT !.sig = TRUE].rec = task[u].rec
            /\ [task[u] EXCEPT !.sig = TRUE].sig = TRUE
        BY <2>1 DEF TaskState
      <3> QED BY <2>2, <3>1, <3>2 DEF Live
    <2>3. CASE ~(u = active /\ Live(u))
      <3>1. task'[u] = task[u]
        BY <2>3 DEF Register
      <3> QED BY <2>1, <2>3, <3>1 DEF Live
    <2> QED BY <2>2, <2>3
  <1>3. ASSUME NEW u \in Tasks, Live(u) PROVE task[u].rec # lock.rec
    <2>1. task[u].rec \in Nat /\ lock.rec \in Nat
      BY <1>0 DEF TypeOK, TaskState, LockState
    <2> QED BY <1>3, <2>1 DEF LoopInv, LockInv
  <1>4. LoopIsRegistered'
    <2> SUFFICES ASSUME NEW u \in Tasks \ {t}, Live(u)', ~task'[u].sig PROVE FALSE
      BY <1>1 DEF LoopIsRegistered
    <2>1. Live(u) /\ ~task[u].sig /\ u # active
      BY <1>2
    <2> QED BY <2>1 DEF LoopInv, LoopIsRegistered
  <1>5. OwnRequests'
    <2> SUFFICES ASSUME NEW u \in Tasks, NEW v \in Tasks, Live(u)', Live(v)',
                        task'[u].rec = task'[v].rec
                 PROVE  u = v
      BY DEF OwnRequests
    <2>1. CASE u = t /\ v # t
      BY <1>1, <1>2, <1>3, <2>1
    <2>2. CASE u # t /\ v = t
      BY <1>1, <1>2, <1>3, <2>2
    <2>3. CASE u # t /\ v # t
      BY <1>2, <2>3 DEF LoopInv, OwnRequests
    <2> QED BY <2>1, <2>2, <2>3
  <1>6. SignalledIsMoot'
    <2> SUFFICES ASSUME NEW u \in Tasks, Live(u)', task'[u].sig
                 PROVE  MootAfter(task'[u].rec)
      BY DEF SignalledIsMoot, Moot, MootAfter
    <2>1. u # t
      BY <1>1
    <2>2. Live(u) /\ task'[u].rec = task[u].rec
      BY <1>2, <2>1
    <2>3. CASE task[u].sig
      BY <2>2, <2>3, MootStays
    <2>4. CASE u = active /\ Live(u)
      <3>1. active # NoTask
        BY <2>4, ThreadRunAssumption
      <3>2. lock.op = "enqueue"
        BY <2>4, <3>1 DEF LoopInv, LockInv, LiveEntry
      <3>3. task[u].rec < lock.rec
        BY <2>2, <3>2 DEF LoopInv, LockInv
      <3>4. lock.rec \in DOMAIN hist /\ IsBoundary(hist[lock.rec])
        BY <1>0 DEF RequestsExist, IsRequest
      <3>5. task[u].rec \in Nat /\ lock.rec \in Nat
        BY <1>0 DEF TypeOK, TaskState, LockState
      <3>6. Superseded(hist, task[u].rec)
        BY <3>3, <3>4, <3>5 DEF Superseded
      <3> QED BY <1>0, <2>2, <3>6, SupersededStays
    <2> QED BY <1>2, <2>1, <2>3, <2>4
  <1>7. LockInv'
    BY DEF LockInv, Unlocked
  <1> QED BY <1>4, <1>5, <1>6, <1>7

\* The steps of handlers and supervisor that take the lock.
LEMMA LoopLocked ==
    ASSUME LoopInv, [Next]_vars, UndoesNoStop,
           \/ \E kind \in {"input", "continue", "compact"} : EnqueueCommit(kind)
           \/ CancelCommit \/ EnsureRead
    PROVE  (LoopIsRegistered /\ OwnRequests /\ SignalledIsMoot /\ LockInv)'
  <1>0. TypeOK /\ RequestsExist /\ HistoryInv /\ hist \in Seq(Record)
    BY DEF LoopInv, HistoryInv, TypeOK
  <1>1. task' = task /\ active' = active
    BY Zenon DEF EnqueueCommit, CancelCommit, EnsureRead
  <1>2. LoopIsRegistered' /\ OwnRequests'
    BY <1>1 DEF LoopInv, LoopIsRegistered, OwnRequests, Live
  <1>3. ASSUME NEW u \in Tasks, Live(u) PROVE task[u].rec \in DOMAIN hist
    BY <1>0, <1>3 DEF RequestsExist, IsRequest
  <1>4. SignalledIsMoot'
    <2> SUFFICES ASSUME NEW u \in Tasks, Live(u), task[u].sig PROVE MootAfter(task[u].rec)
      BY <1>1 DEF SignalledIsMoot, Live, Moot, MootAfter
    <2> QED BY MootStays
  <1>5. ASSUME NEW kind \in {"input", "continue", "compact"}, EnqueueCommit(kind)
        PROVE  LockInv'
    <2>1. lock'.op = "enqueue" /\ lock'.rec = Len(hist) + 1
      BY <1>5 DEF EnqueueCommit
    <2>2. \A u \in Tasks : Live(u) => task[u].rec < Len(hist) + 1
      BY <1>0, <1>3
    <2> QED BY <1>1, <2>1, <2>2 DEF LockInv, Live
  <1>6. ASSUME CancelCommit PROVE LockInv'
    <2>1. lock'.op = "cancel"
      BY <1>6 DEF CancelCommit, Unlocked
    <2>2. status' # "running"
      BY <1>6 DEF CancelCommit, RecordCancel, durable
    <2> QED BY <2>1, <2>2 DEF LockInv, Moot
  <1>7. ASSUME EnsureRead PROVE LockInv'
    <2>1. PICK r \in DOMAIN hist :
             Current(hist, r) /\ lock' = [op |-> "ensure", rec |-> r,
                                          as |-> OperationOf(hist[r].kind)]
      BY <1>7 DEF EnsureRead
    <2>2. ~LiveEntry /\ status = "running"
      BY <1>7 DEF EnsureRead
    <2>3. ASSUME NEW u \in Tasks, Live(u) PROVE task[u].rec # r
      <3>1. u # active
        BY <2>2, <2>3, ThreadRunAssumption DEF LiveEntry
      <3>2. Moot(task[u].rec)
        BY <2>3, <3>1 DEF LoopInv, LoopIsRegistered, SignalledIsMoot
      <3> QED BY <2>1, <2>2, <3>2 DEF Moot, Current
    <2>4. lock'.op = "ensure" /\ lock'.rec = r
      BY <2>1
    <2> QED BY <1>1, <2>2, <2>3, <2>4 DEF LockInv, LiveEntry, Live
  <1> QED BY <1>2, <1>4, <1>5, <1>6, <1>7

LEMMA LoopSignal ==
    ASSUME LoopInv, [Next]_vars, UndoesNoStop, CancelSignal
    PROVE  (LoopIsRegistered /\ OwnRequests /\ SignalledIsMoot /\ LockInv)'
  <1>0. TypeOK /\ RequestsExist /\ HistoryInv
    BY DEF LoopInv, HistoryInv
  <1>1. ASSUME NEW u \in Tasks
        PROVE  /\ Live(u)' <=> Live(u)
               /\ task'[u].rec = task[u].rec
               /\ task'[u].sig <=> (task[u].sig \/ (u = active /\ Live(u)))
    <2>1. task[u] \in TaskState /\ task[u].sig \in BOOLEAN
      BY <1>0 DEF TypeOK, TaskState
    <2>2. CASE u = active /\ Live(u)
      <3>1. task'[u] = [task[u] EXCEPT !.sig = TRUE]
        BY <2>2 DEF CancelSignal
      <3>2. /\ [task[u] EXCEPT !.sig = TRUE].pc = task[u].pc
            /\ [task[u] EXCEPT !.sig = TRUE].rec = task[u].rec
            /\ [task[u] EXCEPT !.sig = TRUE].sig = TRUE
        BY <2>1 DEF TaskState
      <3> QED BY <2>2, <3>1, <3>2 DEF Live
    <2>3. CASE ~(u = active /\ Live(u))
      <3>1. task'[u] = task[u]
        BY <2>3 DEF CancelSignal
      <3> QED BY <2>1, <2>3, <3>1 DEF Live
    <2> QED BY <2>2, <2>3
  <1>2. LoopIsRegistered'
    <2> SUFFICES ASSUME NEW u \in Tasks, Live(u)', ~task'[u].sig PROVE FALSE
      BY DEF LoopIsRegistered
    <2>1. Live(u) /\ ~task[u].sig /\ u # active
      BY <1>1
    <2> QED BY <2>1 DEF LoopInv, LoopIsRegistered
  <1>3. OwnRequests'
    BY <1>1 DEF LoopInv, OwnRequests
  <1>4. SignalledIsMoot'
    <2> SUFFICES ASSUME NEW u \in Tasks, Live(u)' PROVE MootAfter(task'[u].rec)
      BY DEF SignalledIsMoot, Moot, MootAfter
    <2>1. Live(u) /\ task'[u].rec = task[u].rec
      BY <1>1
    <2>2. lock.op = "cancel"
      BY DEF CancelSignal
    <2> QED BY <2>1, <2>2, MootStays
  <1>5. LockInv'
    BY DEF CancelSignal, LockInv, Unlocked
  <1> QED BY <1>2, <1>3, <1>4, <1>5

LEMMA LoopInit == Init => LoopInv
  <1> SUFFICES ASSUME Init PROVE LoopInv
    OBVIOUS
  <1>1. \A t \in Tasks : task[t].pc = "none"
    BY DEF Init, NoRun, NewTask
  <1>2. lock.op = "free"
    BY DEF Init, Unlocked
  <1> QED BY <1>1, <1>2, HistoryInit
    DEF LoopInv, LoopIsRegistered, OwnRequests, SignalledIsMoot, LockInv, Live

LEMMA LoopStep ==
    ASSUME LoopInv, [Next]_vars, UndoesNoStop
    PROVE  LoopInv'
  <1>0. TypeOK /\ RequestsExist /\ HistoryInv
    BY DEF LoopInv, HistoryInv
  <1>1. HistoryInv'
    BY <1>0, HistoryStep
  <1> DEFINE Goal == (LoopIsRegistered /\ OwnRequests /\ SignalledIsMoot /\ LockInv)'
  <1> SUFFICES Goal
    BY <1>1 DEF LoopInv
  <1>2. CASE \E t \in Tasks : Run(t) \/ Ending(t) \/ ClearCurrent(t)
                              \/ StorageError(t) \/ Panic(t)
    BY <1>2, LoopTasks
  <1>3. ASSUME NEW t \in Tasks, EnsureRegister(t) PROVE Goal
    <2>1. /\ ~Live(t) /\ lock' = Unlocked /\ Register(t, lock.rec, lock.as)
          /\ lock.op = "ensure"
      BY <1>3 DEF EnsureRegister, Free
    <2> QED BY <2>1, LoopRegister
  <1>4. ASSUME NEW t \in Tasks, EnqueueRegister(t) PROVE Goal
    <2>1. /\ ~Live(t) /\ lock' = Unlocked /\ lock.op = "enqueue"
          /\ \/ UNCHANGED <<active, task>>
             \/ Register(t, lock.rec, lock.as)
          /\ status' = status /\ hist' = hist
      BY <1>4 DEF EnqueueRegister, Free, durable
    <2>2. CASE Register(t, lock.rec, lock.as)
      BY <2>1, <2>2, LoopRegister
    <2>3. CASE UNCHANGED <<active, task>>
      BY <2>1, <2>3
      DEF LoopInv, LoopIsRegistered, OwnRequests, SignalledIsMoot, LockInv, Live, Moot,
          Unlocked
    <2> QED BY <2>1, <2>2, <2>3
  <1>5. CASE \/ \E kind \in {"input", "continue", "compact"} : EnqueueCommit(kind)
             \/ CancelCommit \/ EnsureRead
    BY <1>5, LoopLocked
  <1>6. CASE CancelSignal
    BY <1>6, LoopSignal
  <1>7. CASE Crash
    <2>1. /\ \A t \in Tasks : task'[t] = NoRun
          /\ lock' = Unlocked
      BY <1>7 DEF Crash
    <2>2. \A t \in Tasks : ~Live(t)'
      BY <2>1 DEF Live, NoRun, NewTask
    <2>3. lock'.op = "free"
      BY <2>1 DEF Unlocked
    <2> QED BY <2>2, <2>3 DEF LoopIsRegistered, OwnRequests, SignalledIsMoot, LockInv
  <1>8. CASE \/ \E kind \in {"input", "continue", "compact"} : EnqueueDropped(kind)
             \/ CancelDropped \/ UNCHANGED vars
             \/ \E c \in DOMAIN hist : WorkerResult(c)
    <2>1. task' = task /\ active' = active /\ lock' = lock
      BY <1>8, Zenon DEF EnqueueDropped, CancelDropped, WorkerResult, vars
    <2>2. \A u \in Tasks : task'[u].pc # "none" =>
              Live(u) /\ task'[u].rec = task[u].rec /\ task'[u].sig = task[u].sig
      BY <2>1 DEF Live
    <2> QED BY <2>1, <2>2, LoopKept
  <1> HIDE DEF Goal
  <1> QED
    BY <1>2, <1>3, <1>4, <1>5, <1>6, <1>7, <1>8, Zenon DEF Next, Handlers, Supervisor

\* A loop that was not told to stop is the registered one, so that Stop and a
\* newer prompt reach it, and a request is never run by two tasks.
THEOREM OneLoopPerThread == Spec /\ StopsAreKept => []LoopIsRegistered
  <1>1. LoopInv /\ [Next]_vars /\ [UndoesNoStop]_vars => LoopInv'
    BY LoopStep, UndoesNothing
  <1>2. LoopInv => LoopIsRegistered
    BY DEF LoopInv
  <1> QED BY <1>1, <1>2, LoopInit, NoStopUndone, PTL DEF Spec

-----------------------------------------------------------------------------
(* The retry budget.                                                       *)

\* A task whose request failed, or that is about to leave.
GivesUp(s) == s.pc \in {"fail", "clear"} \/ (s.pc = "end" /\ s.res = "error")

\* When the budget was spent the Thread stopped running, the task that spent
\* it is giving up, and every other task or registration under way is for a
\* request that a newer one superseded.
Spent ==
    status # "running" /\ retry >= MaxFailures =>
        /\ \A t \in Tasks : Live(t) => Stale(t) \/ GivesUp(task[t])
        /\ lock.op \in {"enqueue", "ensure"} => Superseded(hist, lock.rec)

BudgetInv == LoopInv /\ RetryBudget /\ Spent

\* Of the tasks of a Thread at most one runs the newest request.
LEMMA OthersAreStale ==
    ASSUME LoopInv, NEW t \in Tasks, NEW u \in Tasks \ {t}, Live(t), Live(u), ~Stale(t)
    PROVE  Superseded(hist, task[u].rec)
  <1>1. /\ task[t].rec \in DOMAIN hist /\ IsBoundary(hist[task[t].rec])
        /\ task[u].rec \in DOMAIN hist /\ IsBoundary(hist[task[u].rec])
    BY DEF LoopInv, HistoryInv, RequestsExist, IsRequest
  <1>2. task[t].rec # task[u].rec
    BY DEF LoopInv, OwnRequests
  <1>3. task[t].rec \in Nat /\ task[u].rec \in Nat
    BY DEF LoopInv, HistoryInv, TypeOK, TaskState
  <1>4. ~(task[u].rec > task[t].rec)
    BY <1>1 DEF Stale, Superseded
  <1> QED BY <1>1, <1>2, <1>3, <1>4 DEF Superseded

\* Task t counts a failure of the newest request.
Fails(t) ==
    /\ Retry(t) /\ ~Stale(t) /\ status = "running" /\ retry' = retry + 1
    /\ retry + 1 < MaxFailures \/ Finish(t, "error")

\* The budget is used by failures only.
LEMMA RetryMoves ==
    ASSUME TypeOK, [Next]_vars
    PROVE  retry' \in {retry, 0} \/ \E t \in Tasks : Fails(t)
  <1> DEFINE Goal == retry' \in {retry, 0} \/ \E t \in Tasks : Fails(t)
  <1> SUFFICES Goal
    OBVIOUS
  <1>1. ASSUME retry' = retry \/ retry' = 0 PROVE Goal
    BY <1>1
  <1> HIDE DEF Goal
  <1>2. CASE Handlers
    BY <1>1, <1>2, Zenon
    DEF Handlers, EnqueueCommit, EnqueueDropped, CancelCommit, CancelDropped,
        CancelSignal, EnqueueRegister, RecordRequest, RecordCancel, durable
  <1>3. CASE Supervisor \/ Crash \/ UNCHANGED vars
    BY <1>1, <1>3, Zenon DEF Supervisor, EnsureRead, EnsureRegister, Crash, durable, vars
  <1>4. CASE \E c \in DOMAIN hist : WorkerResult(c)
    BY <1>1, <1>4, Zenon DEF WorkerResult
  <1>5. ASSUME NEW t \in Tasks,
               \/ Load(t) \/ Wait(t) \/ Waited(t) \/ Settle(t) \/ SettleNext(t)
               \/ WaitCall(t) \/ ToolEffect(t) \/ Answer(t) \/ Context(t)
               \/ ManualContext(t)
               \/ \E kind \in {"message", "call", "local"} : StreamItem(t, kind)
        PROVE  Goal
    BY <1>1, <1>5, Zenon
    DEF Load, Wait, Waited, Settle, SettleNext, WaitCall, ToolEffect, Answer,
        Context, ManualContext, StreamItem, ReadOnly, durable
  <1>6. ASSUME NEW t \in Tasks,
               \/ StreamEnqueue(t) \/ StreamError(t) \/ Responded(t) \/ Decide(t)
               \/ FinalizeSuccess(t) \/ FinalizeFailure(t)
               \/ Ending(t) \/ ClearCurrent(t) \/ StorageError(t) \/ Panic(t)
        PROVE  Goal
    BY <1>1, <1>6, Zenon
    DEF StreamEnqueue, StreamError, Responded, Decide, FinalizeSuccess, FinalizeFailure,
        Ending, ClearCurrent, StorageError, Panic, ReadOnly, durable
  <1>7. ASSUME NEW t \in Tasks,
               \/ \E endTurn \in BOOLEAN : Complete(t, endTurn)
               \/ Compacting(t) \/ Checkpoint(t)
        PROVE  Goal
    BY <1>1, <1>7, Zenon DEF Complete, Compacting, Checkpoint, durable
  <1>8. ASSUME NEW t \in Tasks, Retry(t) PROVE Goal
    <2>1. CASE retry' = retry
      BY <1>1, <2>1
    <2>2. CASE retry' # retry
      <3>1. Fails(t)
        BY <1>8, <2>2, Zenon DEF Retry, Fails
      <3> QED BY <3>1 DEF Goal
    <2> QED BY <2>1, <2>2
  <1> QED BY <1>2, <1>3, <1>4, <1>5, <1>6, <1>7, <1>8, Zenon DEF Next, Run

\* A task that gives up goes on doing so until it is gone.
LEMMA GivesUpStays ==
    ASSUME HistoryInv, [Next]_vars, NEW u \in Tasks, GivesUp(task[u])
    PROVE  task'[u].pc # "none" => GivesUp(task'[u])
  <1> DEFINE Goal == task'[u].pc # "none" => GivesUp(task'[u])
  <1> SUFFICES Goal
    OBVIOUS
  <1>0. /\ TypeOK /\ RequestsExist /\ Owned(hist) /\ Live(u)
        /\ task \in [Tasks -> TaskState] /\ task[u] \in TaskState
    BY DEF HistoryInv, TypeOK, GivesUp, Live
  <1>1. ASSUME task'[u] \in {task[u], [task[u] EXCEPT !.sig = TRUE]} PROVE Goal
    <2>1. /\ [task[u] EXCEPT !.sig = TRUE].pc = task[u].pc
          /\ [task[u] EXCEPT !.sig = TRUE].res = task[u].res
      BY <1>0 DEF TaskState
    <2>2. task'[u].pc = task[u].pc /\ task'[u].res = task[u].res
      BY <1>1, <2>1
    <2> QED BY <2>2 DEF GivesUp
  <1>2. ASSUME NEW t \in Tasks \ {u},
               Run(t) \/ Ending(t) \/ ClearCurrent(t) \/ StorageError(t) \/ Panic(t)
        PROVE  Goal
    <2>1. KeepsRequest(t)
      BY <1>0, <1>2, ReadersKeep, WritersKeep, EndsKeep, ConcludersKeep, Zenon DEF Run
    <2> QED BY <1>1, <2>1 DEF KeepsRequest
  <1>3. ASSUME \/ Load(u) \/ Wait(u) \/ Waited(u) \/ Settle(u) \/ SettleNext(u)
               \/ WaitCall(u) \/ ToolEffect(u) \/ Answer(u) \/ Context(u)
               \/ ManualContext(u)
               \/ \E kind \in {"message", "call", "local"} : StreamItem(u, kind)
        PROVE  FALSE
    <2>1. \E pc \in {"start", "wait", "waiting", "settle", "tools", "waitcall", "effect",
                     "answer", "context", "manual", "infer"} : At(u, pc)
      BY <1>3, Zenon
      DEF Load, Wait, Waited, Settle, SettleNext, WaitCall, ToolEffect, Answer, Context,
          ManualContext, StreamItem
    <2> QED BY <2>1 DEF At, GivesUp
  <1>4. ASSUME \/ StreamEnqueue(u) \/ \E endTurn \in BOOLEAN : Complete(u, endTurn)
               \/ StreamError(u) \/ Responded(u) \/ Decide(u) \/ Retry(u)
               \/ Compacting(u) \/ Checkpoint(u) \/ FinalizeSuccess(u)
        PROVE  FALSE
    <2>1. \E pc \in {"enqueue", "infer", "responded", "decide", "retry", "compacting",
                     "checkpoint", "succeed"} : At(u, pc)
      BY <1>4, Zenon
      DEF StreamEnqueue, Complete, StreamError, Responded, Decide, Retry, Compacting,
          Checkpoint, FinalizeSuccess
    <2> QED BY <2>1 DEF At, GivesUp
  <1>5. ASSUME NEW pc \in {"fail", "clear"}, Goto(u, pc) PROVE Goal
    BY <1>0, <1>5 DEF Goto, GivesUp, TaskState
  <1>6. CASE FinalizeFailure(u) \/ Ending(u)
    <2>1. Goto(u, "clear") \/ (At(u, "end") /\ (task[u].res = "error" => Goto(u, "fail")))
      <3>1. CASE FinalizeFailure(u)
        BY <3>1, Zenon DEF FinalizeFailure
      <3>2. CASE Ending(u)
        BY <3>2 DEF Ending
      <3> QED BY <1>6, <3>1, <3>2
    <2> QED BY <1>5, <2>1 DEF GivesUp, At
  <1>7. CASE ClearCurrent(u) \/ Panic(u)
    <2>1. task'[u] \in {NoRun, [NoRun EXCEPT !.rec = task[u].rec]}
      BY <1>0, <1>7 DEF ClearCurrent, Panic
    <2> QED BY <2>1 DEF NoRun, NewTask
  <1>8. CASE StorageError(u)
    <2>1. Goto(u, "clear")
      BY <1>8 DEF StorageError, GivesUp, At
    <2> QED BY <1>5, <2>1
  <1>9. ASSUME NEW t \in Tasks, EnqueueRegister(t) \/ EnsureRegister(t) PROVE Goal
    <2>1. ~Live(t) /\ (task' = task \/ Register(t, lock.rec, lock.as))
      BY <1>9, Zenon DEF EnqueueRegister, EnsureRegister, Free
    <2>2. u \in Tasks \ {t}
      BY <1>0, <2>1
    <2> QED BY <1>0, <1>1, <2>1, <2>2, RegisterKeeps
  <1>10. ASSUME CancelSignal PROVE Goal
    <2>1. task'[u] = [task[u] EXCEPT !.sig = TRUE] \/ task'[u] = task[u]
      BY <1>10 DEF CancelSignal
    <2> QED BY <1>1, <2>1
  <1>11. ASSUME Crash PROVE Goal
    <2>1. task'[u] = NoRun
      BY <1>11 DEF Crash
    <2> QED BY <2>1 DEF NoRun, NewTask
  <1>12. ASSUME \/ \E kind \in {"input", "continue", "compact"} :
                      EnqueueCommit(kind) \/ EnqueueDropped(kind)
                \/ CancelCommit \/ CancelDropped \/ EnsureRead \/ UNCHANGED vars
                \/ \E c \in DOMAIN hist : WorkerResult(c)
         PROVE  Goal
    <2>1. task' = task
      BY <1>12, Zenon
      DEF EnqueueCommit, EnqueueDropped, CancelCommit, CancelDropped, EnsureRead,
          WorkerResult, vars
    <2> QED BY <1>1, <2>1
  <1> HIDE DEF Goal
  <1>13. ASSUME NEW t \in Tasks,
                Run(t) \/ Ending(t) \/ ClearCurrent(t) \/ StorageError(t) \/ Panic(t)
         PROVE  Goal
    <2>1. CASE t = u
      BY <1>3, <1>4, <1>6, <1>7, <1>8, <1>13, <2>1, Zenon DEF Run
    <2>2. CASE t # u
      BY <1>2, <1>13, <2>2
    <2> QED BY <2>1, <2>2
  <1> QED
    BY <1>9, <1>10, <1>11, <1>12, <1>13, Zenon DEF Next, Handlers, Supervisor

LEMMA BudgetStep ==
    ASSUME BudgetInv, [Next]_vars, UndoesNoStop
    PROVE  RetryBudget' /\ Spent'
  <1>0. /\ LoopInv /\ HistoryInv /\ TypeOK /\ RequestsExist /\ RetryBudget /\ Spent
        /\ hist \in Seq(Record) /\ retry \in Nat /\ MaxFailures \in Nat \ {0}
        /\ task \in [Tasks -> TaskState]
    BY ThreadRunAssumption DEF BudgetInv, LoopInv, HistoryInv, TypeOK
  <1>1. Extends(hist, hist') /\ retry' \in Nat
    BY <1>0, StepHistory, TypeStep DEF HistoryInv, TypeOK
  <1>2. RetryBudget'
    <2> SUFFICES ASSUME status' = "running" PROVE retry' < MaxFailures
      BY DEF RetryBudget
    <2>1. CASE Calm
      BY <1>0, <2>1 DEF Calm, RetryBudget
    <2>2. CASE \E kind \in {"input", "continue", "compact"} : RecordRequest(kind)
      BY <1>0, <2>2 DEF RecordRequest
    <2>3. CASE RecordCancel
      BY <2>3 DEF RecordCancel
    <2>4. ASSUME NEW t \in Tasks, Rearms(t) PROVE retry' < MaxFailures
      <3>1. At(t, "decide") /\ status # "running" /\ retry' = retry
        BY <2>4, Zenon DEF Rearms, Decide
      <3>2. Live(t) /\ ~Stale(t) /\ ~GivesUp(task[t])
        BY <2>4, <3>1 DEF UndoesNoStop, At, Live, Stale, Current, GivesUp
      <3> QED BY <1>0, <3>1, <3>2 DEF Spent
    <2> QED BY <1>0, <2>1, <2>2, <2>3, <2>4, StepCalm
  <1>3. CASE status # "running" /\ retry >= MaxFailures
    <2>1. ASSUME NEW u \in Tasks, Live(u)'
          PROVE  Superseded(hist', task'[u].rec) \/ GivesUp(task'[u])
      <3>1. CASE lock.op \in {"enqueue", "ensure"} /\ task'[u].rec = lock.rec
        BY <1>0, <1>1, <1>3, <3>1, StaleStays DEF Spent
      <3>2. CASE Live(u) /\ task'[u].rec = task[u].rec
        <4>1. CASE Stale(u)
          BY <1>1, <3>2, <4>1, StaleStays DEF Stale
        <4>2. CASE GivesUp(task[u])
          BY <1>0, <2>1, <4>2, GivesUpStays DEF Live
        <4> QED BY <1>0, <1>3, <3>2, <4>1, <4>2 DEF Spent
      <3> QED BY <1>0, <2>1, <3>1, <3>2, TasksStep DEF Continues, Live
    <2>2. ASSUME status' # "running", lock'.op \in {"enqueue", "ensure"}
          PROVE  Superseded(hist', lock'.rec)
      <3>1. lock' = lock
        <4>1. ~EnsureRead
          BY <1>3 DEF EnsureRead
        <4>2. \A kind \in {"input", "continue", "compact"} : ~EnqueueCommit(kind)
          BY <2>2 DEF EnqueueCommit, RecordRequest
        <4> QED BY <2>2, <4>1, <4>2, LockStep
      <3> QED BY <1>0, <1>1, <1>3, <2>2, <3>1, StaleStays DEF Spent
    <2>3. Spent'
      BY <2>1, <2>2 DEF Spent, Stale, Live
    <2> QED BY <1>2, <2>3
  <1>4. CASE ~(status # "running" /\ retry >= MaxFailures)
    <2> SUFFICES ASSUME status' # "running", retry' >= MaxFailures PROVE Spent'
      BY <1>2 DEF Spent
    <2>1. retry < MaxFailures
      BY <1>0, <1>4 DEF RetryBudget
    <2>2. PICK t \in Tasks : Fails(t)
      BY <1>0, <2>1, RetryMoves
    <2>3. /\ At(t, "retry") /\ ~Stale(t) /\ Finish(t, "error")
          /\ hist' = hist /\ lock' = lock
      BY <1>0, <2>2 DEF Fails, Retry
    <2>4. Live(t)
      BY <2>3 DEF At, Live
    <2>5. /\ task'[t].pc = "end" /\ task'[t].res = "error"
          /\ \A u \in Tasks \ {t} : task'[u] = task[u]
      BY <1>0, <2>3 DEF Finish, NewTask
    <2>6. ASSUME NEW u \in Tasks, Live(u)'
          PROVE  Superseded(hist', task'[u].rec) \/ GivesUp(task'[u])
      <3>1. CASE u = t
        BY <2>5, <3>1 DEF GivesUp
      <3>2. CASE u # t
        <4>1. Live(u) /\ task'[u] = task[u]
          BY <2>5, <2>6, <3>2 DEF Live
        <4> QED BY <1>0, <2>3, <2>4, <3>2, <4>1, OthersAreStale
      <3> QED BY <3>1, <3>2
    <2>7. ASSUME lock.op \in {"enqueue", "ensure"} PROVE Superseded(hist, lock.rec)
      <3>1. /\ task[t].rec \in DOMAIN hist /\ IsBoundary(hist[task[t].rec])
            /\ lock.rec \in DOMAIN hist /\ IsBoundary(hist[lock.rec])
            /\ task[t].rec \in Nat /\ lock.rec \in Nat
        BY <1>0, <2>4, <2>7 DEF RequestsExist, IsRequest
      <3>2. task[t].rec # lock.rec
        BY <1>0, <2>4, <2>7, <3>1 DEF LoopInv, LockInv
      <3>3. ~(lock.rec > task[t].rec)
        BY <2>3, <3>1 DEF Stale, Superseded
      <3> QED BY <3>1, <3>2, <3>3 DEF Superseded
    <2> QED BY <2>3, <2>6, <2>7 DEF Spent, Stale, Live
  <1> QED BY <1>3, <1>4

\* A running Thread always has some of its retry budget left: it fails as soon
\* as the budget is spent, and only a new request, which resets the budget,
\* sets it running again.
THEOREM BudgetHolds == Spec /\ StopsAreKept => []RetryBudget
  <1>1. Init => BudgetInv
    BY LoopInit DEF Init, BudgetInv, RetryBudget, Spent, Live, NoRun, NewTask, Unlocked
  <1>2. BudgetInv /\ [Next]_vars /\ [UndoesNoStop]_vars => BudgetInv'
    BY BudgetStep, LoopStep, UndoesNothing DEF BudgetInv
  <1>3. BudgetInv => RetryBudget
    BY DEF BudgetInv
  <1> QED BY <1>1, <1>2, <1>3, NoStopUndone, PTL DEF Spec

-----------------------------------------------------------------------------
(* What steps add to the history.                                          *)

\* g continues h with records that neither answer nor summarise anything.
Plain(h, g) ==
    /\ Extends(h, g)
    /\ \A i \in DOMAIN g \ DOMAIN h : g[i].ref = 0 /\ g[i].kind # "checkpoint"

\* g continues h without calls and continuations, too.
Silent(h, g) ==
    /\ Plain(h, g)
    /\ \A i \in DOMAIN g \ DOMAIN h : g[i].kind \notin CallKinds \cup {"nudge"}

LEMMA PlainAppend ==
    ASSUME NEW h \in Seq(Record), NEW kind, NEW req,
           Rec(kind, req, 0) \in Record, kind # "checkpoint"
    PROVE  /\ Plain(h, Append(h, Rec(kind, req, 0)))
           /\ kind \notin CallKinds \cup {"nudge"} =>
                 Silent(h, Append(h, Rec(kind, req, 0)))
  <1> DEFINE r == Rec(kind, req, 0)
  <1>1. r.kind = kind /\ r.ref = 0
    BY DEF Rec
  <1> HIDE DEF r
  <1>2. r \in Record
    BY DEF r
  <1>3. Extends(h, Append(h, r))
    BY <1>2, QuietAppend
  <1>4. \A i \in DOMAIN Append(h, r) \ DOMAIN h : Append(h, r)[i] = r
    BY <1>2, AppendType
  <1>5. /\ Plain(h, Append(h, r))
        /\ kind \notin CallKinds \cup {"nudge"} => Silent(h, Append(h, r))
    BY <1>1, <1>3, <1>4 DEF Plain, Silent
  <1> QED BY <1>5 DEF r

LEMMA SilentSame == ASSUME NEW h PROVE Silent(h, h)
  BY DEF Silent, Plain, Extends

LEMMA SilentTransitive ==
    ASSUME NEW f, NEW g, NEW h, Silent(f, g), Silent(g, h)
    PROVE  Silent(f, h)
  BY DEF Silent, Plain, Extends

LEMMA SilentNoted ==
    ASSUME NEW h \in Seq(Record), NEW n \in Noted(h)
    PROVE  n \in Seq(Record) /\ Silent(h, n)
  <1>1. n \in Seq(Record)
    BY NotedHistory
  <1>2. n = h \/ n = Append(h, Rec("note", 0, 0))
    BY DEF Noted
  <1>3. Rec("note", 0, 0) \in Record
    BY RecType DEF Kinds, ProtocolKinds
  <1>4. "note" \notin CallKinds \cup {"nudge"}
    BY DEF CallKinds
  <1> QED BY <1>1, <1>2, <1>3, <1>4, SilentSame, PlainAppend

\* The steps that are not about calls, checkpoints or continuations.
LEMMA SilentTask ==
    ASSUME TypeOK, NEW t \in Tasks,
           \/ Load(t) \/ Wait(t) \/ Waited(t) \/ Settle(t) \/ SettleNext(t)
           \/ WaitCall(t) \/ ToolEffect(t) \/ Context(t) \/ ManualContext(t)
           \/ StreamEnqueue(t) \/ \E endTurn \in BOOLEAN : Complete(t, endTurn)
           \/ StreamError(t) \/ Responded(t) \/ Retry(t) \/ Compacting(t)
           \/ FinalizeSuccess(t) \/ FinalizeFailure(t)
           \/ Ending(t) \/ ClearCurrent(t) \/ StorageError(t) \/ Panic(t)
    PROVE  Silent(hist, hist')
  <1>0. hist \in Seq(Record)
    BY DEF TypeOK
  <1>1. ASSUME hist' = hist PROVE Silent(hist, hist')
    BY <1>1, SilentSame
  <1>2. CASE Context(t)
    <2>1. PICK switched \in Noted(hist) : hist' = switched \/ hist' \in Noted(switched)
      BY <1>2, ContextShape
    <2>2. switched \in Seq(Record) /\ Silent(hist, switched)
      BY <1>0, SilentNoted
    <2>3. CASE hist' \in Noted(switched)
      <3>1. Silent(switched, hist')
        BY <2>2, <2>3, SilentNoted, Zenon
      <3> QED BY <2>2, <3>1, SilentTransitive, Zenon
    <2> QED BY <2>1, <2>2, <2>3, Zenon
  <1>3. CASE \/ Load(t) \/ Wait(t) \/ Waited(t) \/ Settle(t) \/ SettleNext(t)
             \/ WaitCall(t) \/ ToolEffect(t) \/ ManualContext(t)
    BY <1>1, <1>3, Zenon
    DEF Load, Wait, Waited, Settle, SettleNext, WaitCall, ToolEffect, ManualContext,
        ReadOnly, durable
  <1>4. CASE \/ StreamEnqueue(t) \/ \E endTurn \in BOOLEAN : Complete(t, endTurn)
             \/ StreamError(t) \/ Responded(t) \/ Retry(t) \/ Compacting(t)
             \/ FinalizeSuccess(t) \/ FinalizeFailure(t)
    BY <1>1, <1>4, Zenon
    DEF StreamEnqueue, Complete, StreamError, Responded, Retry, Compacting,
        FinalizeSuccess, FinalizeFailure, ReadOnly, durable
  <1>5. CASE Ending(t) \/ ClearCurrent(t) \/ StorageError(t) \/ Panic(t)
    BY <1>1, <1>5, Zenon DEF Ending, ClearCurrent, StorageError, Panic, ReadOnly, durable
  <1> QED BY <1>2, <1>3, <1>4, <1>5, Zenon

LEMMA SilentRest ==
    ASSUME TypeOK, Handlers \/ Supervisor \/ Crash \/ UNCHANGED vars
    PROVE  Silent(hist, hist')
  <1>0. hist \in Seq(Record) /\ Len(hist) \in Nat
    BY DEF TypeOK
  <1>1. ASSUME hist' = hist PROVE Silent(hist, hist')
    BY <1>1, SilentSame
  <1>2. ASSUME NEW kind \in BoundaryKinds,
               hist' = Append(hist, Rec(kind, Len(hist) + 1, 0))
        PROVE  Silent(hist, hist')
    <2>1. Rec(kind, Len(hist) + 1, 0) \in Record
      BY <1>0, RecType DEF Kinds
    <2>2. kind \notin CallKinds \cup {"nudge"} /\ kind # "checkpoint"
      BY DEF BoundaryKinds, CallKinds
    <2> QED BY <1>0, <1>2, <2>1, <2>2, PlainAppend
  <1>3. CASE Handlers
    <2>1. \/ hist' = hist
          \/ \E kind \in {"input", "continue", "compact"} : RecordRequest(kind)
          \/ RecordCancel
      BY <1>3, Zenon
      DEF Handlers, EnqueueCommit, EnqueueDropped, CancelCommit, CancelDropped,
          CancelSignal, EnqueueRegister, durable
    <2> QED BY <1>1, <1>2, <2>1 DEF RecordRequest, RecordCancel, BoundaryKinds
  <1>4. CASE Supervisor \/ Crash \/ UNCHANGED vars
    BY <1>1, <1>4, Zenon DEF Supervisor, EnsureRead, EnsureRegister, Crash, durable, vars
  <1> QED BY <1>3, <1>4

-----------------------------------------------------------------------------
(* The continuation budget.                                                *)

Nudges(h, r) == {i \in DOMAIN h : h[i].kind = "nudge" /\ h[i].req = r}

\* NudgeBudget for every number, whether it is a record already or not.
NudgeInv == TypeOK /\ \A r \in Nat : Cardinality(Nudges(hist, r)) <= MaxPerTurn

\* The step grants no continuation.
Unprompted ==
    /\ Extends(hist, hist')
    /\ \A i \in DOMAIN hist' \ DOMAIN hist : hist'[i].kind # "nudge"

LEMMA UnpromptedAppend ==
    ASSUME TypeOK, NEW r \in Record, r.kind # "nudge", hist' = Append(hist, r)
    PROVE  Unprompted
  <1>1. hist \in Seq(Record)
    BY DEF TypeOK
  <1>2. Extends(hist, hist')
    BY <1>1, QuietAppend
  <1>3. \A i \in DOMAIN hist' \ DOMAIN hist : hist'[i] = r
    BY <1>1, AppendType
  <1> QED BY <1>2, <1>3 DEF Unprompted

LEMMA UnpromptedStep ==
    ASSUME TypeOK, [Next]_vars
    PROVE  \/ Unprompted
           \/ \E t \in Tasks : /\ HasContinuation(hist, task[t].rec)
                               /\ hist' = Append(hist, Rec("nudge", task[t].rec, 0))
  <1> DEFINE Goal == \/ Unprompted
                     \/ \E t \in Tasks : /\ HasContinuation(hist, task[t].rec)
                                         /\ hist' = Append(hist, Rec("nudge", task[t].rec, 0))
  <1> SUFFICES Goal
    OBVIOUS
  <1>1. ASSUME Silent(hist, hist') PROVE Unprompted
    BY <1>1 DEF Silent, Plain, Unprompted
  <1>2. ASSUME hist' = hist PROVE Unprompted
    BY <1>2 DEF Unprompted, Extends
  <1>3. ASSUME NEW t \in Tasks, NEW kind \in Kinds \ {"nudge"}, NEW ref \in Nat,
               hist' = Append(hist, Rec(kind, task[t].rec, ref))
        PROVE  Unprompted
    <2>1. task[t].rec \in Nat
      BY DEF TypeOK, TaskState
    <2>2. Rec(kind, task[t].rec, ref) \in Record /\ Rec(kind, task[t].rec, ref).kind # "nudge"
      BY <2>1, RecType DEF Rec
    <2> QED BY <1>3, <2>2, UnpromptedAppend
  <1>4. /\ {"output", "late", "message", "call", "local", "stopped", "checkpoint"}
              \subseteq Kinds \ {"nudge"}
    BY DEF Kinds, ProtocolKinds, OwnedKinds, CallKinds
  <1>5. ASSUME NEW t \in Tasks, Answer(t) PROVE Unprompted
    <2>1. task[t].call \in Nat
      BY DEF TypeOK, TaskState
    <2>2. \/ hist' = hist
          \/ hist' = Append(hist, Rec("output", task[t].rec, task[t].call))
          \/ hist' = Append(hist, Rec("late", task[t].rec, task[t].call))
      BY <1>5 DEF Answer
    <2> QED BY <1>2, <1>3, <1>4, <2>1, <2>2
  <1>6. ASSUME NEW t \in Tasks, NEW kind \in {"message", "call", "local"}, StreamItem(t, kind)
        PROVE  Unprompted
    <2>1. hist' = hist \/ hist' = Append(hist, Rec(kind, task[t].rec, 0))
      BY <1>6 DEF StreamItem
    <2> QED BY <1>2, <1>3, <1>4, <2>1
  <1>7. ASSUME NEW t \in Tasks, Checkpoint(t) PROVE Unprompted
    <2>1. hist' = hist \/ hist' = Append(hist, Rec("checkpoint", task[t].rec, 0))
      BY <1>7, Zenon DEF Checkpoint, durable
    <2> QED BY <1>2, <1>3, <1>4, <2>1
  <1>8. ASSUME NEW t \in Tasks, Decide(t) PROVE Goal
    <2>1. \/ hist' = hist
          \/ hist' = Append(hist, Rec("stopped", task[t].rec, 0))
          \/ /\ HasContinuation(hist, task[t].rec)
             /\ hist' = Append(hist, Rec("nudge", task[t].rec, 0))
      BY <1>8 DEF Decide
    <2> QED BY <1>2, <1>3, <1>4, <2>1
  <1>9. ASSUME NEW c \in DOMAIN hist, WorkerResult(c) PROVE Unprompted
    <2>1. hist[c] \in Record /\ c \in Nat /\ hist \in Seq(Record)
      BY DEF TypeOK
    <2>2. hist[c].req \in Nat
      BY <2>1 DEF Record
    <2> DEFINE kind == IF Superseded(hist, hist[c].req) THEN "late" ELSE "output"
    <2>3. kind \in Kinds \ {"nudge"}
      BY <1>4
    <2>4. hist' = Append(hist, Rec(kind, hist[c].req, c))
      BY <1>9 DEF WorkerResult
    <2> HIDE DEF kind
    <2>5. Rec(kind, hist[c].req, c) \in Record /\ Rec(kind, hist[c].req, c).kind # "nudge"
      BY <2>1, <2>2, <2>3, RecType DEF Rec
    <2> QED BY <2>4, <2>5, UnpromptedAppend
  <1> HIDE DEF Goal
  <1>10. Unprompted => Goal
    BY DEF Goal
  <1>11. ASSUME NEW t \in Tasks, Run(t) \/ Ending(t) \/ ClearCurrent(t)
                                 \/ StorageError(t) \/ Panic(t)
         PROVE  Goal
    BY <1>1, <1>5, <1>6, <1>7, <1>8, <1>10, <1>11, SilentTask, Zenon DEF Run
  <1>12. ASSUME Handlers \/ Supervisor \/ Crash \/ UNCHANGED vars PROVE Goal
    BY <1>1, <1>10, <1>12, SilentRest
  <1> QED BY <1>9, <1>10, <1>11, <1>12, Zenon DEF Next

LEMMA NudgeStep ==
    ASSUME NudgeInv, [Next]_vars
    PROVE  NudgeInv'
  <1>1. TypeOK /\ TypeOK' /\ hist \in Seq(Record)
    BY TypeStep DEF NudgeInv, TypeOK
  <1>2. \A r \in Nat : IsFiniteSet(Nudges(hist, r))
    <2>1. DOMAIN hist = 1..Len(hist) /\ Len(hist) \in Nat
      BY <1>1
    <2>2. IsFiniteSet(1..Len(hist))
      BY <2>1, FS_Interval
    <2> QED BY <2>1, <2>2, FS_Subset DEF Nudges
  <1>3. CASE Unprompted
    <2>1. \A r \in Nat : Nudges(hist', r) = Nudges(hist, r)
      BY <1>3 DEF Unprompted, Extends, Nudges
    <2> QED BY <1>1, <2>1 DEF NudgeInv
  <1>4. ASSUME NEW t \in Tasks, HasContinuation(hist, task[t].rec),
               hist' = Append(hist, Rec("nudge", task[t].rec, 0))
        PROVE  NudgeInv'
    <2> DEFINE n == Len(hist) + 1
    <2> DEFINE rec == task[t].rec
    <2>1. rec \in Nat
      BY <1>1 DEF TypeOK, TaskState
    <2> DEFINE x == Rec("nudge", rec, 0)
    <2>2. x \in Record /\ x.kind = "nudge" /\ x.req = rec
      BY <2>1, RecType DEF Rec, Kinds
    <2>3. hist' = Append(hist, x)
      BY <1>4
    <2> HIDE DEF x
    <2>4. /\ \A i \in DOMAIN hist : i \in DOMAIN hist' /\ hist'[i] = hist[i]
          /\ n \in DOMAIN hist' /\ hist'[n] = x /\ n \notin DOMAIN hist
          /\ \A i \in DOMAIN hist' : i \in DOMAIN hist \/ i = n
      BY <1>1, <2>2, <2>3
    <2> HIDE DEF n
    <2>5. ASSUME NEW r \in Nat, r # rec PROVE Nudges(hist', r) = Nudges(hist, r)
      BY <2>2, <2>4, <2>5 DEF Nudges
    <2>6. Nudges(hist', rec) = Nudges(hist, rec) \cup {n} /\ n \notin Nudges(hist, rec)
      BY <2>2, <2>4 DEF Nudges
    <2>7. Cardinality(Nudges(hist', rec)) = Cardinality(Nudges(hist, rec)) + 1
      BY <1>2, <2>1, <2>6, FS_AddElement
    <2>8. Cardinality(Nudges(hist, rec)) < MaxPerTurn /\ Cardinality(Nudges(hist, rec)) \in Nat
      BY <1>2, <1>4, <2>1, FS_CardinalityType DEF HasContinuation, Continuations, Nudges
    <2>9. MaxPerTurn \in Nat
      BY ThreadRunAssumption
    <2> HIDE DEF rec
    <2>10. \A r \in Nat : Cardinality(Nudges(hist', r)) <= MaxPerTurn
      BY <2>5, <2>7, <2>8, <2>9 DEF NudgeInv
    <2> QED BY <1>1, <2>10 DEF NudgeInv
  <1> QED BY <1>1, <1>3, <1>4, UnpromptedStep

\* One input is handed back to the model at most MaxPerTurn times, whatever
\* tasks run it and however often it is recovered.
THEOREM ContinuationsAreBounded == Spec => []NudgeBudget
  <1>1. Init => NudgeInv
    <2> SUFFICES ASSUME Init PROVE NudgeInv
      OBVIOUS
    <2>1. \A r \in Nat : Nudges(hist, r) = {}
      BY DEF Init, Nudges
    <2>2. Cardinality({}) = 0 /\ MaxPerTurn \in Nat
      BY FS_EmptySet, ThreadRunAssumption
    <2> QED BY <2>1, <2>2, TypeInit DEF NudgeInv
  <1>2. NudgeInv => NudgeBudget
    <2>1. ASSUME NudgeInv PROVE DOMAIN hist \subseteq Nat
      BY <2>1 DEF NudgeInv, TypeOK
    <2> QED BY <2>1 DEF NudgeInv, NudgeBudget, Nudges, Continuations
  <1>3. NudgeInv /\ [Next]_vars => NudgeInv'
    BY NudgeStep
  <1> QED BY <1>1, <1>2, <1>3, PTL DEF Spec

-----------------------------------------------------------------------------
(* Answers, and what a step may add to them.                               *)

\* Records that answer nothing leave every answer as it was.
LEMMA PlainAnswers ==
    ASSUME TypeOK, Plain(hist, hist')
    PROVE  \A c : c # 0 => Outputs(hist', c) = Outputs(hist, c)
  BY DEF Plain, Extends, Outputs

LEMMA PlainKeeps ==
    ASSUME TypeOK, TypeOK', AnswersInv, Plain(hist, hist')
    PROVE  AnswersInv'
  <1>0. /\ hist \in Seq(Record) /\ DOMAIN hist = 1..Len(hist) /\ Len(hist) \in Nat
        /\ hist' \in Seq(Record) /\ DOMAIN hist' \subseteq Nat \ {0}
        /\ Extends(hist, hist')
    BY DEF TypeOK, Plain
  <1>1. \A c \in DOMAIN hist' : Outputs(hist', c) = Outputs(hist, c)
    BY <1>0, PlainAnswers
  <1>2. RefsInv'
    <2> SUFFICES ASSUME NEW i \in DOMAIN hist'
                 PROVE  /\ hist'[i].ref < i
                        /\ hist'[i].ref # 0 =>
                              \/ hist'[i].kind = "output"
                              \/ /\ hist'[i].kind = "late"
                                 /\ Superseded(hist', hist'[i].ref)
      BY DEF RefsInv
    <2>1. CASE i \in DOMAIN hist
      <3>1. hist'[i] = hist[i]
        BY <1>0, <2>1 DEF Extends
      <3>2. /\ hist[i].ref < i
            /\ hist[i].ref # 0 =>
                  \/ hist[i].kind = "output"
                  \/ hist[i].kind = "late" /\ Superseded(hist, hist[i].ref)
        BY <2>1 DEF AnswersInv, RefsInv
      <3> QED BY <1>0, <3>1, <3>2, StaleStays
    <2>2. CASE i \notin DOMAIN hist
      BY <1>0, <2>2 DEF Plain
    <2> QED BY <2>1, <2>2
  <1>3. Unique'
    <2> SUFFICES ASSUME NEW c \in DOMAIN hist', NEW i \in Outputs(hist, c),
                        NEW j \in Outputs(hist, c)
                 PROVE  i = j
      BY <1>1 DEF Unique
    <2>1. i \in DOMAIN hist /\ hist[i].ref = c
      BY DEF Outputs
    <2>2. c < i
      BY <2>1 DEF AnswersInv, RefsInv
    <2>3. c \in DOMAIN hist
      BY <1>0, <2>1, <2>2
    <2> QED BY <2>3 DEF AnswersInv, Unique
  <1>4. \A k \in DOMAIN hist' : hist'[k].kind = "checkpoint" =>
           k \in DOMAIN hist /\ hist[k].kind = "checkpoint"
    BY DEF Plain, Extends
  <1>5. CheckpointKeepsPairs'
    <2> SUFFICES ASSUME NEW k \in DOMAIN hist', hist'[k].kind = "checkpoint",
                        NEW c \in 1..k, NEW o \in Outputs(hist', c)
                 PROVE  o < k
      BY DEF CheckpointKeepsPairs
    <2>1. k \in DOMAIN hist /\ hist[k].kind = "checkpoint"
      BY <1>4
    <2>2. c # 0
      OBVIOUS
    <2>3. o \in Outputs(hist, c)
      BY <2>2, PlainAnswers
    <2> QED BY <2>1, <2>3 DEF AnswersInv, CheckpointKeepsPairs
  <1>6. Sealed'
    <2> SUFFICES ASSUME NEW k \in DOMAIN hist', hist'[k].kind = "checkpoint",
                        NEW c \in DOMAIN hist', c < k, hist'[c].kind \in CallKinds
                 PROVE  Superseded(hist', c) \/ \E o \in Outputs(hist', c) : o < k
      BY DEF Sealed
    <2>1. k \in DOMAIN hist /\ hist[k].kind = "checkpoint"
      BY <1>4
    <2>2. c \in DOMAIN hist
      BY <1>0, <2>1
    <2>3. hist[c].kind \in CallKinds
      BY <1>0, <2>2 DEF Extends
    <2>4. Superseded(hist, c) \/ \E o \in Outputs(hist, c) : o < k
      BY <2>1, <2>2, <2>3 DEF AnswersInv, Sealed
    <2> QED BY <1>0, <1>1, <2>4, StaleStays
  <1> QED BY <1>2, <1>3, <1>5, <1>6 DEF AnswersInv

\* An output of a call that has none and is not over, or a late answer to a
\* call that is over, keeps them: such an output never comes after a
\* checkpoint that summarised the call.
LEMMA AnswerKeeps ==
    ASSUME TypeOK, AnswersInv, NEW c \in DOMAIN hist, hist[c].kind \in CallKinds,
           NEW r \in Record, hist' = Append(hist, r), r.ref = c,
           \/ r.kind = "output" /\ Outputs(hist, c) = {} /\ ~Superseded(hist, c)
           \/ r.kind = "late" /\ Superseded(hist, c)
    PROVE  AnswersInv'
  <1> DEFINE n == Len(hist) + 1
  <1>0. /\ hist \in Seq(Record) /\ DOMAIN hist = 1..Len(hist) /\ Len(hist) \in Nat
        /\ Extends(hist, hist') /\ c \in Nat /\ c # 0 /\ c < n
        /\ hist'[n] = r /\ DOMAIN hist' = DOMAIN hist \cup {n}
        /\ n \notin DOMAIN hist /\ \A i \in DOMAIN hist : i < n
    BY QuietAppend DEF TypeOK
  <1> HIDE DEF n
  <1>1. \A d : d # c => Outputs(hist', d) = Outputs(hist, d)
    BY <1>0 DEF Extends, Outputs
  <1>2. /\ r.kind = "output" => Outputs(hist', c) = {n}
        /\ r.kind = "late" => Outputs(hist', c) = Outputs(hist, c)
    <2>1. Outputs(hist', c) = Outputs(hist, c) \cup {i \in {n} : r.kind = "output"}
      BY <1>0 DEF Extends, Outputs
    <2> QED BY <2>1
  <1>3. RefsInv'
    <2> SUFFICES ASSUME NEW i \in DOMAIN hist'
                 PROVE  /\ hist'[i].ref < i
                        /\ hist'[i].ref # 0 =>
                              \/ hist'[i].kind = "output"
                              \/ /\ hist'[i].kind = "late"
                                 /\ Superseded(hist', hist'[i].ref)
      BY DEF RefsInv
    <2>1. CASE i \in DOMAIN hist
      <3>1. hist'[i] = hist[i]
        BY <1>0, <2>1 DEF Extends
      <3>2. /\ hist[i].ref < i
            /\ hist[i].ref # 0 =>
                  \/ hist[i].kind = "output"
                  \/ hist[i].kind = "late" /\ Superseded(hist, hist[i].ref)
        BY <2>1 DEF AnswersInv, RefsInv
      <3> QED BY <1>0, <3>1, <3>2, StaleStays
    <2>2. CASE i = n
      BY <1>0, <2>2, StaleStays
    <2> QED BY <1>0, <2>1, <2>2
  <1>4. Unique'
    <2> SUFFICES ASSUME NEW d \in DOMAIN hist', NEW i \in Outputs(hist', d),
                        NEW j \in Outputs(hist', d)
                 PROVE  i = j
      BY DEF Unique
    <2>1. CASE d = c
      BY <1>2, <2>1 DEF AnswersInv, Unique
    <2>2. CASE d # c /\ d \in DOMAIN hist
      BY <1>1, <2>2 DEF AnswersInv, Unique
    <2>3. CASE d = n
      <3>1. i \in Outputs(hist, d)
        BY <1>0, <1>1, <2>3
      <3>2. i \in DOMAIN hist /\ hist[i].ref = n
        BY <2>3, <3>1 DEF Outputs
      <3>3. n < i
        BY <3>2 DEF AnswersInv, RefsInv
      <3> QED BY <1>0, <3>2, <3>3
    <2> QED BY <1>0, <2>1, <2>2, <2>3
  <1>5. \A k \in DOMAIN hist' : hist'[k].kind = "checkpoint" =>
           k \in DOMAIN hist /\ hist[k].kind = "checkpoint" /\ k # c
    BY <1>0 DEF Extends, CallKinds
  <1>6. CheckpointKeepsPairs'
    <2> SUFFICES ASSUME NEW k \in DOMAIN hist', hist'[k].kind = "checkpoint",
                        NEW d \in 1..k, NEW o \in Outputs(hist', d)
                 PROVE  o < k
      BY DEF CheckpointKeepsPairs
    <2>1. k \in DOMAIN hist /\ hist[k].kind = "checkpoint" /\ k # c
      BY <1>5
    <2>2. CASE o \in Outputs(hist, d)
      BY <2>1, <2>2 DEF AnswersInv, CheckpointKeepsPairs
    <2>3. CASE o \notin Outputs(hist, d)
      <3>1. d = c /\ r.kind = "output"
        BY <1>1, <1>2, <2>3
      <3>2. c < k
        BY <1>0, <2>1, <3>1
      <3>3. Superseded(hist, c) \/ Outputs(hist, c) # {}
        BY <2>1, <3>2 DEF AnswersInv, Sealed
      <3> QED BY <3>1, <3>3
    <2> QED BY <2>2, <2>3
  <1>7. Sealed'
    <2> SUFFICES ASSUME NEW k \in DOMAIN hist', hist'[k].kind = "checkpoint",
                        NEW d \in DOMAIN hist', d < k, hist'[d].kind \in CallKinds
                 PROVE  Superseded(hist', d) \/ \E o \in Outputs(hist', d) : o < k
      BY DEF Sealed
    <2>1. k \in DOMAIN hist /\ hist[k].kind = "checkpoint"
      BY <1>5
    <2>2. d \in DOMAIN hist
      BY <1>0, <2>1
    <2>3. hist[d].kind \in CallKinds
      BY <1>0, <2>2 DEF Extends
    <2>4. Superseded(hist, d) \/ \E o \in Outputs(hist, d) : o < k
      BY <2>1, <2>2, <2>3 DEF AnswersInv, Sealed
    <2>5. Outputs(hist, d) \subseteq Outputs(hist', d)
      BY <1>0 DEF Extends, Outputs
    <2> QED BY <1>0, <2>4, <2>5, StaleStays
  <1> QED BY <1>3, <1>4, <1>6, <1>7 DEF AnswersInv

\* So does a checkpoint, when no call of the newest request is unanswered.
LEMMA CheckpointKeeps ==
    ASSUME TypeOK, AnswersInv, NEW req, Rec("checkpoint", req, 0) \in Record,
           hist' = Append(hist, Rec("checkpoint", req, 0)),
           \A c \in DOMAIN hist : hist[c].kind \in CallKinds =>
              Superseded(hist, c) \/ Outputs(hist, c) # {}
    PROVE  AnswersInv'
  <1> DEFINE n == Len(hist) + 1
  <1> DEFINE r == Rec("checkpoint", req, 0)
  <1>a. r \in Record /\ r.kind = "checkpoint" /\ r.ref = 0 /\ hist' = Append(hist, r)
    BY DEF Rec
  <1> HIDE DEF r
  <1>0. /\ hist \in Seq(Record) /\ DOMAIN hist = 1..Len(hist) /\ Len(hist) \in Nat
        /\ Extends(hist, hist')
        /\ hist'[n] = r /\ DOMAIN hist' = DOMAIN hist \cup {n}
        /\ n \notin DOMAIN hist /\ n # 0 /\ n > 0 /\ \A i \in DOMAIN hist : i < n /\ i # 0
    BY <1>a, QuietAppend DEF TypeOK
  <1> HIDE DEF n
  <1>1. \A d : d # 0 => Outputs(hist', d) = Outputs(hist, d)
    BY <1>a, <1>0 DEF Extends, Outputs
  <1>2. \A d, o : d # 0 /\ o \in Outputs(hist', d) => o \in DOMAIN hist
    BY <1>1 DEF Outputs
  <1>3. RefsInv'
    <2> SUFFICES ASSUME NEW i \in DOMAIN hist'
                 PROVE  /\ hist'[i].ref < i
                        /\ hist'[i].ref # 0 =>
                              \/ hist'[i].kind = "output"
                              \/ /\ hist'[i].kind = "late"
                                 /\ Superseded(hist', hist'[i].ref)
      BY DEF RefsInv
    <2>1. CASE i \in DOMAIN hist
      <3>1. hist'[i] = hist[i]
        BY <1>0, <2>1 DEF Extends
      <3>2. /\ hist[i].ref < i
            /\ hist[i].ref # 0 =>
                  \/ hist[i].kind = "output"
                  \/ hist[i].kind = "late" /\ Superseded(hist, hist[i].ref)
        BY <2>1 DEF AnswersInv, RefsInv
      <3> QED BY <1>0, <3>1, <3>2, StaleStays
    <2>2. CASE i = n
      BY <1>a, <1>0, <2>2
    <2> QED BY <1>0, <2>1, <2>2
  <1>4. Unique'
    <2> SUFFICES ASSUME NEW d \in DOMAIN hist', NEW i \in Outputs(hist', d),
                        NEW j \in Outputs(hist', d)
                 PROVE  i = j
      BY DEF Unique
    <2>1. d # 0 /\ i \in Outputs(hist, d) /\ j \in Outputs(hist, d)
      BY <1>0, <1>1
    <2>2. CASE d \in DOMAIN hist
      BY <2>1, <2>2 DEF AnswersInv, Unique
    <2>3. CASE d = n
      <3>1. i \in DOMAIN hist /\ hist[i].ref = n
        BY <2>1, <2>3 DEF Outputs
      <3>2. n < i
        BY <3>1 DEF AnswersInv, RefsInv
      <3>3. i < n /\ i \in Nat /\ n \in Nat
        BY <1>0, <3>1 DEF n
      <3> QED BY <3>2, <3>3
    <2> QED BY <1>0, <2>2, <2>3
  <1>5. CheckpointKeepsPairs'
    <2> SUFFICES ASSUME NEW k \in DOMAIN hist', hist'[k].kind = "checkpoint",
                        NEW d \in 1..k, NEW o \in Outputs(hist', d)
                 PROVE  o < k
      BY DEF CheckpointKeepsPairs
    <2>1. o \in DOMAIN hist /\ o \in Outputs(hist, d)
      BY <1>1, <1>2
    <2>2. CASE k \in DOMAIN hist
      BY <1>0, <2>1, <2>2 DEF AnswersInv, CheckpointKeepsPairs, Extends
    <2>3. CASE k = n
      BY <1>0, <2>1, <2>3
    <2> QED BY <1>0, <2>2, <2>3
  <1>6. Sealed'
    <2> SUFFICES ASSUME NEW k \in DOMAIN hist', hist'[k].kind = "checkpoint",
                        NEW d \in DOMAIN hist', d < k, hist'[d].kind \in CallKinds
                 PROVE  Superseded(hist', d) \/ \E o \in Outputs(hist', d) : o < k
      BY DEF Sealed
    <2>1. d \in DOMAIN hist
      <3>1. d # n
        BY <1>a, <1>0 DEF CallKinds
      <3> QED BY <1>0, <3>1
    <2>2. hist[d].kind \in CallKinds /\ d # 0
      BY <1>0, <2>1 DEF Extends
    <2>3. CASE k \in DOMAIN hist
      <3>1. Superseded(hist, d) \/ \E o \in Outputs(hist, d) : o < k
        BY <1>0, <2>1, <2>2, <2>3 DEF AnswersInv, Sealed, Extends
      <3> QED BY <1>0, <1>1, <2>2, <3>1, StaleStays
    <2>4. CASE k = n
      <3>1. Superseded(hist, d) \/ \E o : o \in Outputs(hist, d)
        BY <2>1, <2>2
      <3>2. \A o \in Outputs(hist, d) : o < k
        BY <1>0, <2>4 DEF Outputs
      <3> QED BY <1>0, <1>1, <2>2, <3>1, <3>2, StaleStays
    <2> QED BY <1>0, <2>3, <2>4
  <1> QED BY <1>3, <1>4, <1>5, <1>6 DEF AnswersInv

-----------------------------------------------------------------------------
(* What a task knows of its calls stays true while others write.           *)

\* From h to g no call of request rec is added, and none of its Controller
\* calls is answered while it is the newest request.
Leaves(h, g, rec) ==
    /\ Extends(h, g)
    /\ \A c \in DOMAIN g \ DOMAIN h : ~CallOf(g, rec, c)
    /\ \A c \in DOMAIN h : CallOf(h, rec, c) /\ h[c].kind = "local" /\ ~Superseded(h, rec)
          => Outputs(g, c) = Outputs(h, c)

\* A call stays a call of its request, and stays settled.
LEMMA CallStays ==
    ASSUME NEW h \in Seq(Record), NEW g \in Seq(Record), Extends(h, g), NEW rec,
           NEW c \in DOMAIN h
    PROVE  /\ CallOf(g, rec, c) <=> CallOf(h, rec, c)
           /\ Settled(h, rec, c) => Settled(g, rec, c)
           /\ Outputs(h, c) \subseteq Outputs(g, c)
  <1>1. DOMAIN h = 1..Len(h) /\ Len(h) \in Nat /\ DOMAIN g \subseteq Nat \ {0}
    OBVIOUS
  <1>2. \A j \in DOMAIN g : j <= c => j \in DOMAIN h
    BY <1>1
  <1>3. /\ DOMAIN h \subseteq DOMAIN g
        /\ \A i \in DOMAIN h : g[i] = h[i]
    BY DEF Extends
  <1>4. CallOf(g, rec, c) <=> CallOf(h, rec, c)
    BY <1>2, <1>3 DEF CallOf
  <1>5. Outputs(h, c) \subseteq Outputs(g, c)
    BY <1>3 DEF Outputs
  <1>6. Settled(h, rec, c) => Settled(g, rec, c)
    BY <1>5, StaleStays DEF Settled
  <1> QED BY <1>4, <1>5, <1>6

LEMMA DueStays ==
    ASSUME NEW h \in Seq(Record), NEW g \in Seq(Record), NEW rec, Leaves(h, g, rec),
           NEW c, Due(h, rec, c)
    PROVE  Due(g, rec, c) /\ c \in DOMAIN h
  <1>1. CallOf(h, rec, c) /\ c \in DOMAIN h /\ Extends(h, g)
    BY DEF Due, CallOf, Leaves
  <1>2. CallOf(g, rec, c)
    BY <1>1, CallStays
  <1>3. g[c] = h[c]
    BY <1>1 DEF Extends
  <1>4. ASSUME g[c].kind = "local", ~Superseded(g, rec) PROVE Outputs(g, c) = {}
    <2>1. ~Superseded(h, rec) /\ h[c].kind = "local"
      BY <1>1, <1>3, <1>4, StaleStays
    <2>2. Outputs(g, c) = Outputs(h, c)
      BY <1>1, <2>1 DEF Leaves
    <2> QED BY <2>1, <2>2 DEF Due
  <1> QED BY <1>1, <1>2, <1>4 DEF Due

\* A record that leaves request rec alone: no call of it, unless it is over,
\* and no output of one of its Controller calls, unless it is over.
LEMMA LeavesAppend ==
    ASSUME NEW h \in Seq(Record), NEW r \in Record, NEW rec,
           r.kind \in CallKinds => Superseded(h, rec),
           r.kind = "output" =>
              \/ Superseded(h, rec)
              \/ r.ref \in DOMAIN h /\ h[r.ref].kind # "local"
    PROVE  Leaves(h, Append(h, r), rec)
  <1> DEFINE n == Len(h) + 1
  <1> DEFINE g == Append(h, r)
  <1>1. /\ g \in Seq(Record) /\ DOMAIN h = 1..Len(h) /\ Len(h) \in Nat
        /\ Extends(h, g) /\ g[n] = r /\ DOMAIN g = DOMAIN h \cup {n}
        /\ n \notin DOMAIN h /\ \A i \in DOMAIN h : i <= n
    BY QuietAppend
  <1> HIDE DEF g, n
  <1>2. ~CallOf(g, rec, n)
    <2> SUFFICES ASSUME CallOf(g, rec, n) PROVE FALSE
      OBVIOUS
    <2>1. Superseded(h, rec)
      BY <1>1 DEF CallOf
    <2>2. PICK j \in DOMAIN h : j > rec /\ IsBoundary(h[j])
      BY <2>1 DEF Superseded
    <2>3. j \in DOMAIN g /\ g[j] = h[j] /\ j <= n
      BY <1>1 DEF Extends
    <2>4. rec < j
      BY <2>2
    <2> QED BY <2>2, <2>3, <2>4 DEF CallOf
  <1>3. ASSUME NEW c \in DOMAIN h, h[c].kind = "local", ~Superseded(h, rec)
        PROVE  Outputs(g, c) = Outputs(h, c)
    <2>1. ~(r.kind = "output" /\ r.ref = c)
      BY <1>3
    <2> QED BY <1>1, <2>1 DEF Extends, Outputs
  <1>4. Leaves(h, g, rec)
    BY <1>1, <1>2, <1>3 DEF Leaves
  <1> QED BY <1>4 DEF g

LEMMA LeavesSilent ==
    ASSUME NEW h \in Seq(Record), NEW g \in Seq(Record), Silent(h, g), NEW rec
    PROVE  Leaves(h, g, rec)
  <1>1. Extends(h, g) /\ DOMAIN h \subseteq Nat \ {0}
    BY DEF Silent, Plain
  <1>2. \A c \in DOMAIN g \ DOMAIN h : ~CallOf(g, rec, c)
    BY DEF Silent, CallOf
  <1>3. \A c \in DOMAIN h : Outputs(g, c) = Outputs(h, c)
    BY <1>1 DEF Silent, Plain, Extends, Outputs
  <1> QED BY <1>1, <1>2, <1>3 DEF Leaves

\* A task with the same calls and the same context knows what it knew.
LEMMA TurnStays ==
    ASSUME NEW h \in Seq(Record), NEW g \in Seq(Record), NEW s, NEW q,
           Leaves(h, g, s.rec), Turn(h, s), s.tail \in Nat,
           q.pc = s.pc, q.rec = s.rec, q.pend = s.pend, q.call = s.call,
           q.back = s.back, q.tail = s.tail
    PROVE  Turn(g, q)
  <1>1. Extends(h, g) /\ DOMAIN h = 1..Len(h) /\ DOMAIN g = 1..Len(g)
        /\ Len(h) \in Nat /\ Len(g) \in Nat
    BY DEF Leaves
  <1>2. Len(h) <= Len(g)
    <2>1. CASE Len(h) = 0
      BY <1>1, <2>1
    <2>2. CASE Len(h) # 0
      <3>1. Len(h) \in DOMAIN g
        BY <1>1, <2>2 DEF Extends
      <3> QED BY <1>1, <3>1
    <2> QED BY <2>1, <2>2
  <1>3. q.tail <= Len(g)
    BY <1>1, <1>2 DEF Turn
  <1>4. \A c \in q.pend : Due(g, q.rec, c)
    BY DueStays DEF Turn
  <1>5. AtCall(q) /\ q.call # 0 => Due(g, q.rec, q.call) /\ q.call \notin q.pend
    BY DueStays DEF Turn, AtCall
  <1>6. ASSUME NEW c \in DOMAIN g, CallOf(g, q.rec, c)
        PROVE  c \in DOMAIN h /\ CallOf(h, s.rec, c)
    <2>1. c \in DOMAIN h
      BY <1>6 DEF Leaves
    <2> QED BY <1>1, <1>6, <2>1, CallStays
  <1>7. ASSUME Settling(q), NEW c \in DOMAIN g, CallOf(g, q.rec, c)
        PROVE  Settled(g, q.rec, c) \/ Owes(q, c)
    <2>1. c \in DOMAIN h /\ CallOf(h, s.rec, c)
      BY <1>6, <1>7
    <2>2. Settled(h, s.rec, c) \/ Owes(s, c)
      BY <1>7, <2>1 DEF Turn, Settling
    <2>3. Owes(s, c) => Owes(q, c)
      BY DEF Owes, AtCall
    <2> QED BY <1>1, <2>1, <2>2, <2>3, CallStays
  <1>8. ASSUME NEW c \in DOMAIN g, CallOf(g, q.rec, c), c <= q.tail
        PROVE  Settled(g, q.rec, c)
    <2>1. c \in DOMAIN h /\ CallOf(h, s.rec, c)
      BY <1>6, <1>8
    <2>2. Settled(h, s.rec, c)
      BY <1>8, <2>1 DEF Turn
    <2> QED BY <1>1, <2>1, <2>2, CallStays
  <1> QED BY <1>3, <1>4, <1>5, <1>7, <1>8 DEF Turn

\* A task that moves on to where it deals with no call, too.
LEMMA TurnRests ==
    ASSUME NEW h \in Seq(Record), NEW g \in Seq(Record), NEW s, NEW q,
           Leaves(h, g, s.rec), Turn(h, s), s.tail \in Nat,
           q.pc \notin CallLabels, q.rec = s.rec, q.pend \in {s.pend, {}},
           q.tail \in {s.tail, 0}
    PROVE  Turn(g, q)
  <1>1. Extends(h, g) /\ DOMAIN h = 1..Len(h) /\ DOMAIN g = 1..Len(g)
        /\ Len(h) \in Nat /\ Len(g) \in Nat
    BY DEF Leaves
  <1>2. Len(h) <= Len(g)
    <2>1. CASE Len(h) = 0
      BY <1>1, <2>1
    <2>2. CASE Len(h) # 0
      <3>1. Len(h) \in DOMAIN g
        BY <1>1, <2>2 DEF Extends
      <3> QED BY <1>1, <3>1
    <2> QED BY <2>1, <2>2
  <1>3. q.tail <= Len(g)
    BY <1>1, <1>2 DEF Turn
  <1>4. \A c \in q.pend : Due(g, q.rec, c)
    BY DueStays DEF Turn
  <1>5. ~AtCall(q) /\ ~Settling(q)
    BY DEF AtCall, Settling, CallLabels
  <1>6. ASSUME NEW c \in DOMAIN g, CallOf(g, q.rec, c), c <= q.tail
        PROVE  Settled(g, q.rec, c)
    <2>1. c \in DOMAIN h
      BY <1>6 DEF Leaves
    <2>2. CallOf(h, s.rec, c)
      BY <1>1, <1>6, <2>1, CallStays
    <2>3. c <= s.tail
      BY <1>1, <1>6, <2>1
    <2>4. Settled(h, s.rec, c)
      BY <2>1, <2>2, <2>3 DEF Turn
    <2> QED BY <1>1, <2>1, <2>4, CallStays
  <1> QED BY <1>3, <1>4, <1>5, <1>6 DEF Turn

\* A task that has just started knows nothing, and need not.
LEMMA TurnStarts ==
    ASSUME NEW h \in Seq(Record), NEW rec, NEW op
    PROVE  Turn(h, NewTask("start", rec, op))
  <1> DEFINE s == NewTask("start", rec, op)
  <1>1. s.pc = "start" /\ s.pend = {} /\ s.tail = 0
    BY DEF NewTask
  <1> HIDE DEF s
  <1>2. Len(h) \in Nat /\ DOMAIN h \subseteq Nat \ {0}
    OBVIOUS
  <1>3. Turn(h, s)
    BY <1>1, <1>2 DEF Turn, AtCall, Settling
  <1> QED BY <1>3 DEF s

-----------------------------------------------------------------------------
(* What a task's own step makes of what it knows.                          *)

\* A call is over when its request is.
LEMMA CallFate ==
    ASSUME NEW h \in Seq(Record), NEW rec \in Nat, NEW c, CallOf(h, rec, c)
    PROVE  c \in DOMAIN h /\ c \in Nat \ {0} /\ (Superseded(h, rec) <=> Superseded(h, c))
  <1>1. c \in DOMAIN h /\ c \in Nat \ {0} /\ rec < c /\ DOMAIN h \subseteq Nat
    BY DEF CallOf
  <1>2. \A j \in DOMAIN h : IsBoundary(h[j]) /\ j > rec => j > c
    BY <1>1 DEF CallOf
  <1>3. \A j \in DOMAIN h : j > c => j > rec
    BY <1>1
  <1> QED BY <1>1, <1>2, <1>3 DEF Superseded

\* The step of task t keeps the answers and what every task knows.
Carries(t) ==
    /\ AnswersInv'
    /\ \A u \in Tasks \ {t} : Live(u) => Leaves(hist, hist', task[u].rec)
    /\ task'[t].pc # "none" => Turn(hist', task'[t])

\* What a task knows, and the types of what it knows it by.
LEMMA Knows ==
    ASSUME CallsInv, NEW t \in Tasks, Live(t)
    PROVE  /\ TypeOK /\ hist \in Seq(Record)
           /\ Turn(hist, task[t])
           /\ task[t].rec \in Nat /\ task[t].tail \in Nat /\ task[t].call \in Nat
           /\ task[t].pend \subseteq Nat
  <1>1. TypeOK /\ task[t] \in TaskState
    BY DEF CallsInv, LoopInv, HistoryInv, TypeOK
  <1>2. hist \in Seq(Record)
    BY <1>1 DEF TypeOK
  <1>3. Turn(hist, task[t])
    BY DEF CallsInv, TurnsInv
  <1> QED BY <1>1, <1>2, <1>3 DEF TaskState

\* Steps that move on to where the task deals with no call.
LEMMA RestCarries ==
    ASSUME CallsInv, NEW t \in Tasks, Live(t), Rests(t),
           Leaves(hist, hist', task[t].rec), TypeOK'
    PROVE  Turn(hist', task'[t])
  <1>1. hist' \in Seq(Record)
    BY DEF TypeOK
  <1> QED BY <1>1, Knows, TurnRests DEF Rests

\* The settling of the saved calls.
LEMMA SettleCarries ==
    ASSUME CallsInv, NEW t \in Tasks, Live(t), hist' = hist, TypeOK',
           Settle(t) \/ SettleNext(t)
    PROVE  Turn(hist', task'[t])
  <1> DEFINE s == task[t]
  <1> DEFINE q == task'[t]
  <1>0. /\ TypeOK /\ hist \in Seq(Record) /\ Turn(hist, s)
        /\ s.rec \in Nat /\ s.tail \in Nat /\ s.call \in Nat /\ s.pend \subseteq Nat
    BY Knows
  <1>1. CASE Rests(t)
    <2>1. Leaves(hist, hist', task[t].rec)
      BY <1>0, SilentSame, LeavesSilent
    <2> QED BY <1>1, <2>1, RestCarries
  <1>2. CASE /\ ~Stale(t) /\ q.pc = "tools" /\ q.rec = s.rec /\ q.tail = s.tail
             /\ q.pend = Unanswered(hist, s.rec)
    <2> HIDE DEF q, s
    <2>1. \A c \in q.pend : Due(hist, q.rec, c)
      <3> SUFFICES ASSUME NEW c \in Unanswered(hist, s.rec) PROVE Due(hist, s.rec, c)
        BY <1>2
      <3>1. /\ c \in DOMAIN hist /\ c > s.rec /\ hist[c].kind \in CallKinds
            /\ Outputs(hist, c) = {}
        BY DEF Unanswered
      <3>2. \A j \in DOMAIN hist : s.rec < j => ~IsBoundary(hist[j])
        BY <1>0, <1>2 DEF Stale, Superseded, s
      <3> QED BY <1>0, <3>1, <3>2 DEF Due, CallOf
    <2>2. ~AtCall(q)
      BY <1>2 DEF AtCall
    <2>3. ASSUME NEW c \in DOMAIN hist, CallOf(hist, q.rec, c)
          PROVE  Settled(hist, q.rec, c) \/ Owes(q, c)
      <3>1. c > s.rec /\ hist[c].kind \in CallKinds
        BY <1>0, <1>2, <2>3 DEF CallOf
      <3>2. Outputs(hist, c) # {} \/ c \in Unanswered(hist, s.rec)
        BY <3>1 DEF Unanswered
      <3> QED BY <1>2, <3>2 DEF Settled, Owes
    <2>4. Turn(hist, q)
      BY <1>0, <1>2, <2>1, <2>2, <2>3 DEF Turn
    <2> QED BY <2>4 DEF q
  <1>3. CASE /\ KeepsTurn(t) /\ s.pc = "tools" /\ q.pc = "context"
             /\ s.pend = {} /\ q.pend = {}
    <2>1. q.rec = s.rec /\ q.tail = s.tail
      BY <1>3 DEF KeepsTurn
    <2> HIDE DEF q, s
    <2>2. ~AtCall(q) /\ ~AtCall(s) /\ Settling(s)
      BY <1>3 DEF AtCall, Settling
    <2>3. ASSUME NEW c \in DOMAIN hist, CallOf(hist, q.rec, c)
          PROVE  Settled(hist, q.rec, c)
      BY <1>0, <1>3, <2>1, <2>2, <2>3 DEF Turn, Owes
    <2>4. Turn(hist, q)
      BY <1>0, <1>3, <2>1, <2>2, <2>3 DEF Turn
    <2> QED BY <2>4 DEF q
  <1>4. ASSUME KeepsTurn(t), s.pc = "tools", NEW c \in s.pend,
               q.call = c, q.pend = s.pend \ {c},
               q.pc \in {"waitcall", "effect"}, q.back = "tools"
        PROVE  Turn(hist', task'[t])
    <2>1. q.rec = s.rec /\ q.tail = s.tail
      BY <1>4 DEF KeepsTurn
    <2> HIDE DEF q, s
    <2>2. AtCall(q) /\ ~AtCall(s) /\ Settling(s)
      BY <1>4 DEF AtCall, Settling
    <2>3. /\ \A d \in q.pend : Due(hist, q.rec, d)
          /\ Due(hist, q.rec, q.call) /\ q.call \notin q.pend
      BY <1>0, <1>4, <2>1 DEF Turn
    <2>4. ASSUME NEW d \in DOMAIN hist, CallOf(hist, q.rec, d)
          PROVE  Settled(hist, q.rec, d) \/ Owes(q, d)
      <3>1. Settled(hist, s.rec, d) \/ Owes(s, d)
        BY <1>0, <2>1, <2>2, <2>4 DEF Turn
      <3>2. Owes(s, d) => Owes(q, d)
        BY <1>4, <2>2 DEF Owes
      <3> QED BY <2>1, <3>1, <3>2
    <2>5. Turn(hist, q)
      BY <1>0, <2>1, <2>3, <2>4 DEF Turn
    <2> QED BY <2>5 DEF q
  <1>5. CASE Settle(t)
    BY <1>0, <1>1, <1>2, <1>5, SettleMove
  <1>6. CASE SettleNext(t)
    BY <1>0, <1>1, <1>3, <1>4, <1>6, SettleNextMove
  <1> QED BY <1>5, <1>6

\* Waiting for a call, and the effect of a Controller tool.
LEMMA WaitCarries ==
    ASSUME CallsInv, NEW t \in Tasks, Live(t), hist' = hist, TypeOK',
           WaitCall(t) \/ ToolEffect(t)
    PROVE  Turn(hist', task'[t])
  <1> DEFINE s == task[t]
  <1> DEFINE q == task'[t]
  <1>0. /\ TypeOK /\ hist \in Seq(Record) /\ Turn(hist, s)
        /\ s.rec \in Nat /\ s.tail \in Nat /\ s.call \in Nat /\ s.pend \subseteq Nat
        /\ RefsInv
    BY Knows DEF CallsInv, AnswersInv
  <1>1. CASE Rests(t)
    <2>1. Leaves(hist, hist', task[t].rec)
      BY <1>0, SilentSame, LeavesSilent
    <2> QED BY <1>1, <2>1, RestCarries
  <1>2. CASE /\ KeepsTurn(t) /\ s.pc = "waitcall" /\ q.pc = "tools"
             /\ Answered(hist, s.call) /\ q.pend = s.pend
    <2>1. q.rec = s.rec /\ q.tail = s.tail
      BY <1>2 DEF KeepsTurn
    <2> HIDE DEF q, s
    <2>2. ~AtCall(q) /\ AtCall(s) /\ Settling(s)
      BY <1>2 DEF AtCall, Settling
    <2>3. ASSUME s.call # 0 PROVE Settled(hist, s.rec, s.call)
      <3>1. CallOf(hist, s.rec, s.call)
        BY <1>0, <2>2, <2>3 DEF Turn, Due
      <3>2. PICK i \in DOMAIN hist : hist[i].ref = s.call
        BY <1>2 DEF Answered
      <3>3. \/ hist[i].kind = "output"
            \/ Superseded(hist, s.call)
        BY <1>0, <2>3, <3>2 DEF RefsInv
      <3> QED BY <1>0, <3>1, <3>2, <3>3, CallFate DEF Settled, Outputs
    <2>4. ASSUME NEW d \in DOMAIN hist, CallOf(hist, q.rec, d)
          PROVE  Settled(hist, q.rec, d) \/ Owes(q, d)
      <3>1. Settled(hist, s.rec, d) \/ Owes(s, d)
        BY <1>0, <2>1, <2>2, <2>4 DEF Turn
      <3>2. d # 0
        BY <1>0
      <3>3. Owes(s, d) => d \in s.pend \/ d = s.call
        BY DEF Owes
      <3>4. d \in s.pend => Owes(q, d)
        BY <1>2 DEF Owes
      <3> QED BY <2>1, <2>3, <3>1, <3>2, <3>3, <3>4
    <2>5. Turn(hist, q)
      BY <1>0, <1>2, <2>1, <2>2, <2>4 DEF Turn
    <2> QED BY <2>5 DEF q
  <1>3. CASE /\ KeepsTurn(t) /\ s.pc \in {"waitcall", "effect"} /\ q.pc = "answer"
             /\ q.call = s.call /\ q.pend = s.pend
             /\ s.pc = "effect" => q.back = s.back
    <2>1. q.rec = s.rec /\ q.tail = s.tail
      BY <1>3 DEF KeepsTurn
    <2> HIDE DEF q, s
    <2>2. AtCall(q) /\ AtCall(s) /\ (Settling(q) => Settling(s))
      BY <1>3 DEF AtCall, Settling
    <2>3. \A d : Owes(s, d) => Owes(q, d)
      BY <1>3, <2>2 DEF Owes
    <2>4. ASSUME Settling(q), NEW d \in DOMAIN hist, CallOf(hist, q.rec, d)
          PROVE  Settled(hist, q.rec, d) \/ Owes(q, d)
      BY <1>0, <2>1, <2>2, <2>3, <2>4 DEF Turn
    <2>5. Turn(hist, q)
      BY <1>0, <1>3, <2>1, <2>2, <2>4 DEF Turn
    <2> QED BY <2>5 DEF q
  <1>4. CASE WaitCall(t)
    BY <1>0, <1>1, <1>2, <1>3, <1>4, WaitCallMove
  <1>5. CASE ToolEffect(t)
    BY <1>0, <1>3, <1>5, ToolMove
  <1> QED BY <1>4, <1>5

\* Compiling a context.
LEMMA ContextCarries ==
    ASSUME CallsInv, NEW t \in Tasks, Live(t), Silent(hist, hist'), TypeOK',
           Context(t) \/ ManualContext(t)
    PROVE  Turn(hist', task'[t])
  <1> DEFINE s == task[t]
  <1> DEFINE q == task'[t]
  <1>0. /\ TypeOK /\ hist \in Seq(Record) /\ Turn(hist, s)
        /\ s.rec \in Nat /\ s.tail \in Nat /\ s.call \in Nat /\ s.pend \subseteq Nat
    BY Knows
  <1>1. hist' \in Seq(Record) /\ Leaves(hist, hist', s.rec) /\ Extends(hist, hist')
    BY <1>0, LeavesSilent DEF TypeOK, Leaves
  <1>2. CASE Rests(t)
    BY <1>1, <1>2, RestCarries
  <1>3. ASSUME q.rec = s.rec, q.pc \in {"infer", "compacting"}, q.pend = s.pend,
               q.tail \in DOMAIN hist',
               \A c \in DOMAIN hist : CallOf(hist, s.rec, c) /\ c <= q.tail =>
                  Settled(hist, s.rec, c)
        PROVE  Turn(hist', task'[t])
    <2> HIDE DEF q, s
    <2>1. q.tail <= Len(hist')
      BY <1>1, <1>3
    <2>2. ~AtCall(q) /\ ~Settling(q)
      BY <1>3 DEF AtCall, Settling
    <2>3. \A c \in q.pend : Due(hist', q.rec, c)
      BY <1>0, <1>1, <1>3, DueStays DEF Turn
    <2>4. ASSUME NEW c \in DOMAIN hist', CallOf(hist', q.rec, c), c <= q.tail
          PROVE  Settled(hist', q.rec, c)
      <3>1. c \in DOMAIN hist
        BY <1>1, <1>3, <2>4 DEF Leaves
      <3>2. CallOf(hist, s.rec, c)
        BY <1>0, <1>1, <1>3, <2>4, <3>1, CallStays
      <3> QED BY <1>0, <1>1, <1>3, <2>4, <3>1, <3>2, CallStays
    <2>5. Turn(hist', q)
      BY <2>1, <2>2, <2>3, <2>4 DEF Turn
    <2> QED BY <2>5 DEF q
  <1>4. CASE Context(t)
    <2>1. CASE /\ s.pc = "context" /\ q.pc \in {"infer", "compacting"}
               /\ q.rec = s.rec /\ q.pend = s.pend /\ q.tail \in DOMAIN hist'
      <3> HIDE DEF s
      <3>1. Settling(s) /\ ~AtCall(s)
        BY <2>1 DEF Settling, AtCall
      <3>2. \A c \in DOMAIN hist : CallOf(hist, s.rec, c) => Settled(hist, s.rec, c)
        BY <1>0, <2>1, <3>1 DEF Turn, Owes
      <3> QED BY <1>3, <2>1, <3>2
    <2> QED BY <1>0, <1>2, <1>4, <2>1, ContextMove
  <1>5. CASE ManualContext(t)
    <2>1. /\ q.rec = s.rec /\ q.pc = "compacting" /\ q.pend = s.pend
          /\ q.tail \in DOMAIN hist /\ q.tail <= s.rec
      BY <1>0, <1>5, ManualMove
    <2>2. q.tail \in DOMAIN hist'
      BY <1>1, <2>1 DEF Extends
    <2>3. \A c \in DOMAIN hist : ~(CallOf(hist, s.rec, c) /\ c <= q.tail)
      <3> HIDE DEF q, s
      <3>1. q.tail \in Nat /\ DOMAIN hist \subseteq Nat
        BY <1>0, <2>1
      <3> QED BY <1>0, <2>1, <3>1 DEF CallOf
    <2> HIDE DEF q, s
    <2> QED BY <1>3, <2>1, <2>2, <2>3
  <1> QED BY <1>4, <1>5

-----------------------------------------------------------------------------
(* The steps that write calls, answers and checkpoints.                    *)

\* A record appended for a task that is not stale leaves the others alone:
\* their requests are over.
LEMMA OthersAreLeft ==
    ASSUME CallsInv, NEW t \in Tasks, Live(t), ~Stale(t), NEW r \in Record,
           hist' = Append(hist, r)
    PROVE  \A u \in Tasks \ {t} : Live(u) => Leaves(hist, hist', task[u].rec)
  <1>1. hist \in Seq(Record)
    BY DEF CallsInv, LoopInv, HistoryInv, TypeOK
  <1> SUFFICES ASSUME NEW u \in Tasks \ {t}, Live(u)
               PROVE  Leaves(hist, hist', task[u].rec)
    OBVIOUS
  <1>2. Superseded(hist, task[u].rec)
    BY OthersAreStale DEF CallsInv
  <1> QED BY <1>1, <1>2, LeavesAppend

\* The cases of append_tool_output_item.
LEMMA AnswerCases ==
    ASSUME CallsInv, NEW t \in Tasks, Answer(t)
    PROVE  LET c == task[t].call
           IN  \/ /\ hist' = hist
                  /\ c # 0 => Settled(hist, task[t].rec, c)
               \/ /\ hist' = Append(hist, Rec("output", task[t].rec, c))
                  /\ c # 0 /\ ~Stale(t) /\ Outputs(hist, c) = {}
               \/ /\ hist' = Append(hist, Rec("late", task[t].rec, c))
                  /\ c # 0 /\ Stale(t)
  <1> DEFINE c == task[t].call
  <1> DEFINE rec == task[t].rec
  <1>1. task[t].pc = "answer" /\ Live(t)
    <2>1. At(t, "answer")
      BY Zenon DEF Answer
    <2> QED BY <2>1 DEF At, Live
  <1>2. /\ hist \in Seq(Record) /\ rec \in Nat /\ c \in Nat
        /\ c # 0 => Due(hist, rec, c)
        /\ RefsInv
    BY <1>1, Knows DEF Turn, AtCall, CallsInv, AnswersInv
  <1>3. hist' = IF c = 0 \/ (c # 0 /\ hist[c].kind = "call" /\ Answered(hist, c)) THEN hist
                ELSE IF ~Stale(t) THEN Append(hist, Rec("output", rec, c))
                ELSE IF c # 0 /\ hist[c].kind = "call" THEN Append(hist, Rec("late", rec, c))
                ELSE hist
    BY DEF Answer
  <1>4. Stale(t) <=> Superseded(hist, rec)
    BY DEF Stale
  <1> HIDE DEF c, rec
  <1>5. CASE c = 0
    BY <1>3, <1>5 DEF c
  <1>6. CASE c # 0
    <2>1. CallOf(hist, rec, c) /\ hist[c].kind \in {"call", "local"}
      BY <1>2, <1>6 DEF Due, CallOf, CallKinds
    <2>2. Superseded(hist, rec) <=> Superseded(hist, c)
      BY <1>2, <2>1, CallFate
    <2>3. ASSUME Answered(hist, c) PROVE Settled(hist, rec, c)
      <3>1. PICK i \in DOMAIN hist : hist[i].ref = c
        BY <2>3 DEF Answered
      <3>2. hist[i].kind = "output" \/ Superseded(hist, c)
        BY <1>2, <1>6, <3>1 DEF RefsInv
      <3> QED BY <2>2, <3>1, <3>2 DEF Settled, Outputs
    <2>4. CASE hist[c].kind = "call" /\ Answered(hist, c)
      BY <1>3, <1>6, <2>3, <2>4 DEF c, rec
    <2>5. CASE ~(hist[c].kind = "call" /\ Answered(hist, c)) /\ ~Stale(t)
      <3>1. Outputs(hist, c) = {}
        <4>1. CASE hist[c].kind = "call"
          BY <2>5, <4>1 DEF Answered, Outputs
        <4>2. CASE hist[c].kind = "local"
          BY <1>2, <1>4, <1>6, <2>5, <4>2 DEF Due
        <4> QED BY <2>1, <4>1, <4>2
      <3> QED BY <1>3, <1>6, <2>5, <3>1 DEF c, rec
    <2>6. CASE ~(hist[c].kind = "call" /\ Answered(hist, c)) /\ Stale(t)
      <3>1. Settled(hist, rec, c)
        BY <1>4, <2>6 DEF Settled
      <3> QED BY <1>3, <1>6, <2>6, <3>1 DEF c, rec
    <2> QED BY <2>4, <2>5, <2>6
  <1> QED BY <1>5, <1>6

\* A task that answered a call goes on; the call is settled now.
LEMMA AnswerTurn ==
    ASSUME CallsInv, NEW t \in Tasks, Answer(t), TypeOK', Extends(hist, hist'),
           \A d \in DOMAIN hist' \ DOMAIN hist : ~CallOf(hist', task[t].rec, d),
           \A d \in task[t].pend : Due(hist', task[t].rec, d),
           task[t].call # 0 => Settled(hist', task[t].rec, task[t].call)
    PROVE  Turn(hist', task'[t])
  <1> DEFINE s == task[t]
  <1> DEFINE q == task'[t]
  <1>1. s.pc = "answer" /\ Live(t)
    <2>1. At(t, "answer")
      BY Zenon DEF Answer
    <2> QED BY <2>1 DEF At, Live
  <1>0. /\ TypeOK /\ hist \in Seq(Record) /\ Turn(hist, s)
        /\ s.rec \in Nat /\ s.tail \in Nat /\ s.call \in Nat /\ s.pend \subseteq Nat
    BY <1>1, Knows
  <1>2. hist' \in Seq(Record) /\ Len(hist) <= Len(hist')
    <2>1. hist' \in Seq(Record)
      BY DEF TypeOK
    <2>2. CASE Len(hist) = 0
      BY <1>0, <2>1, <2>2
    <2>3. CASE Len(hist) # 0
      <3>1. Len(hist) \in DOMAIN hist'
        BY <1>0, <2>3 DEF Extends
      <3> QED BY <1>0, <2>1, <3>1
    <2> QED BY <2>1, <2>2, <2>3
  <1>3. /\ q.rec = s.rec /\ q.tail = s.tail /\ q.pend = s.pend /\ q.pc = s.back
        /\ s.back \in {"none", "tools", "infer"}
    BY <1>0, AnswerMove DEF KeepsTurn
  <1>4. /\ \A d \in s.pend : Due(hist', s.rec, d)
        /\ s.call # 0 => Settled(hist', s.rec, s.call)
        /\ \A d \in DOMAIN hist' \ DOMAIN hist : ~CallOf(hist', s.rec, d)
    OBVIOUS
  <1> HIDE DEF q, s
  <1>5. ~AtCall(q) /\ AtCall(s) /\ (Settling(q) => Settling(s) /\ q.pc = "tools")
    BY <1>1, <1>3 DEF AtCall, Settling
  <1>6. q.tail <= Len(hist')
    BY <1>0, <1>2, <1>3 DEF Turn
  <1>7. ASSUME NEW d \in DOMAIN hist', CallOf(hist', q.rec, d)
        PROVE  d \in DOMAIN hist /\ CallOf(hist, s.rec, d) /\ d # 0
    <2>1. d \in DOMAIN hist
      BY <1>3, <1>4, <1>7
    <2> QED BY <1>0, <1>2, <1>3, <1>7, <2>1, CallStays
  <1>8. ASSUME Settling(q), NEW d \in DOMAIN hist', CallOf(hist', q.rec, d)
        PROVE  Settled(hist', q.rec, d) \/ Owes(q, d)
    <2>1. d \in DOMAIN hist /\ CallOf(hist, s.rec, d) /\ d # 0
      BY <1>7, <1>8
    <2>2. Settled(hist, s.rec, d) \/ d \in s.pend \/ d = s.call
      BY <1>0, <1>5, <1>8, <2>1 DEF Turn, Owes
    <2>3. CASE Settled(hist, s.rec, d)
      BY <1>0, <1>2, <1>3, <2>1, <2>3, CallStays
    <2>4. CASE d \in s.pend
      BY <1>3, <1>5, <1>8, <2>4 DEF Owes
    <2>5. CASE d = s.call
      BY <1>3, <1>4, <2>1, <2>5
    <2> QED BY <2>2, <2>3, <2>4, <2>5
  <1>9. ASSUME NEW d \in DOMAIN hist', CallOf(hist', q.rec, d), d <= q.tail
        PROVE  Settled(hist', q.rec, d)
    <2>1. d \in DOMAIN hist /\ CallOf(hist, s.rec, d)
      BY <1>7, <1>9
    <2>2. Settled(hist, s.rec, d)
      BY <1>0, <1>3, <1>9, <2>1 DEF Turn
    <2> QED BY <1>0, <1>2, <1>3, <2>1, <2>2, CallStays
  <1>10. Turn(hist', q)
    BY <1>3, <1>4, <1>5, <1>6, <1>8, <1>9 DEF Turn
  <1> QED BY <1>10 DEF q

LEMMA AnswerCarries ==
    ASSUME CallsInv, NEW t \in Tasks, Answer(t), TypeOK'
    PROVE  Carries(t)
  <1> DEFINE c == task[t].call
  <1> DEFINE rec == task[t].rec
  <1>1. task[t].pc = "answer" /\ Live(t)
    <2>1. At(t, "answer")
      BY Zenon DEF Answer
    <2> QED BY <2>1 DEF At, Live
  <1>2. /\ TypeOK /\ hist \in Seq(Record) /\ hist' \in Seq(Record)
        /\ rec \in Nat /\ c \in Nat
        /\ c # 0 => Due(hist, rec, c) /\ c \notin task[t].pend
        /\ \A d \in task[t].pend : Due(hist, rec, d)
        /\ AnswersInv
    BY <1>1, Knows DEF Turn, AtCall, CallsInv, TypeOK
  <1>3. CASE hist' = hist /\ (c # 0 => Settled(hist, rec, c))
    <2>1. Silent(hist, hist')
      BY <1>3, SilentSame
    <2>2. AnswersInv'
      BY <1>2, <2>1, PlainKeeps DEF Silent
    <2>3. \A u \in Tasks \ {t} : Live(u) => Leaves(hist, hist', task[u].rec)
      BY <1>2, <2>1, LeavesSilent
    <2>4. Extends(hist, hist')
      BY <2>1 DEF Silent, Plain
    <2>5. Turn(hist', task'[t])
      BY <1>2, <1>3, <2>4, AnswerTurn
    <2> QED BY <2>2, <2>3, <2>5 DEF Carries
  <1>4. CASE /\ c # 0
             /\ \/ /\ hist' = Append(hist, Rec("output", rec, c))
                   /\ ~Stale(t) /\ Outputs(hist, c) = {}
                \/ hist' = Append(hist, Rec("late", rec, c)) /\ Stale(t)
    <2>1. CallOf(hist, rec, c) /\ c \in DOMAIN hist /\ hist[c].kind \in CallKinds
      BY <1>2, <1>4 DEF Due, CallOf
    <2>2. (Stale(t) <=> Superseded(hist, c)) /\ (Stale(t) <=> Superseded(hist, rec))
      BY <1>2, <2>1, CallFate DEF Stale
    <2>3. PICK r : /\ r.ref = c /\ r \in Record /\ hist' = Append(hist, r)
                   /\ \/ r.kind = "output" /\ ~Stale(t) /\ Outputs(hist, c) = {}
                      \/ r.kind = "late" /\ Stale(t)
      <3>1. "output" \in Kinds /\ "late" \in Kinds
        BY DEF Kinds, ProtocolKinds, OwnedKinds
      <3>2. Rec("output", rec, c) \in Record /\ Rec("late", rec, c) \in Record
        BY <1>2, <3>1, RecType
      <3>3. /\ Rec("output", rec, c).kind = "output" /\ Rec("output", rec, c).ref = c
            /\ Rec("late", rec, c).kind = "late" /\ Rec("late", rec, c).ref = c
        BY DEF Rec
      <3> HIDE DEF c, rec
      <3> QED BY <1>4, <3>2, <3>3, Zenon
    <2> HIDE DEF c, rec
    <2>4. AnswersInv'
      BY <1>2, <2>1, <2>2, <2>3, AnswerKeeps
    <2>5. /\ Extends(hist, hist')
          /\ \A d \in DOMAIN hist' \ DOMAIN hist : hist'[d] = r
      BY <1>2, <2>3, QuietAppend, AppendType
    <2>6. r.kind \notin CallKinds
      BY <2>3 DEF CallKinds
    <2>7. \A d \in DOMAIN hist' \ DOMAIN hist : ~CallOf(hist', rec, d)
      BY <2>5, <2>6 DEF CallOf
    <2>8. \A u \in Tasks \ {t} : Live(u) => Leaves(hist, hist', task[u].rec)
      <3>1. CASE ~Stale(t)
        BY <1>1, <2>3, <3>1, OthersAreLeft
      <3>2. CASE Stale(t)
        BY <1>2, <2>3, <2>6, <3>2, LeavesAppend
      <3> QED BY <3>1, <3>2
    <2>9. ASSUME NEW d \in task[t].pend PROVE Due(hist', rec, d)
      <3>1. Due(hist, rec, d) /\ d # c
        BY <1>2, <1>4, <2>9
      <3>2. d \in DOMAIN hist /\ CallOf(hist, rec, d)
        BY <3>1 DEF Due, CallOf
      <3>3. CallOf(hist', rec, d) /\ hist'[d] = hist[d]
        BY <1>2, <2>5, <3>2, CallStays DEF Extends
      <3>4. Outputs(hist', d) = Outputs(hist, d)
        BY <2>3, <2>5, <3>1 DEF Extends, Outputs
      <3>5. ~Superseded(hist', rec) => ~Superseded(hist, rec)
        BY <2>5, StaleStays
      <3> QED BY <3>1, <3>3, <3>4, <3>5 DEF Due
    <2>10. Settled(hist', rec, c)
      <3>1. CASE r.kind = "output"
        <4>1. Len(hist) + 1 \in DOMAIN hist' /\ hist'[Len(hist) + 1] = r
          BY <1>2, <2>3
        <4> QED BY <2>3, <3>1, <4>1 DEF Settled, Outputs
      <3>2. CASE Stale(t)
        BY <2>2, <2>5, <3>2, StaleStays DEF Settled
      <3> QED BY <2>3, <3>1, <3>2
    <2>11. Turn(hist', task'[t])
      BY <1>2, <2>5, <2>7, <2>9, <2>10, AnswerTurn DEF c, rec
    <2> QED BY <2>4, <2>8, <2>11 DEF Carries
  <1>5. \/ hist' = hist /\ (c # 0 => Settled(hist, rec, c))
        \/ /\ c # 0
           /\ \/ /\ hist' = Append(hist, Rec("output", rec, c))
                 /\ ~Stale(t) /\ Outputs(hist, c) = {}
              \/ hist' = Append(hist, Rec("late", rec, c)) /\ Stale(t)
    BY AnswerCases, Zenon
  <1> QED BY <1>3, <1>4, <1>5, Zenon

\* A call that has just arrived has no output yet, and lies behind the
\* context that was compiled.
LEMMA StreamCarries ==
    ASSUME CallsInv, NEW t \in Tasks, NEW kind \in {"message", "call", "local"},
           StreamItem(t, kind), TypeOK'
    PROVE  Carries(t)
  <1> DEFINE s == task[t]
  <1> DEFINE q == task'[t]
  <1>1. task[t].pc = "infer" /\ Live(t)
    <2>1. At(t, "infer")
      BY Zenon DEF StreamItem
    <2> QED BY <2>1 DEF At, Live
  <1>0. /\ TypeOK /\ hist \in Seq(Record) /\ hist' \in Seq(Record) /\ Turn(hist, s)
        /\ s.rec \in Nat /\ s.tail \in Nat /\ s.pend \subseteq Nat
        /\ AnswersInv
    BY <1>1, Knows DEF CallsInv, TypeOK
  <1>2. /\ q.rec = s.rec /\ q.tail = s.tail /\ q.pend = s.pend
        /\ \/ q.pc \in {"infer", "enqueue"}
           \/ /\ q.pc = "effect" /\ q.back = "infer" /\ kind = "local"
              /\ q.call = IF Stale(t) THEN 0 ELSE Len(hist) + 1
    BY <1>0, StreamMove DEF KeepsTurn
  <1>3. ~Settling(q) /\ (AtCall(q) => kind = "local"
                            /\ q.call = IF Stale(t) THEN 0 ELSE Len(hist) + 1)
    BY <1>2 DEF Settling, AtCall
  <1>4. CASE Stale(t)
    <2>1. hist' = hist
      BY <1>4 DEF StreamItem
    <2>2. Silent(hist, hist')
      BY <2>1, SilentSame
    <2>3. AnswersInv'
      BY <1>0, <2>2, PlainKeeps DEF Silent
    <2>4. \A u \in Tasks \ {t} : Live(u) => Leaves(hist, hist', task[u].rec)
      BY <1>0, <2>2, LeavesSilent
    <2>5. AtCall(q) => q.call = 0
      BY <1>3, <1>4
    <2> HIDE DEF q, s
    <2>6. Turn(hist, q)
      BY <1>0, <1>2, <1>3, <2>5 DEF Turn
    <2>7. Turn(hist', task'[t])
      BY <2>1, <2>6 DEF q
    <2> QED BY <2>3, <2>4, <2>7 DEF Carries
  <1>5. CASE ~Stale(t)
    <2> DEFINE n == Len(hist) + 1
    <2> DEFINE r == Rec(kind, s.rec, 0)
    <2>1. hist' = Append(hist, r)
      BY <1>5 DEF StreamItem
    <2>2. /\ kind \in Kinds /\ kind # "checkpoint"
      BY DEF Kinds, ProtocolKinds, OwnedKinds, CallKinds
    <2>3. r \in Record /\ r.kind = kind /\ r.ref = 0
      BY <1>0, <2>2, RecType DEF Rec
    <2>4. Plain(hist, hist')
      BY <1>0, <2>1, <2>2, <2>3, PlainAppend
    <2>5. AnswersInv'
      BY <1>0, <2>4, PlainKeeps
    <2>6. \A u \in Tasks \ {t} : Live(u) => Leaves(hist, hist', task[u].rec)
      BY <1>1, <1>5, <2>1, <2>3, OthersAreLeft
    <2> HIDE DEF r
    <2>7. /\ Extends(hist, hist') /\ hist'[n] = r /\ DOMAIN hist' = DOMAIN hist \cup {n}
          /\ n \notin DOMAIN hist /\ DOMAIN hist' = 1..n /\ Len(hist) < n
          /\ Len(hist) \in Nat /\ n \in Nat /\ Len(hist') = n
      BY <1>0, <2>1, <2>3, QuietAppend
    <2>8. \A c : c # 0 => Outputs(hist', c) = Outputs(hist, c)
      BY <1>0, <2>4, PlainAnswers
    <2>9. ~Superseded(hist, s.rec)
      BY <1>5 DEF Stale
    <2>10. s.rec \in DOMAIN hist
      BY <1>1 DEF CallsInv, LoopInv, HistoryInv, RequestsExist, IsRequest
    <2>11. \A j \in DOMAIN hist' : j > s.rec => ~IsBoundary(hist'[j])
      <3>1. ~IsBoundary(r)
        BY <2>3 DEF IsBoundary, BoundaryKinds
      <3> QED BY <2>7, <2>9, <3>1 DEF Extends, Superseded
    <2>12. \A d : Due(hist, s.rec, d) => Due(hist', s.rec, d) /\ d \in DOMAIN hist
      <3> SUFFICES ASSUME NEW d, Due(hist, s.rec, d)
                   PROVE  Due(hist', s.rec, d) /\ d \in DOMAIN hist
        OBVIOUS
      <3>1. d \in DOMAIN hist /\ d # 0 /\ CallOf(hist, s.rec, d)
        BY <1>0 DEF Due, CallOf
      <3>2. CallOf(hist', s.rec, d) /\ hist'[d] = hist[d]
        BY <1>0, <2>7, <3>1, CallStays DEF Extends
      <3> QED BY <2>8, <2>9, <3>1, <3>2 DEF Due
    <2>13. ASSUME kind = "local" PROVE Due(hist', s.rec, n) /\ n \notin s.pend
      <3>1. hist'[n].kind \in CallKinds /\ s.rec < n
        BY <1>0, <2>3, <2>7, <2>10, <2>13 DEF CallKinds
      <3>2. CallOf(hist', s.rec, n)
        BY <1>0, <2>7, <2>11, <3>1 DEF CallOf
      <3>3. Outputs(hist, n) = {}
        <4>1. \A i \in DOMAIN hist : hist[i].ref < i
          BY <1>0 DEF AnswersInv, RefsInv
        <4>2. \A i \in DOMAIN hist : i < n /\ hist[i].ref # n
          BY <1>0, <2>7, <4>1
        <4> QED BY <4>2 DEF Outputs
      <3>4. n \notin s.pend
        BY <1>0, <2>7, <2>12 DEF Turn
      <3> QED BY <2>7, <2>8, <3>2, <3>3, <3>4 DEF Due
    <2>14. AtCall(q) => kind = "local" /\ q.call = n
      BY <1>3, <1>5
    <2> HIDE DEF q, s, n
    <2>15. /\ \A d \in q.pend : Due(hist', q.rec, d)
           /\ AtCall(q) => Due(hist', q.rec, q.call) /\ q.call \notin q.pend
      BY <1>0, <1>2, <2>12, <2>13, <2>14 DEF Turn
    <2>16. q.tail <= Len(hist) /\ q.tail <= Len(hist')
      BY <1>0, <1>2, <2>7 DEF Turn
    <2>17. ASSUME NEW d \in DOMAIN hist', CallOf(hist', q.rec, d), d <= q.tail
           PROVE  Settled(hist', q.rec, d)
      <3>1. d \in DOMAIN hist
        BY <1>0, <1>2, <2>7, <2>16, <2>17
      <3>2. CallOf(hist, s.rec, d)
        BY <1>0, <1>2, <2>7, <2>17, <3>1, CallStays
      <3>3. Settled(hist, s.rec, d)
        BY <1>0, <1>2, <2>17, <3>1, <3>2 DEF Turn
      <3> QED BY <1>0, <1>2, <2>7, <3>1, <3>3, CallStays
    <2>18. Turn(hist', q)
      BY <1>3, <2>15, <2>16, <2>17 DEF Turn
    <2>19. Turn(hist', task'[t])
      BY <2>18 DEF q
    <2> QED BY <2>5, <2>6, <2>19 DEF Carries
  <1> QED BY <1>4, <1>5

\* A checkpoint covers the whole history, and so only settled calls.
LEMMA CheckpointCarries ==
    ASSUME CallsInv, NEW t \in Tasks, Checkpoint(t), TypeOK'
    PROVE  Carries(t)
  <1> DEFINE s == task[t]
  <1> DEFINE r == Rec("checkpoint", s.rec, 0)
  <1>1. Live(t)
    <2>1. At(t, "checkpoint")
      BY Zenon DEF Checkpoint
    <2> QED BY <2>1 DEF At, Live
  <1>0. /\ TypeOK /\ hist \in Seq(Record) /\ hist' \in Seq(Record) /\ Turn(hist, s)
        /\ s.rec \in Nat /\ s.tail \in Nat /\ s.pend \subseteq Nat
        /\ AnswersInv
    BY <1>1, Knows DEF CallsInv, TypeOK
  <1>2. Rests(t)
    BY <1>0, OtherMoves
  <1>3. \/ hist' = hist
        \/ /\ ~Stale(t) /\ IsTail(hist, Len(hist), s.tail) /\ hist' = Append(hist, r)
    BY Zenon DEF Checkpoint, durable
  <1>4. CASE hist' = hist
    <2>1. Silent(hist, hist')
      BY <1>4, SilentSame
    <2>2. AnswersInv'
      BY <1>0, <2>1, PlainKeeps DEF Silent
    <2>3. \A u \in Tasks : Leaves(hist, hist', task[u].rec)
      BY <1>0, <2>1, LeavesSilent
    <2>4. Turn(hist', task'[t])
      BY <1>1, <1>2, <2>3, RestCarries
    <2> QED BY <2>2, <2>3, <2>4 DEF Carries
  <1>5. CASE /\ ~Stale(t) /\ IsTail(hist, Len(hist), s.tail) /\ hist' = Append(hist, r)
    <2>1. r \in Record /\ r.kind = "checkpoint"
      BY <1>0, RecType DEF Rec, Kinds, ProtocolKinds, OwnedKinds
    <2>2. \A c \in DOMAIN hist : hist[c].kind \in CallKinds =>
             Superseded(hist, c) \/ Outputs(hist, c) # {}
      <3> SUFFICES ASSUME NEW c \in DOMAIN hist, hist[c].kind \in CallKinds
                   PROVE  Superseded(hist, c) \/ Outputs(hist, c) # {}
        OBVIOUS
      <3>1. /\ s.rec \in DOMAIN hist /\ IsBoundary(hist[s.rec])
            /\ ~Superseded(hist, s.rec) /\ c \in Nat
        BY <1>0, <1>1, <1>5 DEF CallsInv, LoopInv, HistoryInv, RequestsExist, IsRequest, Stale
      <3>2. c # s.rec
        BY <3>1 DEF IsBoundary, BoundaryKinds, CallKinds
      <3>3. CASE c < s.rec
        BY <1>0, <3>1, <3>3 DEF Superseded
      <3>4. CASE c > s.rec
        <4>1. CallOf(hist, s.rec, c)
          BY <1>0, <3>1, <3>4 DEF CallOf, Superseded
        <4>2. IsProtocol(hist[c])
          BY DEF IsProtocol, ProtocolKinds, OwnedKinds
        <4>3. c <= s.tail
          BY <1>0, <1>5, <4>2 DEF IsTail
        <4>4. Settled(hist, s.rec, c)
          BY <1>0, <4>1, <4>3 DEF Turn
        <4> QED BY <3>1, <4>4 DEF Settled
      <3> HIDE DEF s
      <3> QED BY <1>0, <3>1, <3>2, <3>3, <3>4
    <2>3. AnswersInv'
      BY <1>0, <1>5, <2>1, <2>2, CheckpointKeeps
    <2>4. r.kind \notin CallKinds /\ r.kind # "output"
      BY <2>1 DEF CallKinds
    <2> HIDE DEF r
    <2>5. \A u \in Tasks : Leaves(hist, hist', task[u].rec)
      BY <1>0, <1>5, <2>1, <2>4, LeavesAppend
    <2>6. Turn(hist', task'[t])
      BY <1>1, <1>2, <2>5, RestCarries
    <2> QED BY <2>3, <2>5, <2>6 DEF Carries
  <1> QED BY <1>3, <1>4, <1>5

\* The continuation adds a record of its own, and none about calls.
LEMMA DecideCarries ==
    ASSUME CallsInv, NEW t \in Tasks, Decide(t), TypeOK'
    PROVE  Carries(t)
  <1>1. Live(t)
    <2>1. At(t, "decide")
      BY Zenon DEF Decide
    <2> QED BY <2>1 DEF At, Live
  <1>0. /\ TypeOK /\ hist \in Seq(Record) /\ task[t].rec \in Nat /\ AnswersInv
        /\ hist' \in Seq(Record)
    BY <1>1, Knows DEF CallsInv, TypeOK
  <1>2. Rests(t)
    BY <1>0, OtherMoves
  <1>3. \/ hist' = hist
        \/ \E kind \in {"nudge", "stopped"} : hist' = Append(hist, Rec(kind, task[t].rec, 0))
    BY Zenon DEF Decide
  <1>4. Plain(hist, hist') /\ \A u \in Tasks : Leaves(hist, hist', task[u].rec)
    <2>1. CASE hist' = hist
      BY <1>0, <2>1, SilentSame, LeavesSilent DEF Silent
    <2>2. ASSUME NEW kind \in {"nudge", "stopped"},
                 hist' = Append(hist, Rec(kind, task[t].rec, 0))
          PROVE  Plain(hist, hist') /\ \A u \in Tasks : Leaves(hist, hist', task[u].rec)
      <3> DEFINE r == Rec(kind, task[t].rec, 0)
      <3>1. r \in Record /\ r.kind = kind
        BY <1>0, RecType DEF Rec, Kinds
      <3>2. kind # "checkpoint" /\ kind \notin CallKinds /\ kind # "output"
        BY DEF CallKinds
      <3>3. Plain(hist, hist')
        BY <1>0, <2>2, <3>1, <3>2, PlainAppend
      <3> HIDE DEF r
      <3>4. \A u \in Tasks : Leaves(hist, Append(hist, r), task[u].rec)
        BY <1>0, <3>1, <3>2, LeavesAppend
      <3> QED BY <2>2, <3>3, <3>4 DEF r
    <2> QED BY <1>3, <2>1, <2>2
  <1>5. AnswersInv'
    BY <1>0, <1>4, PlainKeeps
  <1>6. Turn(hist', task'[t])
    BY <1>1, <1>2, <1>4, RestCarries
  <1> QED BY <1>4, <1>5, <1>6 DEF Carries

-----------------------------------------------------------------------------
(* The invariant, and what it says of the calls.                           *)

LEMMA TaskCarries ==
    ASSUME CallsInv, NEW t \in Tasks, TypeOK',
           Run(t) \/ Ending(t) \/ ClearCurrent(t) \/ StorageError(t) \/ Panic(t)
    PROVE  Carries(t)
  <1>0. TypeOK /\ RequestsExist /\ AnswersInv /\ hist \in Seq(Record) /\ hist' \in Seq(Record)
    BY DEF CallsInv, LoopInv, HistoryInv, TypeOK
  <1>1. KeepsRequest(t)
    BY <1>0, ReadersKeep, WritersKeep, EndsKeep, ConcludersKeep, Zenon
    DEF Run, CallsInv, LoopInv, HistoryInv
  <1>2. ASSUME Silent(hist, hist'), task'[t].pc # "none" => Turn(hist', task'[t])
        PROVE  Carries(t)
    <2>1. AnswersInv'
      BY <1>0, <1>2, PlainKeeps DEF Silent
    <2>2. \A u \in Tasks : Leaves(hist, hist', task[u].rec)
      BY <1>0, <1>2, LeavesSilent
    <2> QED BY <1>2, <2>1, <2>2 DEF Carries
  <1>3. ASSUME Silent(hist, hist'), Rests(t) PROVE Carries(t)
    <2>1. Leaves(hist, hist', task[t].rec)
      BY <1>0, <1>3, LeavesSilent
    <2>2. ASSUME task'[t].pc # "none" PROVE Turn(hist', task'[t])
      <3>1. Live(t)
        BY <1>1, <2>2 DEF KeepsRequest
      <3> QED BY <1>3, <2>1, <3>1, RestCarries
    <2> QED BY <1>2, <1>3, <2>2
  <1>4. CASE \/ Load(t) \/ Wait(t) \/ Waited(t) \/ StreamEnqueue(t) \/ StreamError(t)
             \/ \E endTurn \in BOOLEAN : Complete(t, endTurn)
             \/ Responded(t) \/ Retry(t) \/ Compacting(t)
             \/ FinalizeSuccess(t) \/ FinalizeFailure(t) \/ Ending(t) \/ StorageError(t)
    <2>1. Silent(hist, hist')
      BY <1>0, <1>4, SilentTask, Zenon
    <2>2. Rests(t)
      BY <1>0, <1>4, OtherMoves, Zenon
    <2> QED BY <1>3, <2>1, <2>2
  <1>5. CASE ClearCurrent(t) \/ Panic(t)
    <2>1. Silent(hist, hist')
      BY <1>0, <1>5, SilentTask, Zenon
    <2>2. task'[t] \in {NoRun, [NoRun EXCEPT !.rec = task[t].rec]}
      BY <1>0, <1>5 DEF ClearCurrent, Panic, TypeOK
    <2>3. task'[t].pc = "none"
      BY <2>2 DEF NoRun, NewTask
    <2> QED BY <1>2, <2>1, <2>3
  <1>6. CASE Settle(t) \/ SettleNext(t) \/ WaitCall(t) \/ ToolEffect(t)
    <2>1. hist' = hist /\ Live(t)
      <3>1. hist' = hist
        BY <1>6, Zenon DEF Settle, SettleNext, WaitCall, ToolEffect, ReadOnly, durable
      <3>2. At(t, "settle") \/ At(t, "tools") \/ At(t, "waitcall") \/ At(t, "effect")
        BY <1>6, Zenon DEF Settle, SettleNext, WaitCall, ToolEffect
      <3> QED BY <3>1, <3>2 DEF At, Live
    <2>2. Silent(hist, hist')
      BY <2>1, SilentSame
    <2>3. Turn(hist', task'[t])
      BY <1>6, <2>1, SettleCarries, WaitCarries
    <2> QED BY <1>2, <2>2, <2>3
  <1>7. CASE Context(t) \/ ManualContext(t)
    <2>1. Live(t)
      <3>1. At(t, "context") \/ At(t, "manual")
        BY <1>7, Zenon DEF Context, ManualContext
      <3> QED BY <3>1 DEF At, Live
    <2>2. Silent(hist, hist')
      BY <1>0, <1>7, SilentTask, Zenon
    <2>3. Turn(hist', task'[t])
      BY <1>7, <2>1, <2>2, ContextCarries
    <2> QED BY <1>2, <2>2, <2>3
  <1>8. CASE Decide(t)
    BY <1>8, DecideCarries
  <1>9. CASE \/ Answer(t) \/ \E kind \in {"message", "call", "local"} : StreamItem(t, kind)
             \/ Checkpoint(t)
    BY <1>9, AnswerCarries, StreamCarries, CheckpointCarries
  <1> QED BY <1>4, <1>5, <1>6, <1>7, <1>8, <1>9, Zenon DEF Run

\* The first result of a Worker call answers it, or is late.
LEMMA ResultCarries ==
    ASSUME CallsInv, NEW c \in DOMAIN hist, WorkerResult(c)
    PROVE  AnswersInv' /\ \A u \in Tasks : Leaves(hist, hist', task[u].rec)
  <1> DEFINE req == hist[c].req
  <1>1. /\ TypeOK /\ hist \in Seq(Record) /\ Owned(hist) /\ AnswersInv
        /\ c \in Nat /\ hist[c] \in Record
    BY DEF CallsInv, LoopInv, HistoryInv, TypeOK
  <1>2. hist[c].kind = "call" /\ ~Answered(hist, c)
    BY DEF WorkerResult
  <1>3. hist[c].kind \in CallKinds /\ hist[c].kind \in OwnedKinds /\ ~IsBoundary(hist[c])
    BY <1>2 DEF CallKinds, OwnedKinds, IsBoundary, BoundaryKinds
  <1>4. /\ req \in 1..c
        /\ \A j \in DOMAIN hist : req < j /\ j < c => ~IsBoundary(hist[j])
    BY <1>1, <1>3 DEF Owned
  <1> DEFINE kind == IF Superseded(hist, req) THEN "late" ELSE "output"
  <1>5. hist' = Append(hist, Rec(kind, req, c))
    BY DEF WorkerResult
  <1> HIDE DEF req
  <1>6. Superseded(hist, req) <=> Superseded(hist, c)
    <2>1. \A j \in DOMAIN hist : j \in Nat
      BY <1>1
    <2>2. ASSUME NEW j \in DOMAIN hist, j > req, IsBoundary(hist[j]) PROVE j > c
      BY <1>1, <1>3, <1>4, <2>1, <2>2
    <2>3. \A j \in DOMAIN hist : j > c => j > req
      BY <1>1, <1>4, <2>1
    <2> QED BY <2>2, <2>3 DEF Superseded
  <1> DEFINE r == Rec(kind, req, c)
  <1>7. r \in Record /\ r.kind = kind /\ r.ref = c
    <2>1. kind \in Kinds
      BY DEF Kinds, ProtocolKinds, OwnedKinds
    <2> HIDE DEF kind
    <2> QED BY <1>1, <1>4, <2>1, RecType DEF Rec
  <1>8. \/ r.kind = "output" /\ ~Superseded(hist, c)
        \/ r.kind = "late" /\ Superseded(hist, c)
    BY <1>6, <1>7
  <1> HIDE DEF kind, r
  <1>9. hist' = Append(hist, r)
    BY <1>5 DEF r
  <1>10. Outputs(hist, c) = {}
    BY <1>2 DEF Answered, Outputs
  <1>11. AnswersInv'
    BY <1>1, <1>3, <1>7, <1>8, <1>9, <1>10, AnswerKeeps
  <1>12. r.kind \notin CallKinds
    BY <1>8 DEF CallKinds
  <1>13. \A u \in Tasks : Leaves(hist, hist', task[u].rec)
    BY <1>1, <1>2, <1>7, <1>9, <1>12, LeavesAppend
  <1> QED BY <1>11, <1>13

\* A task whose only change is that it is told to stop, or none.
LEMMA SignalKeeps ==
    ASSUME CallsInv, NEW u \in Tasks, Live(u), TypeOK', Leaves(hist, hist', task[u].rec),
           task'[u] = task[u] \/ task'[u] = [task[u] EXCEPT !.sig = TRUE]
    PROVE  Turn(hist', task'[u])
  <1>1. task[u] \in TaskState /\ hist' \in Seq(Record)
    BY DEF CallsInv, LoopInv, HistoryInv, TypeOK
  <1> DEFINE s == task[u]
  <1> DEFINE q == task'[u]
  <1> DEFINE r == [task[u] EXCEPT !.sig = TRUE]
  <1>2. /\ r.pc = s.pc /\ r.rec = s.rec /\ r.pend = s.pend /\ r.call = s.call
        /\ r.back = s.back /\ r.tail = s.tail
    BY <1>1 DEF TaskState
  <1> HIDE DEF r
  <1>3. /\ q.pc = s.pc /\ q.rec = s.rec /\ q.pend = s.pend /\ q.call = s.call
        /\ q.back = s.back /\ q.tail = s.tail
    BY <1>2 DEF r
  <1> QED BY <1>1, <1>3, Knows, TurnStays

\* Handlers, supervisor and crashes start tasks, stop them, or let them be.
LEMMA RestTasks ==
    ASSUME CallsInv, NEW u \in Tasks, Live(u)',
           Handlers \/ Supervisor \/ Crash \/ UNCHANGED vars
    PROVE  \/ Live(u) /\ task'[u] \in {task[u], [task[u] EXCEPT !.sig = TRUE]}
           \/ \E rec \in Nat, op \in Operations : task'[u] = NewTask("start", rec, op)
  <1> DEFINE Goal ==
           \/ Live(u) /\ task'[u] \in {task[u], [task[u] EXCEPT !.sig = TRUE]}
           \/ \E rec \in Nat, op \in Operations : task'[u] = NewTask("start", rec, op)
  <1> SUFFICES Goal
    OBVIOUS
  <1>1. lock.rec \in Nat /\ lock.as \in Operations
    BY DEF CallsInv, LoopInv, HistoryInv, TypeOK, LockState
  <1>2. ASSUME task' = task PROVE Goal
    BY <1>2 DEF Live
  <1>3. ASSUME NEW t \in Tasks, Register(t, lock.rec, lock.as) PROVE Goal
    <2>1. CASE u = t
      BY <1>1, <1>3, <2>1 DEF Register
    <2>2. CASE u # t /\ u = active /\ Live(u)
      BY <1>3, <2>2 DEF Register
    <2>3. CASE u # t /\ ~(u = active /\ Live(u))
      BY <1>3, <2>3 DEF Register, Live
    <2> QED BY <2>1, <2>2, <2>3
  <1>4. ASSUME CancelSignal PROVE Goal
    <2>1. CASE u = active /\ Live(u)
      BY <1>4, <2>1 DEF CancelSignal
    <2>2. CASE ~(u = active /\ Live(u))
      BY <1>4, <2>2 DEF CancelSignal, Live
    <2> QED BY <2>1, <2>2
  <1>5. ASSUME Crash PROVE FALSE
    <2>1. task'[u] = NoRun
      BY <1>5 DEF Crash
    <2> QED BY <2>1 DEF Live, NoRun, NewTask
  <1> HIDE DEF Goal
  <1>6. ASSUME NEW t \in Tasks, EnqueueRegister(t) \/ EnsureRegister(t) PROVE Goal
    <2>1. task' = task \/ Register(t, lock.rec, lock.as)
      BY <1>6, Zenon DEF EnqueueRegister, EnsureRegister
    <2> QED BY <1>2, <1>3, <2>1
  <1>7. ASSUME \/ \E kind \in {"input", "continue", "compact"} :
                     EnqueueCommit(kind) \/ EnqueueDropped(kind)
               \/ CancelCommit \/ CancelDropped \/ EnsureRead \/ UNCHANGED vars
        PROVE  Goal
    <2>1. task' = task
      BY <1>7, Zenon
      DEF EnqueueCommit, EnqueueDropped, CancelCommit, CancelDropped, EnsureRead, vars
    <2> QED BY <1>2, <2>1
  <1> QED BY <1>4, <1>5, <1>6, <1>7, Zenon DEF Handlers, Supervisor

LEMMA CallsInit == Init => CallsInv
  <1> SUFFICES ASSUME Init PROVE CallsInv
    OBVIOUS
  <1>1. DOMAIN hist = {}
    BY DEF Init
  <1>2. \A t \in Tasks : ~Live(t)
    BY DEF Init, Live, NoRun, NewTask
  <1>3. AnswersInv
    BY <1>1 DEF AnswersInv, RefsInv, Unique, CheckpointKeepsPairs, Sealed
  <1> QED BY <1>2, <1>3, LoopInit DEF CallsInv, TurnsInv

LEMMA CallsStep ==
    ASSUME CallsInv, [Next]_vars, UndoesNoStop
    PROVE  CallsInv'
  <1>1. LoopInv /\ LoopInv'
    BY LoopStep DEF CallsInv
  <1>2. /\ TypeOK /\ TypeOK' /\ RequestsExist /\ AnswersInv
        /\ hist \in Seq(Record) /\ hist' \in Seq(Record)
    BY <1>1 DEF CallsInv, LoopInv, HistoryInv, TypeOK
  <1> DEFINE Goal == AnswersInv' /\ TurnsInv'
  <1> SUFFICES Goal
    BY <1>1 DEF CallsInv
  <1>3. ASSUME NEW t \in Tasks,
               Run(t) \/ Ending(t) \/ ClearCurrent(t) \/ StorageError(t) \/ Panic(t)
        PROVE  Goal
    <2>1. Carries(t)
      BY <1>2, <1>3, TaskCarries
    <2>2. KeepsRequest(t)
      BY <1>1, <1>2, <1>3, ReadersKeep, WritersKeep, EndsKeep, ConcludersKeep, Zenon
      DEF Run, LoopInv, HistoryInv
    <2>3. ASSUME NEW u \in Tasks \ {t}, Live(u)' PROVE Turn(hist', task'[u])
      <3>1. task'[u] = task[u] /\ Live(u)
        BY <2>2, <2>3 DEF KeepsRequest, Live
      <3>2. Leaves(hist, hist', task[u].rec)
        BY <2>1, <3>1 DEF Carries
      <3> QED BY <1>2, <3>1, <3>2, SignalKeeps
    <2>4. TurnsInv'
      BY <2>1, <2>3 DEF Carries, TurnsInv, Live
    <2> QED BY <2>1, <2>4 DEF Carries
  <1>4. ASSUME Handlers \/ Supervisor \/ Crash \/ UNCHANGED vars PROVE Goal
    <2>1. Silent(hist, hist')
      BY <1>2, <1>4, SilentRest
    <2>2. AnswersInv'
      BY <1>2, <2>1, PlainKeeps DEF Silent
    <2>3. ASSUME NEW u \in Tasks, Live(u)' PROVE Turn(hist', task'[u])
      <3>1. CASE Live(u) /\ task'[u] \in {task[u], [task[u] EXCEPT !.sig = TRUE]}
        <4>1. Leaves(hist, hist', task[u].rec)
          BY <1>2, <2>1, LeavesSilent
        <4> QED BY <1>2, <3>1, <4>1, SignalKeeps
      <3>2. ASSUME NEW rec \in Nat, NEW op \in Operations,
                   task'[u] = NewTask("start", rec, op)
            PROVE  Turn(hist', task'[u])
        BY <1>2, <3>2, TurnStarts
      <3> QED BY <1>4, <2>3, <3>1, <3>2, RestTasks
    <2> QED BY <2>2, <2>3 DEF TurnsInv
  <1>5. ASSUME NEW c \in DOMAIN hist, WorkerResult(c) PROVE Goal
    <2>1. AnswersInv' /\ \A u \in Tasks : Leaves(hist, hist', task[u].rec)
      BY <1>5, ResultCarries
    <2>2. task' = task
      BY <1>5 DEF WorkerResult
    <2>3. ASSUME NEW u \in Tasks, Live(u)' PROVE Turn(hist', task'[u])
      <3>1. Live(u) /\ task'[u] = task[u]
        BY <2>2, <2>3 DEF Live
      <3> QED BY <1>2, <2>1, <3>1, SignalKeeps
    <2> QED BY <2>1, <2>3 DEF TurnsInv
  <1> HIDE DEF Goal
  <1> QED BY <1>3, <1>4, <1>5, Zenon DEF Next

\* Only a current context lets a task ask the model.
LEMMA AskedByContext ==
    ASSUME CallsInv, [Next]_vars, NEW t \in Tasks,
           task[t].pc = "context", task'[t].pc = "infer"
    PROVE  ~Superseded(hist, task[t].rec)
  <1> DEFINE Goal == ~Superseded(hist, task[t].rec)
  <1> SUFFICES Goal
    OBVIOUS
  <1>0. TypeOK /\ RequestsExist /\ Owned(hist) /\ task \in [Tasks -> TaskState]
    BY DEF CallsInv, LoopInv, HistoryInv, TypeOK
  <1>1. ASSUME NEW u \in Tasks \ {t},
               Run(u) \/ Ending(u) \/ ClearCurrent(u) \/ StorageError(u) \/ Panic(u)
        PROVE  FALSE
    <2>1. KeepsRequest(u)
      BY <1>0, <1>1, ReadersKeep, WritersKeep, EndsKeep, ConcludersKeep, Zenon DEF Run
    <2> QED BY <2>1 DEF KeepsRequest
  <1>2. CASE Context(t)
    <2>1. PICK switched \in Noted(hist) :
             ~Current(switched, task[t].rec) \/ status # "running" => Finish(t, "cancelled")
      BY <1>2, Zenon DEF Context
    <2>2. ~Finish(t, "cancelled")
      BY <1>0 DEF Finish, NewTask
    <2>3. Extends(hist, switched)
      BY <1>0, NotedHistory DEF Quiet, TypeOK
    <2> QED BY <2>1, <2>2, <2>3, StaleStays DEF Current
  <1>3. ~StorageError(t)
    <2> SUFFICES ASSUME StorageError(t) PROVE FALSE
      OBVIOUS
    <2>1. Finish(t, "error")
      BY DEF StorageError, At
    <2> QED BY <1>0, <2>1 DEF Finish, NewTask
  <1>4. ~Panic(t) /\ ~ClearCurrent(t)
    BY <1>0 DEF Panic, ClearCurrent, NoRun, NewTask
  <1>5. ASSUME \/ Load(t) \/ Wait(t) \/ Waited(t) \/ Settle(t) \/ SettleNext(t)
               \/ WaitCall(t) \/ ToolEffect(t) \/ Answer(t) \/ ManualContext(t)
               \/ \E kind \in {"message", "call", "local"} : StreamItem(t, kind)
        PROVE  FALSE
    <2>1. \E pc \in {"start", "wait", "waiting", "settle", "tools", "waitcall", "effect",
                     "answer", "manual", "infer"} : At(t, pc)
      BY <1>5, Zenon
      DEF Load, Wait, Waited, Settle, SettleNext, WaitCall, ToolEffect, Answer,
          ManualContext, StreamItem
    <2> QED BY <2>1 DEF At
  <1>6. ASSUME \/ StreamEnqueue(t) \/ \E endTurn \in BOOLEAN : Complete(t, endTurn)
               \/ StreamError(t) \/ Responded(t) \/ Decide(t) \/ Retry(t)
               \/ Compacting(t) \/ Checkpoint(t)
               \/ FinalizeSuccess(t) \/ FinalizeFailure(t) \/ Ending(t)
        PROVE  FALSE
    <2>1. \E pc \in {"enqueue", "infer", "responded", "decide", "retry", "compacting",
                     "checkpoint", "succeed", "fail", "end"} : At(t, pc)
      BY <1>6, Zenon
      DEF StreamEnqueue, Complete, StreamError, Responded, Decide, Retry, Compacting,
          Checkpoint, FinalizeSuccess, FinalizeFailure, Ending
    <2> QED BY <2>1 DEF At
  <1>7. ASSUME Handlers \/ Supervisor \/ Crash \/ UNCHANGED vars PROVE FALSE
    <2>1. Live(t)'
      BY DEF Live
    <2>2. \/ task'[t] \in {task[t], [task[t] EXCEPT !.sig = TRUE]}
          \/ \E rec \in Nat, op \in Operations : task'[t] = NewTask("start", rec, op)
      BY <1>7, <2>1, RestTasks
    <2>3. [task[t] EXCEPT !.sig = TRUE].pc = task[t].pc
      BY <1>0 DEF TaskState
    <2>4. \A rec \in Nat, op \in Operations : NewTask("start", rec, op).pc = "start"
      BY DEF NewTask
    <2> QED BY <2>2, <2>3, <2>4
  <1>8. ASSUME NEW c \in DOMAIN hist, WorkerResult(c) PROVE FALSE
    BY <1>8 DEF WorkerResult
  <1> HIDE DEF Goal
  <1>9. ASSUME NEW u \in Tasks,
               Run(u) \/ Ending(u) \/ ClearCurrent(u) \/ StorageError(u) \/ Panic(u)
        PROVE  Goal
    <2>1. u = t
      BY <1>1, <1>9
    <2> QED BY <1>2, <1>3, <1>4, <1>5, <1>6, <1>9, <2>1, Zenon DEF Run
  <1> QED BY <1>7, <1>8, <1>9, Zenon DEF Next

\* A call has at most one tool output, whoever may write it: its Worker, the
\* turn that gives up waiting, or one resumed after a crash.
THEOREM CallsAreAnsweredOnce == Spec /\ StopsAreKept => []AnsweredOnce
  <1>1. CallsInv => AnsweredOnce
    <2> SUFFICES ASSUME CallsInv, NEW c \in DOMAIN hist
                 PROVE  Cardinality(Outputs(hist, c)) <= 1
      BY DEF AnsweredOnce
    <2>1. \A i, j \in Outputs(hist, c) : i = j
      BY DEF CallsInv, AnswersInv, Unique
    <2>2. CASE Outputs(hist, c) = {}
      BY <2>2, FS_EmptySet
    <2>3. ASSUME NEW i \in Outputs(hist, c) PROVE Cardinality(Outputs(hist, c)) <= 1
      <3>1. Outputs(hist, c) = {i}
        BY <2>1
      <3>2. Cardinality({i}) = 1
        BY FS_Singleton
      <3> QED BY <3>1, <3>2
    <2> QED BY <2>2, <2>3
  <1>2. CallsInv /\ [Next]_vars /\ [UndoesNoStop]_vars => CallsInv'
    BY CallsStep, UndoesNothing
  <1> QED BY <1>1, <1>2, CallsInit, NoStopUndone, PTL DEF Spec

\* A checkpoint never comes between a call and its output.
THEOREM CheckpointsCoverPairs == Spec /\ StopsAreKept => []CheckpointKeepsPairs
  <1>1. CallsInv => CheckpointKeepsPairs
    BY DEF CallsInv, AnswersInv
  <1>2. CallsInv /\ [Next]_vars /\ [UndoesNoStop]_vars => CallsInv'
    BY CallsStep, UndoesNothing
  <1> QED BY <1>1, <1>2, CallsInit, NoStopUndone, PTL DEF Spec

\* The model is asked again only when every call of the request has its
\* output: those a crash or a newer turn left open were settled first.
THEOREM InferenceIsSettled == Spec /\ StopsAreKept => SettledBeforeInference
  <1> DEFINE Asked(t) == At(t, "context") /\ At(t, "infer")' =>
                            Unanswered(hist, task[t].rec) = {}
  <1>1. CallsInv /\ [Next]_vars => \A t \in Tasks : Asked(t)
    <2> SUFFICES ASSUME CallsInv, [Next]_vars, NEW t \in Tasks,
                        task[t].pc = "context", task'[t].pc = "infer"
                 PROVE  Unanswered(hist, task[t].rec) = {}
      BY DEF At
    <2>1. ~Superseded(hist, task[t].rec)
      BY AskedByContext
    <2>2. Live(t)
      BY DEF Live
    <2>3. /\ hist \in Seq(Record) /\ Turn(hist, task[t]) /\ task[t].rec \in Nat
      BY <2>2, Knows
    <2>4. Settling(task[t]) /\ ~AtCall(task[t])
      BY DEF Settling, AtCall
    <2> SUFFICES ASSUME NEW c \in Unanswered(hist, task[t].rec) PROVE FALSE
      OBVIOUS
    <2>5. /\ c \in DOMAIN hist /\ c > task[t].rec /\ hist[c].kind \in CallKinds
          /\ Outputs(hist, c) = {}
      BY DEF Unanswered
    <2>6. CallOf(hist, task[t].rec, c)
      BY <2>1, <2>3, <2>5 DEF CallOf, Superseded
    <2>7. Settled(hist, task[t].rec, c)
      BY <2>3, <2>4, <2>5, <2>6 DEF Turn, Owes
    <2> QED BY <2>1, <2>5, <2>7 DEF Settled
  <1>2. CallsInv /\ [Next]_vars /\ [UndoesNoStop]_vars => CallsInv'
    BY CallsStep, UndoesNothing
  <1>3. \A t \in Tasks : Asked(t) <=> (At(t, "context") /\ At(t, "infer")' =>
                            Unanswered(hist, task[t].rec) = {})
    OBVIOUS
  <1> QED BY <1>1, <1>2, CallsInit, NoStopUndone, PTL DEF Spec, SettledBeforeInference
=============================================================================
