---------------------------- MODULE ContextProofs ----------------------------
(***************************************************************************)
(* Theorems about ContextCompile, for any targets, call ids and Manuals    *)
(* and histories of any length; and about the components that              *)
(* MCThreadTurns puts side by side.                                        *)
(***************************************************************************)
EXTENDS MCThreadTurns, ResponseProofs, FiniteSetTheorems, WellFoundedInduction, TLAPS

-----------------------------------------------------------------------------
(* What is built from data: the newest of some places, a list of a set.    *)

\* Where the records of two lists stand in the one made of both.
LEMMA ConcatPlaces ==
    ASSUME NEW S, NEW s \in Seq(S), NEW t \in Seq(S)
    PROVE  /\ s \o t \in Seq(S) /\ Len(s \o t) = Len(s) + Len(t)
           /\ \A i \in 1..Len(s) : (s \o t)[i] = s[i]
           /\ \A i \in 1..Len(t) : (s \o t)[Len(s) + i] = t[i]
  OBVIOUS

\* The notices of one attempt, one for each Manual that needs one.
LEMMA InjectionsList ==
    \E n \in Nat : \E order \in [1..n -> Due] :
       /\ \A m \in Due : \E i \in 1..n : order[i] = m
       /\ Injections = [i \in 1..n |-> Injected(order[i])]
<1> DEFINE n == Cardinality(Due)
           order == SetToSeq(Due)
<1>1. IsFiniteSet(Due)
  BY FS_Subset, ContextAssumption DEF Due
<1>2. n \in Nat /\ ExistsBijection(1..n, Due)
  BY <1>1, FS_CardinalityType
<1>3. \E f \in [1..n -> Due] : IsInjective(f)
  BY <1>2 DEF ExistsBijection, Bijection, Injection, IsInjective
<1>4. order \in [1..n -> Due] /\ IsInjective(order)
  BY <1>3 DEF SetToSeq
<1>5. order \in Injection(1..n, Due)
  BY <1>4 DEF Injection, IsInjective
<1>6. IsFiniteSet(1..n) /\ Cardinality(1..n) = n
  BY <1>2, FS_Interval
<1>7. order \in Surjection(1..n, Due)
  BY <1>1, <1>5, <1>6, FS_Injection
<1>8. \A m \in Due : \E i \in 1..n : order[i] = m
  BY <1>7 DEF Surjection
<1>9. Injections = [i \in 1..n |-> Injected(order[i])]
  BY <1>4 DEF Injections
<1> QED BY <1>2, <1>4, <1>8, <1>9

-----------------------------------------------------------------------------
(* Types.                                                                  *)

\* While a turn works, it knows a target.
Targeted == turn.stage \notin {"none", "start", "order"} => turn.to \in ReplayTargets

TypesInv == CcTypeOK /\ Targeted

\* The history is only appended to.
Grows ==
    /\ ccHist' \in Seq(HistoryRecord) /\ Len(ccHist') >= Len(ccHist)
    /\ \A i \in DOMAIN ccHist : i \in DOMAIN ccHist' /\ ccHist'[i] = ccHist[i]
Fresh == Len(ccHist) + 1..Len(ccHist')

\* The records that steps write.
LEMMA RecordTypes ==
    ASSUME CcTypeOK
    PROVE  /\ \A kind \in {"input", "message", "switch", "checkpoint"} :
                 Plain(kind) \in HistoryRecord
           /\ \A text \in {"text", "bare"} : Sealed("reasoning", text) \in HistoryRecord
           /\ \A id \in CallIds : Sealed("call", id) \in HistoryRecord
           /\ \A r \in HistoryRecord : About("output", r.of, 0) \in HistoryRecord
           /\ \A m \in Manuals : Injected(m) \in HistoryRecord
<1>1. turn.to \in MaybeTarget /\ NoTarget \in MaybeTarget
  BY DEF CcTypeOK, TurnState, MaybeTarget
<1>2. \A m \in Manuals : manual[m].print \in Nat
  BY DEF CcTypeOK
<1> QED BY <1>1, <1>2 DEF Plain, Sealed, About, Injected, HistoryRecord

\* A history that is appended to grows.
LEMMA AppendGrows ==
    ASSUME CcTypeOK, NEW r \in HistoryRecord, ccHist' = Append(ccHist, r)
    PROVE  /\ Grows /\ Len(ccHist') = Len(ccHist) + 1
           /\ ccHist'[Len(ccHist) + 1] = r
           /\ Fresh = {Len(ccHist) + 1}
<1>1. ccHist \in Seq(HistoryRecord)
  BY DEF CcTypeOK
<1> QED BY <1>1 DEF Grows, Fresh

\* A history left alone grows by nothing.
LEMMA SameGrows ==
    ASSUME CcTypeOK, ccHist' = ccHist
    PROVE  Grows /\ Fresh = {}
  BY DEF CcTypeOK, Grows, Fresh

\* The head of the range is a place of the history, if there is any.
LEMMA HeadType ==
    ASSUME CcTypeOK
    PROVE  /\ IdxHead \in Nat \ {0}
           /\ \A i \in DOMAIN ccHist : ccHist[i].kind = "checkpoint" => i <= IdxHead
           /\ IdxHead = 1 \/ (IdxHead \in DOMAIN ccHist /\ ccHist[IdxHead].kind = "checkpoint")
<1> DEFINE cuts == {i \in DOMAIN ccHist : ccHist[i].kind = "checkpoint"}
<1>1. Len(ccHist) \in Nat /\ DOMAIN ccHist = 1..Len(ccHist)
  BY DEF CcTypeOK
<1>2. CASE cuts = {}
  BY <1>2 DEF IdxHead
<1>3. CASE cuts # {}
  <2>1. \E i \in cuts : \A j \in cuts : j <= i
    <3>1. cuts \in SUBSET (1..Len(ccHist))
      BY <1>1
    <3> HIDE DEF cuts
    <3> QED BY <1>1, <1>3, <3>1, NewestPlace
  <2>2. IdxHead \in cuts /\ \A j \in cuts : j <= IdxHead
    BY <1>3, <2>1 DEF IdxHead
  <2> QED BY <1>1, <2>2
<1> QED BY <1>2, <1>3

\* What current_context appends: the barrier, then a notice for each Manual
\* that is due.
LEMMA ContextAppends ==
    ASSUME CcTypeOK, CurrentContext
    PROVE  /\ Grows
           /\ \A i \in Fresh : \/ ccHist'[i] = Plain("switch") /\ NeedsBarrier
                               \/ \E m \in Due : ccHist'[i] = Injected(m)
           /\ NeedsBarrier => \E i \in Fresh : ccHist'[i] = Plain("switch")
           /\ \A m \in Due : \E i \in Fresh : ccHist'[i] = Injected(m)
           /\ turn' = [turn EXCEPT !.stage = "send", !.head = IdxHead,
                         !.tail = Len(ccHist'),
                         !.seen = [m \in Manuals |->
                                     IF IsHeld(m) THEN manual[m].print ELSE 0]]
<1> DEFINE barrier == IF NeedsBarrier THEN <<Plain("switch")>> ELSE <<>>
<1>1. PICK n \in Nat : \E order \in [1..n -> Due] :
         /\ \A m \in Due : \E i \in 1..n : order[i] = m
         /\ Injections = [i \in 1..n |-> Injected(order[i])]
  BY InjectionsList
<1>2. PICK order \in [1..n -> Due] :
         /\ \A m \in Due : \E i \in 1..n : order[i] = m
         /\ Injections = [i \in 1..n |-> Injected(order[i])]
  BY <1>1
<1>3. ccHist \in Seq(HistoryRecord) /\ Due \subseteq Manuals
  BY DEF CcTypeOK, Due
<1>4. Injections \in Seq(HistoryRecord) /\ Len(Injections) = n
  BY <1>2, <1>3, RecordTypes
<1>5. barrier \in Seq(HistoryRecord) /\ Len(barrier) \in {0, 1}
  BY RecordTypes
<1>6. ccHist' = ccHist \o barrier \o Injections
  BY DEF CurrentContext
<1>7. /\ ccHist' \in Seq(HistoryRecord)
      /\ Len(ccHist') = Len(ccHist) + Len(barrier) + n
      /\ \A i \in 1..Len(ccHist) : ccHist'[i] = ccHist[i]
      /\ \A i \in 1..Len(barrier) : ccHist'[Len(ccHist) + i] = barrier[i]
      /\ \A i \in 1..n : ccHist'[Len(ccHist) + Len(barrier) + i] = Injections[i]
  <2> HIDE DEF barrier
  <2> DEFINE front == ccHist \o barrier
  <2>1. /\ front \in Seq(HistoryRecord) /\ Len(front) = Len(ccHist) + Len(barrier)
        /\ \A i \in 1..Len(ccHist) : front[i] = ccHist[i]
        /\ \A i \in 1..Len(barrier) : front[Len(ccHist) + i] = barrier[i]
    BY <1>3, <1>5
  <2>2. ccHist' = front \o Injections
    BY <1>6
  <2> HIDE DEF front
  <2>3. /\ ccHist' \in Seq(HistoryRecord) /\ Len(ccHist') = Len(front) + n
        /\ \A i \in 1..Len(front) : ccHist'[i] = front[i]
        /\ \A i \in 1..n : ccHist'[Len(front) + i] = Injections[i]
    <3>1. front \in Seq(HistoryRecord) /\ Injections \in Seq(HistoryRecord)
      BY <1>4, <2>1
    <3>2. /\ front \o Injections \in Seq(HistoryRecord)
          /\ Len(front \o Injections) = Len(front) + Len(Injections)
          /\ \A i \in 1..Len(front) : (front \o Injections)[i] = front[i]
          /\ \A i \in 1..Len(Injections) :
                (front \o Injections)[Len(front) + i] = Injections[i]
      BY <3>1, ConcatPlaces
    <3>3. Len(Injections) = n
      BY <1>4
    <3> QED BY <2>2, <3>2, <3>3
  <2>4. Len(ccHist) \in Nat /\ Len(barrier) \in Nat
    BY <1>3, <1>5
  <2> QED BY <2>1, <2>3, <2>4
<1>8. Grows
  <2> HIDE DEF barrier
  <2>1. /\ DOMAIN ccHist = 1..Len(ccHist) /\ DOMAIN ccHist' = 1..Len(ccHist')
        /\ Len(ccHist) \in Nat /\ Len(ccHist') \in Nat
    BY <1>3, <1>7
  <2>2. Len(ccHist') >= Len(ccHist)
    BY <1>5, <1>7, <2>1
  <2> QED BY <1>7, <2>1, <2>2 DEF Grows
<1>9. /\ NeedsBarrier => Len(barrier) = 1 /\ barrier[1] = Plain("switch")
      /\ ~NeedsBarrier => Len(barrier) = 0
  OBVIOUS
<1> DEFINE len == Len(ccHist)
           more == Len(barrier)
<1>a. len \in Nat /\ more \in Nat /\ more \in {0, 1} /\ Fresh = len + 1..len + more + n
  <2> HIDE DEF barrier
  <2> QED BY <1>3, <1>5, <1>7 DEF Fresh
<1>b. ASSUME NeedsBarrier
      PROVE  more = 1 /\ ccHist'[len + 1] = Plain("switch")
  <2>1. more = 1 /\ barrier[1] = Plain("switch")
    BY <1>9, <1>b
  <2> HIDE DEF barrier
  <2>2. ccHist'[len + 1] = Plain("switch")
    BY <1>7, <2>1
  <2> QED BY <2>1, <2>2
<1>c. more = 1 => ccHist'[len + 1] = Plain("switch") /\ NeedsBarrier
  <2>1. CASE ~NeedsBarrier
    BY <1>9, <2>1
  <2> QED BY <1>b, <2>1
<1>10. ASSUME NEW i \in Fresh
       PROVE  \/ ccHist'[i] = Plain("switch") /\ NeedsBarrier
              \/ \E m \in Due : ccHist'[i] = Injected(m)
  <2> HIDE DEF barrier, len, more
  <2>1. i \in len + 1..len + more + n
    BY <1>a
  <2>2. CASE i <= len + more
    <3>1. more = 1 /\ i = len + 1
      BY <1>a, <2>1, <2>2
    <3> QED BY <1>c, <3>1
  <2>3. CASE i > len + more
    <3> DEFINE k == i - (len + more)
    <3>1. k \in 1..n /\ i = len + more + k
      BY <1>a, <2>1, <2>3
    <3>2. ccHist'[i] = Injected(order[k])
      BY <1>2, <1>7, <3>1 DEF len, more
    <3> QED BY <1>2, <3>1, <3>2
  <2> QED BY <1>a, <2>1, <2>2, <2>3
<1>11. NeedsBarrier => \E i \in Fresh : ccHist'[i] = Plain("switch")
  <2> SUFFICES ASSUME NeedsBarrier PROVE \E i \in Fresh : ccHist'[i] = Plain("switch")
    OBVIOUS
  <2>1. more = 1
    BY <1>9
  <2>2. ccHist'[len + 1] = Plain("switch")
    BY <1>c, <2>1
  <2> HIDE DEF len, more, barrier
  <2>3. len + 1 \in Fresh
    BY <1>a, <2>1
  <2> QED BY <2>2, <2>3
<1>12. ASSUME NEW m \in Due PROVE \E i \in Fresh : ccHist'[i] = Injected(m)
  <2> HIDE DEF barrier
  <2>1. PICK k \in 1..n : order[k] = m
    BY <1>2
  <2>2. Len(ccHist) + Len(barrier) + k \in Fresh
    BY <1>3, <1>5, <1>7, <2>1 DEF Fresh
  <2>3. ccHist'[Len(ccHist) + Len(barrier) + k] = Injected(m)
    BY <1>2, <1>7, <2>1
  <2> QED BY <2>2, <2>3
<1>13. turn' = [turn EXCEPT !.stage = "send", !.head = IdxHead, !.tail = Len(ccHist'),
                  !.seen = [m \in Manuals |-> IF IsHeld(m) THEN manual[m].print ELSE 0]]
  BY DEF CurrentContext, IsHeld
<1> QED BY <1>8, <1>10, <1>11, <1>12, <1>13

\* The turn takes the model the Thread names now.
LEMMA ModelRead ==
    ASSUME TypesInv, ReadThread
    PROVE  /\ turn' = [turn EXCEPT !.stage = "compile", !.to = <<ccTarget[1], turn.to[2]>>]
           /\ <<ccTarget[1], turn.to[2]>> \in ReplayTargets
<1>1. turn.to \in Models \X Ups /\ ccTarget \in Models \X Ups /\ turn \in TurnState
  BY DEF TypesInv, Targeted, ReadThread, CcTypeOK, ReplayTargets
<1>2. [turn.to EXCEPT ![1] = ccTarget[1]] = <<ccTarget[1], turn.to[2]>>
  BY <1>1
<1>3. turn' = [turn EXCEPT !.stage = "compile", !.to = [turn.to EXCEPT ![1] = ccTarget[1]]]
  BY <1>1 DEF ReadThread, TurnState
<1> QED BY <1>1, <1>2, <1>3 DEF ReplayTargets

\* The turn of each action: it starts again, keeps what it knows, or compiles.
LEMMA TurnStep ==
    ASSUME TypesInv, CcNext
    PROVE  turn' \in TurnState /\ Targeted'
<1> USE DEF TypesInv, CcTypeOK
<1>0. /\ turn \in TurnState /\ NoTurn \in TurnState /\ ccTarget \in MaybeTarget
      /\ NoTurn.stage = "none" /\ NoTurn.to = NoTarget /\ Len(ccHist) \in Nat
      /\ turn.to \in MaybeTarget
  <2>1. NoTurn \in TurnState /\ NoTurn.stage = "none" /\ NoTurn.to = NoTarget
    BY DEF NoTurn, TurnState, MaybeTarget
  <2>2. ccTarget \in MaybeTarget /\ Len(ccHist) \in Nat
    BY DEF MaybeTarget
  <2> QED BY <2>1, <2>2 DEF TurnState
<1>1. ASSUME turn' = turn PROVE turn' \in TurnState /\ Targeted'
  BY <1>0, <1>1 DEF Targeted
<1>2. ASSUME NEW s \in {"none", "start", "order"}, turn' = [NoTurn EXCEPT !.stage = s]
      PROVE  turn' \in TurnState /\ Targeted'
  <2>1. turn' \in TurnState /\ turn'.stage = s
    BY <1>0, <1>2 DEF TurnState
  <2> QED BY <2>1 DEF Targeted
<1>3. ASSUME NEW s \in {"stream", "compact"}, turn' = [turn EXCEPT !.stage = s],
             turn.stage \in {"send", "stream"}
      PROVE  turn' \in TurnState /\ Targeted'
  <2>1. turn' \in TurnState /\ turn'.stage = s /\ turn'.to = turn.to
    BY <1>0, <1>3 DEF TurnState
  <2> QED BY <1>3, <2>1 DEF Targeted
<1>4. ASSUME turn.stage \in {"stream", "compact"}, turn' = [NoTurn EXCEPT !.stage = "read", !.to = turn.to]
      PROVE  turn' \in TurnState /\ Targeted'
  <2>1. turn' \in TurnState /\ turn'.to = turn.to
    BY <1>0, <1>4 DEF TurnState, NoTurn
  <2> QED BY <1>4, <2>1 DEF Targeted
<1>5. CASE LoadTurn
  <2>1. turn' = [turn EXCEPT !.stage = "read", !.to = ccTarget]
    BY <1>5 DEF LoadTurn
  <2>2. turn' \in TurnState /\ turn'.to = ccTarget
    BY <1>0, <2>1 DEF TurnState
  <2> QED BY <2>2 DEF Targeted
<1>6. CASE ReadThread
  <2> DEFINE to == <<ccTarget[1], turn.to[2]>>
  <2>1. turn' = [turn EXCEPT !.stage = "compile", !.to = to] /\ to \in ReplayTargets
    BY <1>6, ModelRead
  <2> HIDE DEF to
  <2>2. turn' \in TurnState /\ turn'.to = to
    BY <1>0, <2>1 DEF TurnState, MaybeTarget
  <2> QED BY <2>1, <2>2 DEF Targeted
<1>7. CASE CurrentContext
  <2> DEFINE seen == [m \in Manuals |-> IF IsHeld(m) THEN manual[m].print ELSE 0]
  <2>1. turn' = [turn EXCEPT !.stage = "send", !.head = IdxHead, !.tail = Len(ccHist'),
                   !.seen = seen]
    BY <1>7, ContextAppends
  <2>2. seen \in [Manuals -> Nat]
    OBVIOUS
  <2>3. IdxHead \in Nat /\ Len(ccHist') \in Nat
    BY <1>7, HeadType, ContextAppends DEF Grows
  <2> HIDE DEF seen
  <2>4. turn' \in TurnState /\ turn'.to = turn.to
    BY <1>0, <2>1, <2>2, <2>3 DEF TurnState
  <2>5. turn.stage = "compile"
    BY <1>7 DEF CurrentContext
  <2> QED BY <2>4, <2>5 DEF Targeted
<1>8. CASE ManualCompact
  <2>1. turn' = [NoTurn EXCEPT !.stage = "manual", !.to = ccTarget, !.tail = Len(ccHist)]
    BY <1>8 DEF ManualCompact
  <2>2. turn' \in TurnState /\ turn'.to = ccTarget
    BY <1>0, <2>1 DEF TurnState, NoTurn
  <2> QED BY <2>2 DEF Targeted
<1>9. CASE WriteCheckpoint
  <2>1. CASE turn.stage = "manual"
    <3>1. turn' = NoTurn
      BY <1>9, <2>1 DEF WriteCheckpoint
    <3> QED BY <1>0, <3>1 DEF Targeted
  <2>2. CASE turn.stage # "manual"
    <3>1. turn.stage = "compact" /\ turn' = [NoTurn EXCEPT !.stage = "read", !.to = turn.to]
      BY <1>9, <2>2 DEF WriteCheckpoint
    <3> QED BY <1>4, <3>1
  <2> QED BY <2>1, <2>2
<1>10. CASE Restart
  <2> DEFINE s == CASE turn.stage = "none" -> "none"
                    [] turn.stage \in {"order", "manual"} -> "order"
                    [] OTHER -> "start"
  <2>1. turn' = [NoTurn EXCEPT !.stage = s]
    BY <1>10 DEF Restart
  <2>2. s \in {"none", "start", "order"}
    OBVIOUS
  <2> QED BY <1>2, <2>1, <2>2
<1>11. CASE NewInput \/ OrderSummary
  BY <1>2, <1>11 DEF NewInput, OrderSummary
<1>12. CASE SendInference
  BY <1>3, <1>12 DEF SendInference
<1>13. CASE Compact
  BY <1>3, <1>13 DEF Compact
<1>14. CASE NextAttempt
  BY <1>4, <1>14 DEF NextAttempt
<1>15. CASE EndTurn
  <2>1. turn' = NoTurn
    BY <1>15 DEF EndTurn
  <2> QED BY <1>0, <2>1 DEF Targeted
<1>16. CASE RecordItem \/ AnswerCall \/ \E m \in Manuals : LoadManual(m) \/ UnloadManual(m)
  BY <1>1, <1>16 DEF RecordItem, AnswerCall, LoadManual, UnloadManual
<1>17. CASE (\E t \in ReplayTargets : SwitchTarget(t)) \/ TitleRead \/ TitleSend
            \/ \E m \in Manuals : EditManual(m) \/ HideManual(m)
  BY <1>1, <1>17 DEF SwitchTarget, TitleRead, TitleSend, EditManual, HideManual
<1> HIDE DEF TypesInv, CcTypeOK
<1> QED BY <1>5, <1>6, <1>7, <1>8, <1>9, <1>10, <1>11, <1>12, <1>13, <1>14, <1>15, <1>16, <1>17
        DEF CcNext, Turn

\* The history of each action.
LEMMA HistoryGrows ==
    ASSUME TypesInv, CcNext
    PROVE  Grows
<1>0. CcTypeOK
  BY DEF TypesInv
<1>1. CASE NewInput
  BY <1>0, <1>1, RecordTypes, AppendGrows DEF NewInput
<1>2. CASE CurrentContext
  BY <1>0, <1>2, ContextAppends
<1>3. CASE RecordItem
  <2>1. \E r \in HistoryRecord : ccHist' = Append(ccHist, r)
    BY <1>0, <1>3, RecordTypes DEF RecordItem
  <2> QED BY <1>0, <2>1, AppendGrows
<1>4. CASE AnswerCall
  <2>1. PICK i \in OpenCalls : ccHist' = Append(ccHist, About("output", ccHist[i].of, 0))
    BY <1>4 DEF AnswerCall
  <2>2. ccHist[i] \in HistoryRecord
    BY <1>0, <2>1 DEF OpenCalls, CcTypeOK
  <2> QED BY <1>0, <2>1, <2>2, RecordTypes, AppendGrows
<1>5. CASE WriteCheckpoint
  BY <1>0, <1>5, RecordTypes, AppendGrows DEF WriteCheckpoint
<1>6. CASE ccHist' = ccHist
  BY <1>0, <1>6, SameGrows
<1>7. CASE LoadTurn \/ ReadThread \/ SendInference \/ NextAttempt \/ EndTurn \/ Compact
           \/ OrderSummary \/ ManualCompact \/ Restart \/ TitleRead \/ TitleSend
  BY <1>6, <1>7 DEF LoadTurn, ReadThread, SendInference, NextAttempt, EndTurn, Compact,
       OrderSummary, ManualCompact, Restart, TitleRead, TitleSend
<1>8. CASE (\E t \in ReplayTargets : SwitchTarget(t))
           \/ \E m \in Manuals : EditManual(m) \/ HideManual(m) \/ LoadManual(m) \/ UnloadManual(m)
  BY <1>6, <1>8 DEF SwitchTarget, EditManual, HideManual, LoadManual, UnloadManual
<1> QED BY <1>1, <1>2, <1>3, <1>4, <1>5, <1>7, <1>8 DEF CcNext, Turn

\* The other variables of each action.
LEMMA RestStep ==
    ASSUME CcTypeOK, CcNext
    PROVE  /\ ccTarget' \in ReplayTargets /\ ccAudit' \in MaybeTarget /\ title' \in MaybeTarget
           /\ bound' \subseteq Manuals
           /\ manual' \in [Manuals -> [print : Nat, resolves : BOOLEAN]]
           /\ ccMasked' \subseteq {"race", "unbarred"}
           /\ ccEvents' \in 0..MaxEvents
<1>0. /\ ccTarget \in ReplayTargets /\ ccAudit \in MaybeTarget /\ title \in MaybeTarget
      /\ ccTarget \in MaybeTarget /\ turn.to \in MaybeTarget /\ NoTarget \in MaybeTarget
      /\ bound \subseteq Manuals
      /\ manual \in [Manuals -> [print : Nat, resolves : BOOLEAN]]
      /\ ccMasked \subseteq {"race", "unbarred"}
      /\ ccEvents \in 0..MaxEvents /\ MaxEvents \in Nat
  BY ContextAssumption DEF CcTypeOK, MaybeTarget, TurnState
<1>1. Event => ccEvents' \in 0..MaxEvents
  BY <1>0 DEF Event
<1>2. \A to : Unbarred(to) => ccMasked' \subseteq {"race", "unbarred"}
  BY <1>0 DEF Unbarred
<1>3. CASE \E t \in ReplayTargets : SwitchTarget(t)
  BY <1>0, <1>1, <1>3 DEF SwitchTarget
<1>4. CASE \E m \in Manuals : EditManual(m) \/ HideManual(m)
  <2>1. manual' \in [Manuals -> [print : Nat, resolves : BOOLEAN]]
    <3>1. PICK m \in Manuals : EditManual(m) \/ HideManual(m)
      BY <1>4
    <3>2. manual[m] \in [print : Nat, resolves : BOOLEAN]
      BY <1>0
    <3>3. \/ manual' = [manual EXCEPT ![m] = [manual[m] EXCEPT !.print = @ + 1]]
          \/ manual' = [manual EXCEPT ![m] = [manual[m] EXCEPT !.resolves = ~@]]
      BY <1>0, <3>1, <3>2 DEF EditManual, HideManual
    <3>4. /\ [manual[m] EXCEPT !.print = @ + 1] \in [print : Nat, resolves : BOOLEAN]
          /\ [manual[m] EXCEPT !.resolves = ~@] \in [print : Nat, resolves : BOOLEAN]
      <4>1. \A b \in BOOLEAN : [manual[m] EXCEPT !.resolves = b] \in [print : Nat, resolves : BOOLEAN]
        BY <3>2
      <4>2. (~manual[m].resolves) \in BOOLEAN
        OBVIOUS
      <4>3. [manual[m] EXCEPT !.print = @ + 1] \in [print : Nat, resolves : BOOLEAN]
        BY <3>2
      <4> QED BY <4>1, <4>2, <4>3
    <3> QED BY <1>0, <3>3, <3>4
  <2> QED BY <1>0, <1>1, <1>4, <2>1 DEF EditManual, HideManual
<1>5. CASE NewInput \/ LoadTurn \/ ReadThread \/ SendInference \/ RecordItem \/ AnswerCall
           \/ NextAttempt \/ EndTurn \/ Compact \/ OrderSummary \/ WriteCheckpoint
  BY <1>0, <1>5 DEF NewInput, LoadTurn, ReadThread, SendInference, RecordItem, AnswerCall,
     NextAttempt, EndTurn, Compact, OrderSummary, WriteCheckpoint
<1>6. CASE CurrentContext
  BY <1>0, <1>6 DEF CurrentContext
<1>7. CASE ManualCompact
  BY <1>0, <1>2, <1>7 DEF ManualCompact
<1>8. CASE \E m \in Manuals : LoadManual(m) \/ UnloadManual(m)
  BY <1>0, <1>8 DEF LoadManual, UnloadManual
<1>9. CASE Restart \/ TitleRead
  BY <1>0, <1>1, <1>9 DEF Restart, TitleRead
<1>10. CASE TitleSend
  BY <1>0, <1>2, <1>10 DEF TitleSend
<1> QED BY <1>3, <1>4, <1>5, <1>6, <1>7, <1>8, <1>9, <1>10 DEF CcNext, Turn

LEMMA TypesInit == CcInit => TypesInv
<1> SUFFICES ASSUME CcInit PROVE TypesInv
  OBVIOUS
<1>1. Plain("input") \in HistoryRecord
  BY DEF Plain, HistoryRecord, MaybeTarget
<1>2. NoTurn \in TurnState
  BY DEF NoTurn, TurnState, MaybeTarget
<1>3. turn \in TurnState /\ turn.stage = "start"
  BY <1>2 DEF CcInit, TurnState
<1> QED BY <1>1, <1>3, ContextAssumption
        DEF CcInit, TypesInv, Targeted, CcTypeOK, MaybeTarget

LEMMA TypesStep ==
    ASSUME TypesInv, [CcNext]_ccVars
    PROVE  TypesInv'
<1>1. CASE CcNext
  BY <1>1, TurnStep, HistoryGrows, RestStep DEF TypesInv, CcTypeOK, Grows
<1>2. CASE UNCHANGED ccVars
  BY <1>2 DEF ccVars, TypesInv, CcTypeOK, Targeted
<1> QED BY <1>1, <1>2

\* Every variable of the context of a Thread keeps its type, for any targets,
\* call ids and Manuals and histories of any length.
THEOREM ContextTypes == CcSpec => []CcTypeOK
<1>1. TypesInv => CcTypeOK
  BY DEF TypesInv
<1> QED BY <1>1, TypesInit, TypesStep, PTL DEF CcSpec

-----------------------------------------------------------------------------
(* The range.                                                              *)

\* A request that goes out covers a range of the history, and up to then the
\* whole of it.
RangeInv ==
    /\ TypesInv
    /\ turn.stage \in {"send", "stream"} => turn.head > 0 /\ turn.tail <= Len(ccHist)
    /\ turn.stage = "send" => turn.tail = Len(ccHist)

LEMMA StageNames ==
    ASSUME TypesInv, NEW s \in {"none", "start", "read", "compile", "compact", "order", "manual"}
    PROVE  /\ [turn EXCEPT !.stage = s].stage = s
           /\ [NoTurn EXCEPT !.stage = s].stage = s
           /\ \A to : [turn EXCEPT !.stage = s, !.to = to].stage = s
           /\ \A to : [NoTurn EXCEPT !.stage = s, !.to = to].stage = s
           /\ \A to, tail : [NoTurn EXCEPT !.stage = s, !.to = to, !.tail = tail].stage = s
  BY DEF TypesInv, CcTypeOK, TurnState, NoTurn

\* The stages each action leads from and to.
LEMMA Stages ==
    ASSUME TypesInv
    PROVE  /\ LoadTurn => turn.stage = "start" /\ turn'.stage = "read"
           /\ ReadThread => turn.stage = "read" /\ turn'.stage = "compile" /\ OpenCalls = {}
           /\ CurrentContext => turn.stage = "compile" /\ turn'.stage = "send"
           /\ SendInference => /\ turn.stage = "send" /\ turn'.stage = "stream"
                               /\ turn' = [turn EXCEPT !.stage = "stream"]
           /\ NextAttempt => turn.stage = "stream" /\ turn'.stage = "read"
           /\ EndTurn => turn'.stage = "none"
           /\ Compact => /\ turn.stage = "send" \/ (turn.stage = "stream" /\ Len(ccHist) = turn.tail)
                         /\ turn'.stage = "compact"
           /\ OrderSummary => turn.stage = "none" /\ turn'.stage = "order"
           /\ ManualCompact => turn.stage = "order" /\ turn'.stage = "manual"
           /\ NewInput => turn'.stage = "start"
           /\ WriteCheckpoint => \/ turn.stage = "compact" /\ turn'.stage = "read"
                                 \/ turn.stage = "manual" /\ turn'.stage = "none"
           /\ Restart => \/ turn.stage \in {"none", "order", "manual"} /\ turn'.stage \in {"none", "order"}
                         \/ turn.stage \notin {"none", "order", "manual"} /\ turn'.stage = "start"
<1>0. turn \in TurnState /\ turn.to \in MaybeTarget
  BY DEF TypesInv, CcTypeOK, TurnState
<1>1. LoadTurn => turn.stage = "start" /\ turn'.stage = "read"
  BY StageNames DEF LoadTurn
<1>2. ReadThread => turn.stage = "read" /\ turn'.stage = "compile" /\ OpenCalls = {}
  <2> SUFFICES ASSUME ReadThread
               PROVE  turn.stage = "read" /\ turn'.stage = "compile" /\ OpenCalls = {}
    OBVIOUS
  <2>1. turn'.stage = "compile"
    BY <1>0, ModelRead DEF TurnState
  <2> QED BY <2>1 DEF ReadThread
<1>3. CurrentContext => turn.stage = "compile" /\ turn'.stage = "send"
  BY <1>0 DEF CurrentContext, TurnState
<1>4. SendInference => /\ turn.stage = "send" /\ turn'.stage = "stream"
                       /\ turn' = [turn EXCEPT !.stage = "stream"]
  BY <1>0 DEF SendInference, TurnState
<1>5. NextAttempt => turn.stage = "stream" /\ turn'.stage = "read"
  BY StageNames DEF NextAttempt
<1>6. EndTurn => turn'.stage = "none"
  BY DEF EndTurn, NoTurn
<1>7. Compact => /\ turn.stage = "send" \/ (turn.stage = "stream" /\ Len(ccHist) = turn.tail)
                 /\ turn'.stage = "compact"
  BY StageNames DEF Compact
<1>8. OrderSummary => turn.stage = "none" /\ turn'.stage = "order"
  BY StageNames DEF OrderSummary
<1>9. ManualCompact => turn.stage = "order" /\ turn'.stage = "manual"
  BY StageNames DEF ManualCompact
<1>10. NewInput => turn'.stage = "start"
  BY StageNames DEF NewInput
<1>11. WriteCheckpoint => \/ turn.stage = "compact" /\ turn'.stage = "read"
                          \/ turn.stage = "manual" /\ turn'.stage = "none"
  <2>1. NoTurn.stage = "none"
    BY DEF NoTurn
  <2> QED BY <2>1, StageNames DEF WriteCheckpoint
<1>12. Restart => \/ turn.stage \in {"none", "order", "manual"} /\ turn'.stage \in {"none", "order"}
                  \/ turn.stage \notin {"none", "order", "manual"} /\ turn'.stage = "start"
  <2> SUFFICES ASSUME Restart
               PROVE  \/ turn.stage \in {"none", "order", "manual"} /\ turn'.stage \in {"none", "order"}
                      \/ turn.stage \notin {"none", "order", "manual"} /\ turn'.stage = "start"
    OBVIOUS
  <2> DEFINE s == CASE turn.stage = "none" -> "none"
                    [] turn.stage \in {"order", "manual"} -> "order"
                    [] OTHER -> "start"
  <2>1. turn' = [NoTurn EXCEPT !.stage = s]
    BY DEF Restart
  <2>2. turn'.stage = s
    BY <2>1 DEF NoTurn
  <2> QED BY <2>2
<1> QED BY <1>1, <1>2, <1>3, <1>4, <1>5, <1>6, <1>7, <1>8, <1>9, <1>10, <1>11, <1>12

\* The steps that leave the turn alone, and those that leave the history alone.
TurnAside ==
    \/ \E t \in ReplayTargets : SwitchTarget(t)
    \/ \E m \in Manuals : EditManual(m) \/ HideManual(m) \/ LoadManual(m) \/ UnloadManual(m)
    \/ TitleRead \/ TitleSend
TurnMoves ==
    \/ LoadTurn \/ ReadThread \/ SendInference \/ NextAttempt \/ EndTurn \/ Compact
    \/ OrderSummary \/ ManualCompact \/ Restart

LEMMA Still ==
    /\ TurnAside => turn' = turn /\ ccHist' = ccHist
    /\ TurnMoves => ccHist' = ccHist
<1>1. TurnAside => turn' = turn /\ ccHist' = ccHist
  BY Zenon DEF TurnAside, SwitchTarget, EditManual, HideManual, LoadManual, UnloadManual,
     TitleRead, TitleSend
<1>2. TurnMoves => ccHist' = ccHist
  BY Zenon DEF TurnMoves, LoadTurn, ReadThread, SendInference, NextAttempt, EndTurn, Compact,
     OrderSummary, ManualCompact, Restart
<1> QED BY <1>1, <1>2

LEMMA Steps ==
    [CcNext]_ccVars =>
       \/ TurnAside \/ UNCHANGED ccVars \/ TurnMoves
       \/ NewInput \/ CurrentContext \/ RecordItem \/ AnswerCall \/ WriteCheckpoint
  BY Zenon DEF CcNext, Turn, TurnAside, TurnMoves

LEMMA RangeStep ==
    ASSUME RangeInv, [CcNext]_ccVars
    PROVE  RangeInv'
<1>0. TypesInv /\ TypesInv' /\ CcTypeOK /\ CcTypeOK' /\ turn \in TurnState
  BY TypesStep DEF RangeInv, TypesInv, CcTypeOK
<1>1. CASE TurnAside
  BY <1>0, <1>1, Still DEF RangeInv
<1>2. CASE UNCHANGED ccVars
  BY <1>0, <1>2 DEF RangeInv, ccVars
<1>3. CASE TurnMoves
  <2>1. CASE SendInference
    <3>1. turn'.head = turn.head /\ turn'.tail = turn.tail /\ turn'.stage = "stream"
      BY <1>0, <2>1 DEF SendInference, TurnState
    <3>2. ccHist' = ccHist /\ turn.stage = "send"
      BY <2>1 DEF SendInference
    <3> QED BY <1>0, <3>1, <3>2 DEF RangeInv
  <2>2. CASE ~SendInference
    <3>1. turn'.stage \notin {"send", "stream"}
      BY <1>0, <1>3, <2>2, Stages DEF TurnMoves
    <3> QED BY <1>0, <3>1 DEF RangeInv
  <2> QED BY <2>1, <2>2
<1>4. CASE NewInput \/ WriteCheckpoint
  BY <1>0, <1>4, Stages DEF RangeInv
<1>5. CASE CurrentContext
  <2>1. /\ turn'.head = IdxHead /\ turn'.tail = Len(ccHist')
        /\ IdxHead \in Nat \ {0}
    BY <1>0, <1>5, ContextAppends, HeadType DEF TurnState
  <2> QED BY <1>0, <2>1 DEF RangeInv, CcTypeOK
<1>6. CASE RecordItem \/ AnswerCall
  <2>1. turn' = turn /\ turn.stage \in {"read", "stream"}
    BY <1>6 DEF RecordItem, AnswerCall
  <2>2. Grows
    <3>1. CcNext
      BY <1>6 DEF CcNext, Turn
    <3> QED BY <1>0, <3>1, HistoryGrows
  <2>3. Len(ccHist) \in Nat /\ Len(ccHist') \in Nat /\ turn.tail \in Nat
    BY <1>0 DEF CcTypeOK, TurnState
  <2> QED BY <1>0, <2>1, <2>2, <2>3 DEF RangeInv, Grows
<1> QED BY <1>1, <1>2, <1>3, <1>4, <1>5, <1>6, Steps

LEMMA RangeInit == CcInit => RangeInv
<1>1. CcInit => turn.stage = "start"
  BY DEF CcInit, NoTurn
<1> QED BY <1>1, TypesInit DEF RangeInv

-----------------------------------------------------------------------------
(* Calls and outputs.                                                      *)

\* Records of call id, and an output that answers the call before it: between
\* them the turn goes on, and no other record is of the same call.
Tool(i, id) == ccHist[i].kind \in {"call", "output"} /\ ccHist[i].of = id
Answers(c, o) ==
    /\ c < o /\ ccHist[c].kind = "call" /\ ccHist[c].of = ccHist[o].of
    /\ \A k \in c + 1..o - 1 : ccHist[k].kind \in TurnKinds /\ ~Tool(k, ccHist[o].of)
PairsAnswered == \A o \in DOMAIN ccHist : ccHist[o].kind = "output" =>
               \E c \in DOMAIN ccHist : Answers(c, o)

\* A call id is used again only for a newer input.
IdsApart ==
    \A i, j \in DOMAIN ccHist :
       i < j /\ ccHist[i].kind = "call" /\ ccHist[j].kind = "call"
         /\ ccHist[i].of = ccHist[j].of => \E b \in Inputs : i < b /\ b < j

\* The calls that may still be answered are of the turn that runs: nothing but
\* items of the assistant follows them, and none is open when the range is
\* compiled or summarised.
OpenOnly ==
    /\ turn.stage \in {"start", "read", "stream"} =>
          \A i \in OpenCalls : \A j \in DOMAIN ccHist : i < j => ccHist[j].kind \in TurnKinds
    /\ turn.stage \in {"compile", "send", "compact"} => OpenCalls = {}
    /\ turn.stage = "stream" => \A i \in OpenCalls : i > turn.tail

ToolsInv == RangeInv /\ PairsAnswered /\ IdsApart /\ OpenOnly

LEMMA ToolsInit == CcInit => ToolsInv
<1> SUFFICES ASSUME CcInit PROVE ToolsInv
  OBVIOUS
<1>1. DOMAIN ccHist = {1} /\ ccHist[1].kind = "input"
  BY DEF CcInit, Plain
<1>2. turn.stage = "start"
  BY DEF CcInit, NoTurn
<1>3. OpenCalls = {}
  BY <1>1 DEF OpenCalls, Open
<1> QED BY <1>1, <1>2, <1>3, RangeInit DEF ToolsInv, PairsAnswered, IdsApart, OpenOnly

\* What a history that grows keeps.
LEMMA ToolsGrow ==
    ASSUME CcTypeOK, Grows
    PROVE  /\ \A i \in DOMAIN ccHist : i \in Inputs <=> i \in Inputs'
           /\ \A i \in DOMAIN ccHist : i \in OpenCalls' => i \in OpenCalls
           /\ \A o \in DOMAIN ccHist : \A c \in DOMAIN ccHist : Answers(c, o) => Answers(c, o)'
           /\ DOMAIN ccHist = 1..Len(ccHist) /\ DOMAIN ccHist' = 1..Len(ccHist')
           /\ Len(ccHist) \in Nat /\ Len(ccHist') \in Nat
           /\ \A i \in DOMAIN ccHist' : i \in DOMAIN ccHist \/ i \in Fresh
           /\ \A i \in DOMAIN ccHist : ccHist'[i] = ccHist[i]
           /\ \A i \in DOMAIN ccHist : \A j \in Fresh : i < j
<1>1. /\ DOMAIN ccHist = 1..Len(ccHist) /\ DOMAIN ccHist' = 1..Len(ccHist')
      /\ Len(ccHist) \in Nat /\ Len(ccHist') \in Nat
      /\ \A i \in DOMAIN ccHist : i \in DOMAIN ccHist' /\ ccHist'[i] = ccHist[i]
  BY DEF CcTypeOK, Grows
<1>2. \A i \in DOMAIN ccHist : i \in Inputs <=> i \in Inputs'
  BY <1>1 DEF Inputs
<1>3. Inputs \subseteq Inputs'
  BY <1>2 DEF Inputs
<1>4. \A i \in DOMAIN ccHist : i \in OpenCalls' => i \in OpenCalls
  BY <1>1, <1>3 DEF OpenCalls, Open
<1>5. ASSUME NEW o \in DOMAIN ccHist, NEW c \in DOMAIN ccHist, Answers(c, o)
      PROVE  Answers(c, o)'
  <2>1. ccHist'[o] = ccHist[o] /\ ccHist'[c] = ccHist[c]
    BY <1>1
  <2>2. \A k \in c + 1..o - 1 : k \in DOMAIN ccHist /\ ccHist'[k] = ccHist[k]
    BY <1>1
  <2> QED BY <1>5, <2>1, <2>2 DEF Answers, Tool
<1>6. /\ \A i \in DOMAIN ccHist' : i \in DOMAIN ccHist \/ i \in Fresh
      /\ \A i \in DOMAIN ccHist : \A j \in Fresh : i < j
  BY <1>1 DEF Fresh
<1> QED BY <1>1, <1>2, <1>4, <1>5, <1>6

\* Records that are neither calls nor outputs leave the answers as they are.
LEMMA ToolsAside ==
    ASSUME ToolsInv, Grows, \A i \in Fresh : ccHist'[i].kind \notin {"call", "output"}
    PROVE  PairsAnswered' /\ IdsApart' /\ OpenCalls' \subseteq OpenCalls
<1>0. CcTypeOK
  BY DEF ToolsInv, RangeInv, TypesInv
<1>1. PairsAnswered'
  <2> SUFFICES ASSUME NEW o \in DOMAIN ccHist', ccHist'[o].kind = "output"
               PROVE  \E c \in DOMAIN ccHist' : Answers(c, o)'
    BY DEF PairsAnswered
  <2>1. o \in DOMAIN ccHist /\ ccHist[o].kind = "output"
    BY <1>0, ToolsGrow
  <2>2. PICK c \in DOMAIN ccHist : Answers(c, o)
    BY <2>1 DEF ToolsInv, PairsAnswered
  <2> QED BY <1>0, <2>1, <2>2, ToolsGrow DEF Grows
<1>2. IdsApart'
  <2> SUFFICES ASSUME NEW i \in DOMAIN ccHist', NEW j \in DOMAIN ccHist', i < j,
                      ccHist'[i].kind = "call", ccHist'[j].kind = "call",
                      ccHist'[i].of = ccHist'[j].of
               PROVE  \E b \in Inputs' : i < b /\ b < j
    BY DEF IdsApart
  <2>1. i \in DOMAIN ccHist /\ j \in DOMAIN ccHist
    BY <1>0, ToolsGrow
  <2>2. PICK b \in Inputs : i < b /\ b < j
    BY <1>0, <2>1, ToolsGrow DEF ToolsInv, IdsApart
  <2>3. b \in DOMAIN ccHist
    BY DEF Inputs
  <2> QED BY <1>0, <2>2, <2>3, ToolsGrow
<1>3. OpenCalls' \subseteq OpenCalls
  <2> SUFFICES ASSUME NEW i \in OpenCalls' PROVE i \in OpenCalls
    OBVIOUS
  <2>1. i \in DOMAIN ccHist' /\ ccHist'[i].kind = "call"
    BY DEF OpenCalls, Open
  <2> QED BY <1>0, <2>1, ToolsGrow
<1> QED BY <1>1, <1>2, <1>3

\* A turn that moves writes nothing, and asks or summarises with no call open.
LEMMA OpenMoves ==
    ASSUME ToolsInv, TurnMoves
    PROVE  OpenOnly'
<1>0. TypesInv /\ CcTypeOK /\ RangeInv /\ OpenOnly
  BY DEF ToolsInv, RangeInv, TypesInv
<1>1. ccHist' = ccHist
  BY Still
<1>2. OpenCalls' = OpenCalls
  BY <1>1 DEF OpenCalls, Open, Inputs
<1>3. \A i \in OpenCalls : i <= Len(ccHist) /\ i \in Nat
  BY <1>0 DEF OpenCalls, CcTypeOK
<1> DEFINE Before == {"start", "read", "stream"}
           While == {"compile", "send", "compact"}
<1>4. ASSUME turn.stage \in Before \cup While, turn'.stage \in {"start", "read"}
      PROVE  OpenOnly'
  BY <1>0, <1>1, <1>2, <1>4 DEF OpenOnly
<1>5. ASSUME turn'.stage \in While, OpenCalls = {}
      PROVE  OpenOnly'
  BY <1>1, <1>2, <1>5 DEF OpenOnly
<1>6. ASSUME turn'.stage \in {"none", "order", "manual"}
      PROVE  OpenOnly'
  BY <1>6 DEF OpenOnly
<1>7. CASE LoadTurn \/ NextAttempt
  BY <1>0, <1>4, <1>7, Stages
<1>8. CASE ReadThread
  BY <1>0, <1>5, <1>8, Stages
<1>9. CASE SendInference
  <2>1. turn.stage = "send" /\ turn'.stage = "stream"
    BY <1>0, <1>9, Stages
  <2>2. OpenCalls = {}
    BY <1>0, <2>1 DEF OpenOnly
  <2> QED BY <1>2, <2>1, <2>2 DEF OpenOnly
<1>10. CASE Compact
  <2>1. turn'.stage = "compact"
    BY <1>0, <1>10, Stages
  <2>2. OpenCalls = {}
    <3>1. CASE turn.stage = "send"
      BY <1>0, <3>1 DEF OpenOnly
    <3>2. CASE turn.stage = "stream" /\ Len(ccHist) = turn.tail
      BY <1>0, <1>3, <3>2 DEF OpenOnly
    <3> QED BY <1>0, <1>10, <3>1, <3>2, Stages
  <2> QED BY <1>5, <2>1, <2>2
<1>11. CASE EndTurn \/ OrderSummary \/ ManualCompact
  BY <1>0, <1>6, <1>11, Stages
<1>12. CASE Restart
  <2>1. CASE turn'.stage \in {"none", "order"}
    BY <1>6, <2>1
  <2>2. CASE turn.stage \notin {"none", "order", "manual"} /\ turn'.stage = "start"
    <3>1. turn.stage \in Before \cup While
      BY <1>0, <2>2 DEF CcTypeOK, TurnState
    <3> QED BY <1>4, <2>2, <3>1
  <2> QED BY <1>0, <1>12, <2>1, <2>2, Stages
<1> QED BY <1>7, <1>8, <1>9, <1>10, <1>11, <1>12 DEF TurnMoves

\* An item of a response is of the turn that runs, and its call id is new to it.
LEMMA ToolsRecord ==
    ASSUME ToolsInv, RecordItem
    PROVE  PairsAnswered' /\ IdsApart' /\ OpenOnly'
<1>0. /\ TypesInv /\ CcTypeOK /\ RangeInv /\ OpenOnly /\ PairsAnswered /\ IdsApart
      /\ turn.tail \in Nat
  BY DEF ToolsInv, RangeInv, TypesInv, CcTypeOK, TurnState
<1>1. PICK r \in HistoryRecord :
         /\ ccHist' = Append(ccHist, r) /\ r.kind \in {"reasoning", "message", "call"}
         /\ r.kind = "call" => r.of \notin RecordedIds
  <2>1. /\ \A text \in {"text", "bare"} : Sealed("reasoning", text).kind = "reasoning"
        /\ Plain("message").kind = "message"
        /\ \A id \in CallIds : Sealed("call", id).of = id
    BY DEF Sealed, Plain
  <2>2. \/ \E text \in {"text", "bare"} : ccHist' = Append(ccHist, Sealed("reasoning", text))
        \/ ccHist' = Append(ccHist, Plain("message"))
        \/ \E id \in CallIds \ RecordedIds : ccHist' = Append(ccHist, Sealed("call", id))
    BY DEF RecordItem
  <2>3. CASE \E text \in {"text", "bare"} : ccHist' = Append(ccHist, Sealed("reasoning", text))
    BY <1>0, <2>1, <2>3, RecordTypes
  <2>4. CASE ccHist' = Append(ccHist, Plain("message"))
    BY <1>0, <2>1, <2>4, RecordTypes
  <2>5. CASE \E id \in CallIds \ RecordedIds : ccHist' = Append(ccHist, Sealed("call", id))
    <3>1. PICK id \in CallIds \ RecordedIds : ccHist' = Append(ccHist, Sealed("call", id))
      BY <2>5
    <3>2. Sealed("call", id).kind = "call"
      BY DEF Sealed, Plain
    <3> QED BY <1>0, <2>1, <3>1, <3>2, RecordTypes
  <2> QED BY <2>2, <2>3, <2>4, <2>5
<1> DEFINE new == Len(ccHist) + 1
<1>2. Grows /\ Fresh = {new} /\ ccHist'[new] = r /\ Len(ccHist) \in Nat
  BY <1>0, <1>1, AppendGrows DEF CcTypeOK
<1>3. turn' = turn /\ turn.stage = "stream"
  BY DEF RecordItem
<1> HIDE DEF new
<1>4. PairsAnswered'
  <2> SUFFICES ASSUME NEW o \in DOMAIN ccHist', ccHist'[o].kind = "output"
               PROVE  \E c \in DOMAIN ccHist' : Answers(c, o)'
    BY DEF PairsAnswered
  <2>1. o \in DOMAIN ccHist /\ ccHist[o].kind = "output"
    BY <1>0, <1>1, <1>2, ToolsGrow
  <2>2. PICK c \in DOMAIN ccHist : Answers(c, o)
    BY <1>0, <2>1 DEF PairsAnswered
  <2> QED BY <1>0, <1>2, <2>1, <2>2, ToolsGrow DEF Grows
<1>5. IdsApart'
  <2> SUFFICES ASSUME NEW i \in DOMAIN ccHist', NEW j \in DOMAIN ccHist', i < j,
                      ccHist'[i].kind = "call", ccHist'[j].kind = "call",
                      ccHist'[i].of = ccHist'[j].of
               PROVE  \E b \in Inputs' : i < b /\ b < j
    BY DEF IdsApart
  <2>1. i \in DOMAIN ccHist
    <3>1. i \in DOMAIN ccHist \/ i = new
      BY <1>0, <1>2, ToolsGrow
    <3>2. j \in DOMAIN ccHist \/ j = new
      BY <1>0, <1>2, ToolsGrow
    <3>3. \A k \in DOMAIN ccHist : k < new
      BY <1>0, <1>2, ToolsGrow
    <3>4. new \in Nat
      BY <1>2 DEF new
    <3> QED BY <1>0, <3>1, <3>2, <3>3, <3>4, ToolsGrow
  <2>2. \E b \in Inputs : i < b /\ b < j
    <3>1. CASE j \in DOMAIN ccHist
      BY <1>0, <1>2, <2>1, <3>1, ToolsGrow DEF IdsApart
    <3>2. CASE j = new
      <4>1. r.kind = "call" /\ r.of = ccHist[i].of /\ ccHist[i].kind = "call"
        BY <1>0, <1>2, <2>1, <3>2, ToolsGrow
      <4>2. PICK b \in Inputs : ~(b < i)
        BY <1>1, <2>1, <4>1 DEF RecordedIds
      <4>3. b \in 1..Len(ccHist) /\ i \in 1..Len(ccHist) /\ ccHist[b].kind = "input"
        BY <1>0, <2>1, ToolsGrow, <1>2 DEF Inputs
      <4>4. b # i
        BY <4>1, <4>3
      <4> QED BY <1>2, <3>2, <4>2, <4>3, <4>4 DEF new
    <3> QED BY <1>0, <1>2, <3>1, <3>2, ToolsGrow
  <2>3. PICK b \in Inputs : i < b /\ b < j
    BY <2>2
  <2>4. b \in DOMAIN ccHist
    BY DEF Inputs
  <2> QED BY <1>0, <1>2, <2>3, <2>4, ToolsGrow
<1>6. OpenOnly'
  <2>1. ASSUME NEW i \in OpenCalls'
        PROVE  /\ \A j \in DOMAIN ccHist' : i < j => ccHist'[j].kind \in TurnKinds
               /\ i > turn.tail
    <3>1. i \in DOMAIN ccHist'
      BY DEF OpenCalls
    <3>2. CASE i \in DOMAIN ccHist
      <4>1. i \in OpenCalls
        BY <1>0, <1>2, <3>2, ToolsGrow
      <4>2. /\ \A j \in DOMAIN ccHist : i < j => ccHist[j].kind \in TurnKinds
            /\ i > turn.tail
        BY <1>0, <1>3, <4>1 DEF OpenOnly
      <4>3. r.kind \in TurnKinds
        BY <1>1 DEF TurnKinds
      <4> QED BY <1>0, <1>2, <4>2, <4>3, ToolsGrow
    <3>3. CASE i = new
      <4>1. turn.tail <= Len(ccHist)
        BY <1>0, <1>3 DEF RangeInv
      <4>2. \A j \in DOMAIN ccHist' : ~(i < j)
        <5>1. DOMAIN ccHist' = 1..Len(ccHist) + 1
          BY <1>0, <1>1, <1>2, AppendGrows, ToolsGrow
        <5> QED BY <1>2, <3>3, <5>1 DEF new
      <4> QED BY <1>0, <1>2, <3>3, <4>1, <4>2 DEF new
    <3> QED BY <1>0, <1>2, <3>1, <3>2, <3>3, ToolsGrow
  <2> QED BY <1>3, <2>1 DEF OpenOnly
<1> QED BY <1>4, <1>5, <1>6

\* An output answers its call: nothing of the same call lies between, and
\* nothing that ended the turn.
LEMMA ToolsAnswer ==
    ASSUME ToolsInv, AnswerCall
    PROVE  PairsAnswered' /\ IdsApart' /\ OpenOnly'
<1>0. /\ TypesInv /\ CcTypeOK /\ RangeInv /\ OpenOnly /\ PairsAnswered /\ IdsApart
  BY DEF ToolsInv, RangeInv, TypesInv
<1>1. PICK a \in OpenCalls : ccHist' = Append(ccHist, About("output", ccHist[a].of, 0))
  BY DEF AnswerCall
<1>2. a \in DOMAIN ccHist /\ ccHist[a] \in HistoryRecord /\ Open(a)
  BY <1>0, <1>1 DEF OpenCalls, CcTypeOK
<1> DEFINE new == Len(ccHist) + 1
           r == About("output", ccHist[a].of, 0)
<1>3. r \in HistoryRecord /\ r.kind = "output" /\ r.of = ccHist[a].of
  BY <1>0, <1>2, RecordTypes DEF About, Plain
<1> HIDE DEF r
<1>4. Grows /\ Fresh = {new} /\ ccHist'[new] = r /\ Len(ccHist) \in Nat /\ new \in DOMAIN ccHist'
  <2>1. ccHist' = Append(ccHist, r)
    BY <1>1 DEF r
  <2>2. Grows /\ Fresh = {new} /\ ccHist'[new] = r /\ Len(ccHist') = new
    BY <1>0, <1>3, <2>1, AppendGrows
  <2> QED BY <1>0, <2>2, ToolsGrow
<1>5. turn' = turn /\ turn.stage \in {"read", "stream"}
  BY DEF AnswerCall
<1>6. OpenCalls' \subseteq OpenCalls
  <2> SUFFICES ASSUME NEW i \in OpenCalls' PROVE i \in OpenCalls
    OBVIOUS
  <2>1. i \in DOMAIN ccHist' /\ ccHist'[i].kind = "call"
    BY DEF OpenCalls, Open
  <2>2. i # new
    BY <1>3, <1>4, <2>1
  <2> HIDE DEF new
  <2> QED BY <1>0, <1>4, <2>1, <2>2, ToolsGrow
<1>7. /\ \A j \in DOMAIN ccHist : a < j => ccHist[j].kind \in TurnKinds
      /\ \A j \in DOMAIN ccHist : a < j => ~Tool(j, r.of)
  <2>1. \A j \in DOMAIN ccHist : a < j => ccHist[j].kind \in TurnKinds
    BY <1>0, <1>1, <1>5 DEF OpenOnly
  <2>2. ASSUME NEW j \in DOMAIN ccHist, a < j PROVE ~Tool(j, r.of)
    <3>1. ~(ccHist[j].kind = "output" /\ ccHist[j].of = ccHist[a].of)
      BY <1>0, <1>2, <2>2, ToolsGrow DEF Open
    <3>2. ~(ccHist[j].kind = "call" /\ ccHist[j].of = ccHist[a].of)
      <4> SUFFICES ASSUME ccHist[j].kind = "call", ccHist[j].of = ccHist[a].of PROVE FALSE
        OBVIOUS
      <4>1. ccHist[a].kind = "call"
        BY <1>2 DEF Open
      <4>2. PICK b \in Inputs : a < b /\ b < j
        BY <1>0, <1>2, <2>2, <4>1 DEF IdsApart
      <4>3. b < a
        BY <1>2 DEF Open
      <4>4. a \in Nat /\ b \in Nat
        BY <1>0, <1>2, ToolsGrow, <1>4 DEF Inputs
      <4> QED BY <4>2, <4>3, <4>4
    <3> QED BY <1>3, <3>1, <3>2 DEF Tool
  <2> QED BY <2>1, <2>2
<1>8. PairsAnswered'
  <2> SUFFICES ASSUME NEW o \in DOMAIN ccHist', ccHist'[o].kind = "output"
               PROVE  \E c \in DOMAIN ccHist' : Answers(c, o)'
    BY DEF PairsAnswered
  <2>1. CASE o \in DOMAIN ccHist
    <3>1. ccHist[o].kind = "output"
      BY <1>0, <1>4, <2>1, ToolsGrow
    <3>2. PICK c \in DOMAIN ccHist : Answers(c, o)
      BY <1>0, <2>1, <3>1 DEF PairsAnswered
    <3> QED BY <1>0, <1>4, <2>1, <3>2, ToolsGrow DEF Grows
  <2>2. CASE o = new
    <3>1. a < o /\ ccHist'[a] = ccHist[a] /\ a \in DOMAIN ccHist' /\ ccHist'[o] = r
      <4> HIDE DEF new
      <4> QED BY <1>0, <1>2, <1>4, <2>2, ToolsGrow DEF Grows
    <3>2. ccHist'[a].kind = "call" /\ ccHist'[a].of = ccHist'[o].of
      BY <1>2, <1>3, <3>1 DEF Open
    <3>3. ASSUME NEW k \in a + 1..o - 1
          PROVE  ccHist'[k].kind \in TurnKinds /\ ~Tool(k, ccHist[o].of)'
      <4>1. k \in DOMAIN ccHist /\ a < k
        <5>1. DOMAIN ccHist = 1..Len(ccHist)
          BY <1>0, <1>4, ToolsGrow
        <5> QED BY <1>2, <1>4, <2>2, <5>1
      <4>2. ccHist'[k] = ccHist[k]
        BY <1>0, <1>4, <4>1, ToolsGrow
      <4> QED BY <1>7, <3>1, <4>1, <4>2 DEF Tool
    <3>4. Answers(a, o)'
      BY <3>1, <3>2, <3>3 DEF Answers, Tool
    <3> QED BY <3>1, <3>4
  <2> HIDE DEF new
  <2> QED BY <1>0, <1>4, <2>1, <2>2, ToolsGrow
<1>9. IdsApart'
  <2> SUFFICES ASSUME NEW i \in DOMAIN ccHist', NEW j \in DOMAIN ccHist', i < j,
                      ccHist'[i].kind = "call", ccHist'[j].kind = "call",
                      ccHist'[i].of = ccHist'[j].of
               PROVE  \E b \in Inputs' : i < b /\ b < j
    BY DEF IdsApart
  <2> HIDE DEF new
  <2>1. i \in DOMAIN ccHist /\ j \in DOMAIN ccHist
    BY <1>0, <1>3, <1>4, ToolsGrow
  <2>2. PICK b \in Inputs : i < b /\ b < j
    BY <1>0, <1>4, <2>1, ToolsGrow DEF IdsApart
  <2>3. b \in DOMAIN ccHist
    BY DEF Inputs
  <2> QED BY <1>0, <1>4, <2>2, <2>3, ToolsGrow
<1>10. OpenOnly'
  <2> HIDE DEF new
  <2>1. ASSUME NEW i \in OpenCalls', NEW j \in DOMAIN ccHist', i < j
        PROVE  ccHist'[j].kind \in TurnKinds
    <3>1. i \in OpenCalls
      BY <1>6
    <3>2. CASE j \in DOMAIN ccHist
      BY <1>0, <1>4, <1>5, <2>1, <3>1, <3>2, ToolsGrow DEF OpenOnly
    <3>3. CASE j = new
      BY <1>3, <1>4, <3>3 DEF TurnKinds
    <3> QED BY <1>0, <1>4, <3>2, <3>3, ToolsGrow
  <2> QED BY <1>0, <1>5, <1>6, <2>1 DEF OpenOnly
<1> QED BY <1>8, <1>9, <1>10

LEMMA ToolsStep ==
    ASSUME ToolsInv, [CcNext]_ccVars
    PROVE  ToolsInv'
<1>0. TypesInv /\ CcTypeOK /\ RangeInv /\ RangeInv' /\ OpenOnly /\ PairsAnswered /\ IdsApart
  BY RangeStep DEF ToolsInv, RangeInv, TypesInv
<1>1. CASE ccHist' = ccHist /\ turn' = turn
  BY <1>0, <1>1 DEF ToolsInv, PairsAnswered, Answers, Tool, IdsApart, OpenOnly, OpenCalls, Open, Inputs
<1>2. CASE TurnMoves
  <2>1. ccHist' = ccHist
    BY <1>2, Still
  <2>2. PairsAnswered' /\ IdsApart'
    BY <1>0, <2>1 DEF PairsAnswered, Answers, Tool, IdsApart, Inputs
  <2> QED BY <1>0, <1>2, <2>2, OpenMoves DEF ToolsInv
<1>3. CASE NewInput
  <2>1. ccHist' = Append(ccHist, Plain("input")) /\ Plain("input") \in HistoryRecord
        /\ Plain("input").kind = "input"
    BY <1>0, <1>3, RecordTypes DEF NewInput, Plain
  <2> DEFINE new == Len(ccHist) + 1
  <2>2. Grows /\ Fresh = {new} /\ ccHist'[new].kind = "input"
    BY <1>0, <2>1, AppendGrows
  <2> HIDE DEF new
  <2>3. PairsAnswered' /\ IdsApart' /\ OpenCalls' \subseteq OpenCalls
    BY <2>2, ToolsAside
  <2>4. OpenCalls' = {}
    <3> SUFFICES ASSUME NEW i \in OpenCalls' PROVE FALSE
      OBVIOUS
    <3>1. i \in DOMAIN ccHist
      BY <2>3 DEF OpenCalls
    <3>2. i < new
      BY <1>0, <2>2, <3>1, ToolsGrow
    <3>3. new \in Inputs'
      BY <1>0, <2>2, ToolsGrow DEF Inputs, Fresh
    <3>4. new < i
      BY <3>3 DEF OpenCalls, Open
    <3>5. i \in Nat /\ new \in Nat
      BY <1>0, <2>2, <3>1, ToolsGrow DEF new
    <3> QED BY <3>2, <3>4, <3>5
  <2>5. turn'.stage = "start"
    BY <1>0, <1>3, Stages
  <2> QED BY <1>0, <2>3, <2>4, <2>5 DEF ToolsInv, OpenOnly
<1>4. CASE CurrentContext
  <2>1. Grows /\ \A i \in Fresh : ccHist'[i].kind \notin {"call", "output"}
    <3>1. \A m : Injected(m).kind \in {"loaded", "unloaded"}
      BY DEF Injected, About, Plain
    <3>2. Plain("switch").kind = "switch"
      BY DEF Plain
    <3> QED BY <1>0, <1>4, <3>1, <3>2, ContextAppends
  <2>2. PairsAnswered' /\ IdsApart' /\ OpenCalls' \subseteq OpenCalls
    BY <2>1, ToolsAside
  <2>3. turn.stage = "compile" /\ turn'.stage = "send"
    BY <1>0, <1>4, Stages
  <2>4. OpenCalls' = {}
    BY <1>0, <2>2, <2>3 DEF OpenOnly
  <2> QED BY <1>0, <2>2, <2>3, <2>4 DEF ToolsInv, OpenOnly
<1>5. CASE RecordItem
  BY <1>0, <1>5, ToolsRecord DEF ToolsInv
<1>6. CASE AnswerCall
  BY <1>0, <1>6, ToolsAnswer DEF ToolsInv
<1>7. CASE WriteCheckpoint
  <2>1. ccHist' = Append(ccHist, Plain("checkpoint")) /\ Plain("checkpoint") \in HistoryRecord
        /\ Plain("checkpoint").kind = "checkpoint"
    BY <1>0, <1>7, RecordTypes DEF WriteCheckpoint, Plain
  <2>2. Grows /\ \A i \in Fresh : ccHist'[i].kind \notin {"call", "output"}
    BY <1>0, <2>1, AppendGrows
  <2>3. PairsAnswered' /\ IdsApart' /\ OpenCalls' \subseteq OpenCalls
    BY <2>2, ToolsAside
  <2>4. CASE turn.stage = "compact" /\ turn'.stage = "read"
    <3>1. OpenCalls' = {}
      BY <1>0, <2>3, <2>4 DEF OpenOnly
    <3> QED BY <1>0, <2>3, <2>4, <3>1 DEF ToolsInv, OpenOnly
  <2>5. CASE turn'.stage = "none"
    BY <1>0, <2>3, <2>5 DEF ToolsInv, OpenOnly
  <2> QED BY <1>0, <1>7, <2>4, <2>5, Stages
<1> QED BY <1>1, <1>2, <1>3, <1>4, <1>5, <1>6, <1>7, Steps, Still DEF ccVars

\* What is sent stands where it stands in the history and is of the same kind,
\* and calls and outputs are in pairs.
LEMMA SentItems ==
    ASSUME CcTypeOK, turn.stage = "stream", turn.head > 0, turn.tail <= Len(ccHist)
    PROVE  /\ DOMAIN Sent \subseteq turn.head..turn.tail
           /\ turn.head..turn.tail \subseteq DOMAIN ccHist
           /\ \A i \in DOMAIN Sent : /\ Sent[i].kind = ccHist[i].kind
                                     /\ Sent[i].of = ccHist[i].of
                                     /\ Sent[i].print = ccHist[i].print
           /\ \A i \in turn.head..turn.tail :
                 ccHist[i].kind \notin {"switch", "reasoning", "call", "output"} => i \in DOMAIN Sent
           /\ \A i \in DOMAIN Sent : ccHist[i].kind = "output" =>
                 \E c \in DOMAIN Sent :
                    /\ c < i /\ ccHist[c].kind = "call" /\ ccHist[c].of = ccHist[i].of
                    /\ \A k \in turn.head..turn.tail :
                          ccHist[k].kind = "call" /\ ccHist[k].of = ccHist[i].of => k = c
           /\ \A i \in DOMAIN Sent :
                 /\ ccHist[i].kind # "switch"
                 /\ \A b \in turn.head..turn.tail : ccHist[b].kind = "switch" /\ i < b =>
                       Sent[i].sealed = NoTarget
                 /\ Sent[i].sealed \in {NoTarget, ccHist[i].sealed}
<1> DEFINE range == turn.head..turn.tail
           S == Strip(Compiled)
<1>1. range \subseteq DOMAIN ccHist
  BY DEF CcTypeOK, TurnState
<1>2. DOMAIN Compiled = range /\ \A i \in range : Compiled[i] = ccHist[i]
  BY DEF Compiled
<1>3. \A i \in range : ccHist[i] \in HistoryRecord
  BY <1>1 DEF CcTypeOK
<1>4. \A r \in HistoryRecord : /\ WithoutEnvelope(r).kind = r.kind /\ WithoutEnvelope(r).of = r.of
                               /\ WithoutEnvelope(r).print = r.print
                               /\ WithoutEnvelope(r).sealed = NoTarget
  BY DEF WithoutEnvelope, HistoryRecord
<1> DEFINE foreign(i) == \E b \in Barriers(Compiled) : i < b
           left == {i \in DOMAIN Compiled \ Barriers(Compiled) : foreign(i) => Portable(Compiled[i])}
<1>5. S = [i \in left |-> IF foreign(i) THEN WithoutEnvelope(Compiled[i]) ELSE Compiled[i]]
  BY DEF Strip
<1>6. Barriers(Compiled) = {b \in range : ccHist[b].kind = "switch"}
  BY <1>2 DEF Barriers
<1>7. /\ DOMAIN S \subseteq range
      /\ \A i \in range : ccHist[i].kind \notin {"switch", "reasoning"} => i \in DOMAIN S
      /\ \A i \in DOMAIN S : ccHist[i].kind # "switch"
  <2> HIDE DEF range
  <2>1. DOMAIN S = left
    BY <1>5
  <2>2. left \subseteq range /\ \A i \in left : ccHist[i].kind # "switch"
    BY <1>2, <1>6
  <2>3. \A i \in range : ccHist[i].kind \notin {"switch", "reasoning"} => i \in left
    BY <1>2, <1>6 DEF Portable
  <2> QED BY <2>1, <2>2, <2>3
<1>8. ASSUME NEW i \in DOMAIN S
      PROVE  /\ S[i].kind = ccHist[i].kind /\ S[i].of = ccHist[i].of /\ S[i].print = ccHist[i].print
             /\ S[i].sealed \in {NoTarget, ccHist[i].sealed}
             /\ \A b \in range : ccHist[b].kind = "switch" /\ i < b => S[i].sealed = NoTarget
  <2>0. i \in left /\ i \in range /\ Compiled[i] = ccHist[i] /\ ccHist[i] \in HistoryRecord
    BY <1>2, <1>3, <1>5, <1>7
  <2> HIDE DEF left, range
  <2>1. CASE foreign(i)
    <3>1. S[i] = WithoutEnvelope(ccHist[i])
      BY <1>5, <2>0, <2>1
    <3> QED BY <1>4, <2>0, <3>1
  <2>2. CASE ~foreign(i)
    <3>1. S[i] = ccHist[i]
      BY <1>5, <2>0, <2>2
    <3>2. ~\E b \in range : ccHist[b].kind = "switch" /\ i < b
      BY <1>6, <2>2
    <3> HIDE DEF S
    <3> QED BY <3>1, <3>2
  <2> QED BY <2>1, <2>2
<1> HIDE DEF S, left, foreign, range
<1> DEFINE keep(r) == r.kind \in {"call", "output"} =>
                   \E c, o \in DOMAIN S :
                      /\ c < o
                      /\ OfCall(S, "call", r.of) = {c}
                      /\ OfCall(S, "output", r.of) = {o}
           kept == {i \in DOMAIN S : keep(S[i])}
<1>9. Sent = [i \in kept |-> S[i]]
  BY DEF Sent, ReplayableContextItems, Paired, S
<1>10. DOMAIN Sent = kept /\ kept \subseteq DOMAIN S /\ \A i \in kept : Sent[i] = S[i]
  BY <1>9
<1>11. ASSUME NEW i \in kept, ccHist[i].kind = "output"
       PROVE  \E c \in kept :
                 /\ c < i /\ ccHist[c].kind = "call" /\ ccHist[c].of = ccHist[i].of
                 /\ \A k \in range :
                       ccHist[k].kind = "call" /\ ccHist[k].of = ccHist[i].of => k = c
  <2> DEFINE id == ccHist[i].of
  <2>1. i \in DOMAIN S /\ S[i].kind = "output" /\ S[i].of = id
    BY <1>8, <1>10, <1>11
  <2>2. PICK c \in DOMAIN S : \E o \in DOMAIN S :
           /\ c < o /\ OfCall(S, "call", id) = {c} /\ OfCall(S, "output", id) = {o}
    BY <2>1
  <2>3. PICK o \in DOMAIN S :
           /\ c < o /\ OfCall(S, "call", id) = {c} /\ OfCall(S, "output", id) = {o}
    BY <2>2
  <2> HIDE DEF id
  <2>4. o = i
    BY <2>1, <2>3 DEF OfCall
  <2>5. S[c].kind = "call" /\ S[c].of = id
    BY <2>3 DEF OfCall
  <2>6. c \in kept
    BY <2>3, <2>5
  <2>7. ASSUME NEW k \in range, ccHist[k].kind = "call", ccHist[k].of = id PROVE k = c
    <3>1. k \in DOMAIN S
      BY <1>7, <2>7
    <3>2. k \in OfCall(S, "call", id)
      BY <1>8, <2>7, <3>1 DEF OfCall
    <3> QED BY <2>3, <3>2
  <2>8. ccHist[c].kind = "call" /\ ccHist[c].of = id
    BY <1>8, <2>5
  <2> QED BY <2>3, <2>4, <2>6, <2>7, <2>8 DEF id
<1>12. \A i \in range : ccHist[i].kind \notin {"switch", "reasoning", "call", "output"} => i \in kept
  <2> SUFFICES ASSUME NEW i \in range, ccHist[i].kind \notin {"switch", "reasoning", "call", "output"}
               PROVE  i \in kept
    OBVIOUS
  <2>1. i \in DOMAIN S /\ S[i].kind \notin {"call", "output"}
    BY <1>7, <1>8
  <2> QED BY <2>1
<1> HIDE DEF kept
<1> QED BY <1>1, <1>7, <1>8, <1>10, <1>11, <1>12 DEF range

\* In the order of the request a call, its output and what stands between
\* them are calls and outputs, or reasoning parts them.
LEMMA Contiguous ==
    ASSUME ToolsInv
    PROVE  ToolRunsAreContiguous
<1>1. CASE turn.stage # "stream"
  BY <1>1 DEF ToolRunsAreContiguous, Sent
<1>2. CASE turn.stage = "stream"
  <2>0. /\ CcTypeOK /\ PairsAnswered /\ turn.head > 0 /\ turn.tail <= Len(ccHist)
        /\ turn.head \in Nat /\ turn.tail \in Nat /\ Len(ccHist) \in Nat
        /\ DOMAIN ccHist = 1..Len(ccHist)
    BY <1>2 DEF ToolsInv, RangeInv, TypesInv, CcTypeOK, TurnState
  <2> SUFFICES ASSUME NEW o \in DOMAIN Sent, Sent[o].kind = "output"
               PROVE  \E c \in DOMAIN Sent :
                        LET between == {i \in DOMAIN Sent : Precedes(Sent, c, i) /\ Precedes(Sent, i, o)}
                        IN  /\ Sent[c].kind = "call" /\ Sent[c].of = Sent[o].of
                            /\ Precedes(Sent, c, o)
                            /\ \/ \A i \in between : Sent[i].kind \in {"call", "output"}
                               \/ \E i \in between : Sent[i].kind = "reasoning"
    BY DEF ToolRunsAreContiguous
  <2>1. /\ DOMAIN Sent \subseteq turn.head..turn.tail
        /\ \A i \in DOMAIN Sent : Sent[i].kind = ccHist[i].kind /\ Sent[i].of = ccHist[i].of
    BY <1>2, <2>0, SentItems
  <2>2. PICK c \in DOMAIN Sent :
           /\ c < o /\ ccHist[c].kind = "call" /\ ccHist[c].of = ccHist[o].of
           /\ \A k \in turn.head..turn.tail :
                 ccHist[k].kind = "call" /\ ccHist[k].of = ccHist[o].of => k = c
    BY <1>2, <2>0, <2>1, SentItems
  <2>3. o \in DOMAIN ccHist /\ o \in turn.head..turn.tail /\ c \in turn.head..turn.tail
    BY <2>0, <2>1
  <2>4. PICK a \in DOMAIN ccHist : Answers(a, o)
    BY <2>0, <2>1, <2>3 DEF PairsAnswered
  <2>5. a = c
    <3>1. CASE a \in turn.head..turn.tail
      BY <2>2, <2>4, <3>1 DEF Answers
    <3>2. CASE a \notin turn.head..turn.tail
      <4>1. a < o /\ a \in Nat
        BY <2>0, <2>4 DEF Answers
      <4>2. c \in a + 1..o - 1
        BY <2>0, <2>2, <2>3, <3>2, <4>1
      <4>3. ~Tool(c, ccHist[o].of)
        BY <2>4, <4>2 DEF Answers
      <4> QED BY <2>2, <4>3 DEF Tool
    <3> QED BY <3>1, <3>2
  <2>6. \A k \in DOMAIN Sent : c < k /\ k < o => Sent[k].kind \in TurnKinds
    <3> SUFFICES ASSUME NEW k \in DOMAIN Sent, c < k, k < o PROVE Sent[k].kind \in TurnKinds
      OBVIOUS
    <3>1. k \in c + 1..o - 1
      BY <2>0, <2>1, <2>3
    <3> QED BY <2>1, <2>4, <2>5, <3>1 DEF Answers
  <2>7. /\ Sent[c].kind = "call" /\ Sent[c].of = Sent[o].of
        /\ FlushToolTurn(Sent[c]) = 1 /\ FlushToolTurn(Sent[o]) = 2
        /\ c \in Nat /\ o \in Nat /\ \A i \in DOMAIN Sent : i \in Nat
        /\ \A i \in DOMAIN Sent : FlushToolTurn(Sent[i]) \in {0, 1, 2}
    BY <2>0, <2>1, <2>2, <2>3 DEF FlushToolTurn
  <2>8. Precedes(Sent, c, o)
    BY <2>2, <2>7 DEF Precedes
  <2>9. CASE \E k \in DOMAIN Sent : c < k /\ k < o /\ Sent[k].kind = "reasoning"
    <3>1. PICK k \in DOMAIN Sent : c < k /\ k < o /\ Sent[k].kind = "reasoning"
      BY <2>9
    <3>2. ~SameTurn(Sent, c, k)
      BY <2>7, <3>1 DEF SameTurn, BreaksTurn
    <3>3. Precedes(Sent, c, k)
      BY <3>1, <3>2 DEF Precedes
    <3>4. FlushToolTurn(Sent[k]) = 0
      BY <3>1 DEF FlushToolTurn
    <3>5. Precedes(Sent, k, o)
      BY <2>7, <3>1, <3>4 DEF Precedes
    <3> QED BY <2>7, <2>8, <3>1, <3>3, <3>5
  <2>10. CASE ~\E k \in DOMAIN Sent : c < k /\ k < o /\ Sent[k].kind = "reasoning"
    <3>1. \A b \in DOMAIN Sent : c < b /\ b <= o => ~BreaksTurn(Sent[b])
      <4> SUFFICES ASSUME NEW b \in DOMAIN Sent, c < b, b <= o PROVE ~BreaksTurn(Sent[b])
        OBVIOUS
      <4>1. CASE b = o
        BY <4>1 DEF BreaksTurn, TurnKinds
      <4>2. CASE b < o
        BY <2>6, <2>10, <4>2 DEF BreaksTurn
      <4> QED BY <2>7, <4>1, <4>2
    <3>2. ASSUME NEW i \in DOMAIN Sent, Precedes(Sent, c, i), Precedes(Sent, i, o)
          PROVE  Sent[i].kind \in {"call", "output"}
      <4>1. FlushToolTurn(Sent[i]) # 0
        <5> SUFFICES ASSUME FlushToolTurn(Sent[i]) = 0 PROVE FALSE
          OBVIOUS
        <5>1. c < i /\ ~SameTurn(Sent, c, i)
          BY <2>7, <3>2 DEF Precedes
        <5>2. PICK b \in DOMAIN Sent : c < b /\ b <= i /\ BreaksTurn(Sent[b])
          BY <5>1 DEF SameTurn
        <5>3. o < b
          BY <2>7, <3>1, <5>2
        <5>4. o < i /\ ~(i < o)
          BY <2>7, <5>2, <5>3
        <5>5. SameTurn(Sent, o, i)
          BY <3>2, <5>4 DEF Precedes
        <5> QED BY <5>2, <5>3, <5>5 DEF SameTurn
      <4> QED BY <4>1 DEF FlushToolTurn
    <3> QED BY <2>7, <2>8, <3>2
  <2> QED BY <2>9, <2>10
<1> QED BY <1>1, <1>2

\* In every request each output follows its call, and between them stand calls
\* and outputs only unless the response went on with reasoning first
\* (regroup_tool_calls, replayable_context_items), whatever is recorded,
\* superseded, restarted, compacted or switched.
THEOREM ToolRunsStayTogether == CcSpec => []ToolRunsAreContiguous
  BY ToolsInit, ToolsStep, Contiguous, PTL DEF CcSpec

-----------------------------------------------------------------------------
(* The copies of loaded Manuals.                                           *)

\* The notices about m in the range that was compiled.
NoticesSent(m) ==
    {i \in turn.head..turn.tail : ccHist[i].kind \in {"loaded", "unloaded"} /\ ccHist[i].of = m}

\* The newest of them tells what the Manual was when the range was compiled.
Tells(m) ==
    IF turn.seen[m] # 0
    THEN \E i \in NoticesSent(m) : /\ \A j \in NoticesSent(m) : j <= i
                                   /\ ccHist[i].kind = "loaded"
                                   /\ ccHist[i].print = turn.seen[m]
    ELSE \A i \in NoticesSent(m) : (\A j \in NoticesSent(m) : j <= i)
                                       => ccHist[i].kind = "unloaded"
CopiesInv ==
    /\ RangeInv
    /\ \A m \in Manuals : manual[m].print > 0
    /\ turn.stage \in {"send", "stream"} => \A m \in Manuals : Tells(m)

\* An attempt that compiles leaves nothing to tell.
LEMMA ContextTells ==
    ASSUME CopiesInv, CurrentContext, NEW m \in Manuals
    PROVE  Tells(m)'
<1>0. /\ CcTypeOK /\ manual[m].print > 0 /\ manual[m].print \in Nat /\ turn \in TurnState
      /\ DOMAIN ccHist = 1..Len(ccHist) /\ Len(ccHist) \in Nat
  BY DEF CopiesInv, RangeInv, TypesInv, CcTypeOK
<1>1. /\ Grows
      /\ \A i \in Fresh : ccHist'[i] = Plain("switch") \/ \E d \in Due : ccHist'[i] = Injected(d)
      /\ \A d \in Due : \E i \in Fresh : ccHist'[i] = Injected(d)
  BY <1>0, ContextAppends
<1>2. /\ turn'.head = IdxHead /\ turn'.tail = Len(ccHist')
      /\ turn'.seen[m] = IF IsHeld(m) THEN manual[m].print ELSE 0
  <2> DEFINE seen == [d \in Manuals |-> IF IsHeld(d) THEN manual[d].print ELSE 0]
  <2>1. turn' = [turn EXCEPT !.stage = "send", !.head = IdxHead, !.tail = Len(ccHist'),
                   !.seen = seen]
    BY <1>0, ContextAppends
  <2>2. seen[m] = IF IsHeld(m) THEN manual[m].print ELSE 0
    OBVIOUS
  <2> HIDE DEF seen
  <2> QED BY <1>0, <2>1, <2>2 DEF TurnState
<1>3. IdxHead \in Nat \ {0}
  BY <1>0, HeadType
<1>4. /\ Len(ccHist') \in Nat /\ DOMAIN ccHist' = 1..Len(ccHist')
      /\ \A i \in DOMAIN ccHist : i \in DOMAIN ccHist' /\ ccHist'[i] = ccHist[i]
      /\ \A i \in DOMAIN ccHist' : i \in DOMAIN ccHist \/ i \in Fresh
      /\ \A i \in DOMAIN ccHist : \A j \in Fresh : i < j
      /\ Len(ccHist) <= Len(ccHist')
  BY <1>0, <1>1, ToolsGrow DEF Grows
<1> DEFINE N == {i \in IdxHead..Len(ccHist') :
                    ccHist'[i].kind \in {"loaded", "unloaded"} /\ ccHist'[i].of = m}
           Old == {i \in DOMAIN ccHist : /\ ccHist[i].kind \in {"loaded", "unloaded"}
                                         /\ ccHist[i].of = m /\ i >= IdxHead}
<1>5. NoticesSent(m)' = N
  BY <1>2 DEF NoticesSent
<1>6. Notices(ccHist, m) = Old
  BY DEF Notices, NoticesAnywhere
<1>7. /\ Plain("switch").kind = "switch"
      /\ \A d : /\ Injected(d).of = d
                /\ Injected(d).kind = IF IsHeld(d) THEN "loaded" ELSE "unloaded"
                /\ IsHeld(d) => Injected(d).print = manual[d].print
  BY DEF Plain, Injected, About
<1>8. \A i \in N : i \in Old \/ (i \in Fresh /\ m \in Due /\ ccHist'[i] = Injected(m))
  <2> SUFFICES ASSUME NEW i \in N, i \notin Old
               PROVE  i \in Fresh /\ m \in Due /\ ccHist'[i] = Injected(m)
    OBVIOUS
  <2>1. i \in DOMAIN ccHist' /\ i \in Nat /\ i >= IdxHead
    BY <1>3, <1>4
  <2>2. i \in Fresh
    BY <1>4, <2>1
  <2>3. ccHist'[i].kind # "switch"
    OBVIOUS
  <2>4. PICK d \in Due : ccHist'[i] = Injected(d)
    BY <1>1, <1>7, <2>2, <2>3
  <2>5. d = m
    BY <1>7, <2>4
  <2> QED BY <2>2, <2>4, <2>5
<1>9. /\ Old \subseteq N
      /\ \A i \in Fresh : ccHist'[i] = Injected(m) /\ m \in Due => i \in N
  <2>1. ASSUME NEW i \in Old PROVE i \in N
    <3>1. i \in DOMAIN ccHist' /\ ccHist'[i] = ccHist[i]
      BY <1>4
    <3> QED BY <1>3, <1>4, <3>1
  <2>2. ASSUME NEW i \in Fresh, ccHist'[i] = Injected(m) PROVE i \in N
    <3>1. i \in DOMAIN ccHist' /\ i > Len(ccHist)
      BY <1>0, <1>4 DEF Fresh
    <3>2. IdxHead <= i
      <4>1. IdxHead = 1 \/ IdxHead \in DOMAIN ccHist
        BY <1>0, HeadType
      <4> QED BY <1>0, <1>3, <1>4, <3>1, <4>1
    <3> QED BY <1>3, <1>4, <1>7, <2>2, <3>1, <3>2
  <2> QED BY <2>1, <2>2
<1>10. N \in SUBSET (1..Len(ccHist')) /\ Old \in SUBSET (1..Len(ccHist))
  BY <1>0, <1>3, <1>4
<1>11. \A i \in N : ccHist'[i].kind \in {"loaded", "unloaded"}
  OBVIOUS
<1>12. \A i \in Old : ccHist'[i] = ccHist[i]
  BY <1>4
<1> DEFINE Latest(i) == \A j \in N : j <= i
<1> SUFFICES IF IsHeld(m)
             THEN \E i \in N : Latest(i) /\ ccHist'[i].kind = "loaded" /\ ccHist'[i].print = manual[m].print
             ELSE \A i \in N : Latest(i) => ccHist'[i].kind = "unloaded"
  <2> HIDE DEF N, Old
  <2> QED BY <1>0, <1>2, <1>5 DEF Tells
<1> HIDE DEF N, Old
<1>13. CASE m \in Due
  <2>1. PICK f \in Fresh : ccHist'[f] = Injected(m)
    BY <1>1, <1>13
  <2>2. f \in N
    BY <1>9, <1>13, <2>1
  <2>3. \A i \in N : Latest(i) => ccHist'[i] = Injected(m)
    <3> SUFFICES ASSUME NEW i \in N, Latest(i) PROVE ccHist'[i] = Injected(m)
      OBVIOUS
    <3>1. f <= i
      BY <2>2
    <3>2. i \notin Old
      <4>1. i \in Old => i < f
        BY <1>4, <1>10, <1>0
      <4>2. i \in Nat /\ f \in Nat
        BY <1>10, <2>2
      <4> QED BY <3>1, <4>1, <4>2
    <3> QED BY <1>8, <3>2
  <2>4. \E i \in N : Latest(i)
    BY <1>4, <1>10, <2>2, NewestPlace
  <2> QED BY <1>7, <2>3, <2>4
<1>14. CASE m \notin Due
  <2>1. N = Old
    BY <1>8, <1>9, <1>14
  <2> DEFINE last == Newest(ccHist, m)
  <2>2. Old # {} => last \in Old /\ \A j \in Old : j <= last
    <3>1. Old # {} => \E i \in Old : \A j \in Old : j <= i
      BY <1>0, <1>10, NewestPlace
    <3> QED BY <1>6, <3>1 DEF Newest
  <2>3. CASE IsHeld(m)
    <3>1. Holds(ccHist, m) /\ ccHist[last].print = manual[m].print
      BY <1>14, <2>3 DEF Due
    <3>2. Old # {} /\ ccHist[last].kind = "loaded"
      BY <1>6, <3>1 DEF Holds
    <3> HIDE DEF last
    <3> QED BY <1>12, <2>1, <2>2, <2>3, <3>1, <3>2
  <2>4. CASE ~IsHeld(m)
    <3>1. ~Holds(ccHist, m)
      BY <1>14, <2>4 DEF Due
    <3>2. Old = {} \/ ccHist[last].kind # "loaded"
      BY <1>6, <3>1 DEF Holds
    <3>3. ASSUME NEW i \in N, Latest(i) PROVE ccHist'[i].kind = "unloaded"
      <4> HIDE DEF last
      <4>1. i \in Old /\ last \in Old /\ i <= last /\ last <= i
        BY <2>1, <2>2, <3>3
      <4>2. i \in Nat /\ last \in Nat
        BY <1>10, <4>1
      <4>3. i = last
        BY <4>1, <4>2
      <4> QED BY <1>11, <1>12, <3>2, <4>1, <4>3
    <3> QED BY <2>4, <3>3
  <2> QED BY <2>3, <2>4
<1> QED BY <1>13, <1>14

LEMMA CopiesInit == CcInit => CopiesInv
<1>1. CcInit => turn.stage = "start" /\ \A m \in Manuals : manual[m].print > 0
  BY DEF CcInit, NoTurn
<1> QED BY <1>1, RangeInit DEF CopiesInv

LEMMA CopiesStep ==
    ASSUME CopiesInv, [CcNext]_ccVars
    PROVE  CopiesInv'
<1>0. RangeInv /\ RangeInv' /\ TypesInv /\ CcTypeOK /\ turn \in TurnState
  BY RangeStep DEF CopiesInv, RangeInv, TypesInv, CcTypeOK
<1>1. \A m \in Manuals : manual'[m].print > 0
  <2>1. \A m \in Manuals : manual[m] \in [print : Nat, resolves : BOOLEAN] /\ manual[m].print > 0
    BY <1>0 DEF CopiesInv, CcTypeOK
  <2>2. CASE \E m \in Manuals : EditManual(m) \/ HideManual(m)
    <3>1. PICK d \in Manuals : EditManual(d) \/ HideManual(d)
      BY <2>2
    <3>2. \A m \in Manuals : manual'[m].print \in {manual[m].print, manual[m].print + 1}
      <4>1. \/ manual' = [manual EXCEPT ![d] = [manual[d] EXCEPT !.print = @ + 1]]
            \/ manual' = [manual EXCEPT ![d] = [manual[d] EXCEPT !.resolves = ~@]]
        BY <1>0, <2>1, <3>1 DEF EditManual, HideManual, CcTypeOK
      <4>2. DOMAIN manual = Manuals /\ manual[d] \in [print : Nat, resolves : BOOLEAN]
        BY <1>0 DEF CcTypeOK
      <4>3. /\ [manual[d] EXCEPT !.print = @ + 1].print = manual[d].print + 1
            /\ [manual[d] EXCEPT !.resolves = ~@].print = manual[d].print
        BY <4>2
      <4> QED BY <4>1, <4>2, <4>3
    <3> QED BY <2>1, <3>2
  <2>3. CASE manual' = manual
    BY <2>1, <2>3
  <2>4. (\E m \in Manuals : EditManual(m) \/ HideManual(m)) \/ manual' = manual
    <3>1. TurnMoves => manual' = manual
      BY Zenon DEF TurnMoves, LoadTurn, ReadThread, SendInference, NextAttempt, EndTurn, Compact,
         OrderSummary, ManualCompact, Restart
    <3>2. NewInput \/ CurrentContext \/ RecordItem \/ AnswerCall \/ WriteCheckpoint => manual' = manual
      BY Zenon DEF NewInput, CurrentContext, RecordItem, AnswerCall, WriteCheckpoint
    <3>3. TurnAside => (\E m \in Manuals : EditManual(m) \/ HideManual(m)) \/ manual' = manual
      BY Zenon DEF TurnAside, SwitchTarget, LoadManual, UnloadManual, TitleRead, TitleSend
    <3>4. UNCHANGED ccVars => manual' = manual
      BY DEF ccVars
    <3> QED BY <3>1, <3>2, <3>3, <3>4, Steps
  <2> QED BY <2>2, <2>3, <2>4
<1>2. ASSUME turn.stage \in {"send", "stream"}, Grows,
             turn'.head = turn.head, turn'.tail = turn.tail, turn'.seen = turn.seen
      PROVE  \A m \in Manuals : Tells(m)'
  <2> SUFFICES ASSUME NEW m \in Manuals PROVE Tells(m)'
    OBVIOUS
  <2>1. \A i \in turn.head..turn.tail : ccHist'[i] = ccHist[i]
    <3>1. turn.head..turn.tail \subseteq DOMAIN ccHist
      BY <1>0, <1>2 DEF RangeInv, CcTypeOK, TurnState
    <3> QED BY <1>2, <3>1 DEF Grows
  <2>2. NoticesSent(m)' = NoticesSent(m)
    BY <1>2, <2>1 DEF NoticesSent
  <2>3. \A i \in NoticesSent(m) : ccHist'[i] = ccHist[i]
    BY <2>1 DEF NoticesSent
  <2>4. Tells(m)
    BY <1>2 DEF CopiesInv
  <2> QED BY <1>2, <2>2, <2>3, <2>4 DEF Tells
<1>3. CASE ccHist' = ccHist /\ turn' = turn
  BY <1>0, <1>1, <1>2, <1>3, SameGrows DEF CopiesInv
<1>4. CASE TurnMoves
  <2>1. CASE SendInference
    <3>1. turn'.head = turn.head /\ turn'.tail = turn.tail /\ turn'.seen = turn.seen
          /\ ccHist' = ccHist /\ turn.stage = "send"
      BY <1>0, <2>1 DEF SendInference, TurnState
    <3> QED BY <1>0, <1>1, <1>2, <3>1, SameGrows DEF CopiesInv
  <2>2. CASE ~SendInference
    <3>1. turn'.stage \notin {"send", "stream"}
      BY <1>0, <1>4, <2>2, Stages DEF TurnMoves
    <3> QED BY <1>0, <1>1, <3>1 DEF CopiesInv
  <2> QED BY <2>1, <2>2
<1>5. CASE NewInput \/ WriteCheckpoint
  BY <1>0, <1>1, <1>5, Stages DEF CopiesInv
<1>6. CASE CurrentContext
  BY <1>0, <1>1, <1>6, ContextTells DEF CopiesInv
<1>7. CASE RecordItem \/ AnswerCall
  <2>1. turn' = turn
    BY <1>7 DEF RecordItem, AnswerCall
  <2>2. Grows
    <3>1. CcNext
      BY <1>7 DEF CcNext, Turn
    <3> QED BY <1>0, <3>1, HistoryGrows
  <2> QED BY <1>0, <1>1, <1>2, <2>1, <2>2 DEF CopiesInv
<1> QED BY <1>3, <1>4, <1>5, <1>6, <1>7, Steps, Still DEF ccVars

LEMMA CopiesCurrent ==
    ASSUME CopiesInv
    PROVE  LoadedCopiesCurrent
<1> SUFFICES ASSUME turn.stage = "stream", NEW m \in Manuals
             PROVE  LET notices == {i \in DOMAIN Sent : Sent[i].kind \in {"loaded", "unloaded"}
                                                       /\ Sent[i].of = m}
                        last(i) == \A j \in notices \ {i} : Precedes(Sent, j, i)
                    IN  IF turn.seen[m] # 0
                        THEN \E i \in notices : last(i) /\ Sent[i].kind = "loaded"
                                                        /\ Sent[i].print = turn.seen[m]
                        ELSE \A i \in notices : last(i) => Sent[i].kind = "unloaded"
  BY DEF LoadedCopiesCurrent
<1> DEFINE notices == {i \in DOMAIN Sent : Sent[i].kind \in {"loaded", "unloaded"} /\ Sent[i].of = m}
           last(i) == \A j \in notices \ {i} : Precedes(Sent, j, i)
<1>1. CcTypeOK /\ turn.head > 0 /\ turn.tail <= Len(ccHist) /\ turn.head \in Nat /\ turn.tail \in Nat
  BY DEF CopiesInv, RangeInv, TypesInv, CcTypeOK, TurnState
<1>2. /\ DOMAIN Sent \subseteq turn.head..turn.tail
      /\ \A i \in DOMAIN Sent : /\ Sent[i].kind = ccHist[i].kind /\ Sent[i].of = ccHist[i].of
                                /\ Sent[i].print = ccHist[i].print
      /\ \A i \in turn.head..turn.tail :
            ccHist[i].kind \notin {"switch", "reasoning", "call", "output"} => i \in DOMAIN Sent
  BY <1>1, SentItems
<1>3. notices = NoticesSent(m)
  BY <1>2 DEF NoticesSent
<1>4. ASSUME NEW i \in notices, NEW j \in notices, i # j
      PROVE  Precedes(Sent, j, i) <=> j < i
  <2>1. i \in Nat /\ j \in Nat /\ i \in DOMAIN Sent /\ j \in DOMAIN Sent
    BY <1>1, <1>2
  <2>2. BreaksTurn(Sent[i]) /\ BreaksTurn(Sent[j])
    BY DEF BreaksTurn, TurnKinds
  <2>3. /\ j < i => ~SameTurn(Sent, j, i)
        /\ i < j => ~SameTurn(Sent, i, j)
    BY <2>1, <2>2 DEF SameTurn
  <2> QED BY <1>4, <2>1, <2>3 DEF Precedes
<1>5. \A i \in notices : Sent[i].kind = ccHist[i].kind /\ Sent[i].print = ccHist[i].print /\ i \in Nat
  BY <1>1, <1>2
<1>6. Tells(m)
  BY DEF CopiesInv
<1> HIDE DEF notices
<1>7. \A i \in notices : last(i) <=> \A j \in notices : j <= i
  BY <1>4, <1>5
<1> HIDE DEF last
<1>8. IF turn.seen[m] # 0
      THEN \E i \in notices : last(i) /\ Sent[i].kind = "loaded" /\ Sent[i].print = turn.seen[m]
      ELSE \A i \in notices : last(i) => Sent[i].kind = "unloaded"
  BY <1>3, <1>5, <1>6, <1>7 DEF Tells
<1> QED BY <1>8 DEF notices, last

\* Every request carries the copy of each Manual the Thread held loaded when
\* its range was compiled, after any older one, and calls no released Manual
\* maintained (manual_loads.rs:14-23): edits, hidden Manuals, unloads,
\* checkpoints, switches and restarts in any order, for any number of Manuals.
THEOREM CopiesAreCurrent == CcSpec => []LoadedCopiesCurrent
  BY CopiesInit, CopiesStep, CopiesCurrent, PTL DEF CcSpec

-----------------------------------------------------------------------------
(* Envelopes.                                                              *)

\* A barrier lies between i and n.
Barred(i, n) == \E b \in DOMAIN ccHist : i < b /\ b <= n /\ ccHist[b].kind = "switch"

\* While no request went out for another target unbarred, what follows the
\* newest barrier was sealed by the target of the newest audit, and in a range
\* that is compiled, by the one it goes to.
SealsInv ==
    /\ RangeInv
    /\ ccMasked = {} =>
         /\ \A i \in DOMAIN ccHist :
               ~Barred(i, Len(ccHist)) => ccHist[i].sealed \in {NoTarget, ccAudit}
         /\ turn.stage \in {"send", "stream"} => \A i \in DOMAIN ccHist :
               i <= turn.tail /\ ~Barred(i, turn.tail) => ccHist[i].sealed \in {NoTarget, turn.to}
         /\ turn.stage = "stream" => ccAudit = turn.to

\* That there is no target is not a target.
LEMMA NoTargetIsNone == NoTarget \notin ReplayTargets
<1>1. ASSUME NEW t \in Models \X Ups PROVE t # << >>
  <2>1. PICK m \in Models, u \in Ups : t = <<m, u>>
    OBVIOUS
  <2>2. Len(t) = 2
    BY <2>1
  <2> QED BY <2>2
<1> QED BY <1>1 DEF NoTarget, ReplayTargets

\* Nothing is unmasked.
LEMMA MaskedStays ==
    ASSUME [CcNext]_ccVars
    PROVE  ccMasked' = {} => ccMasked = {}
<1>1. \A to : Unbarred(to) => (ccMasked' = {} => ccMasked = {} /\ ccAudit \in {NoTarget, to})
  BY DEF Unbarred
<1>2. TurnAside => (ccMasked' = {} => ccMasked = {})
  BY <1>1 DEF TurnAside, SwitchTarget, EditManual, HideManual, LoadManual, UnloadManual,
     TitleRead, TitleSend
<1>3. TurnMoves => (ccMasked' = {} => ccMasked = {})
  BY <1>1 DEF TurnMoves, LoadTurn, ReadThread, SendInference, NextAttempt, EndTurn, Compact,
     OrderSummary, ManualCompact, Restart
<1>4. NewInput \/ RecordItem \/ AnswerCall \/ WriteCheckpoint => ccMasked' = ccMasked
  BY Zenon DEF NewInput, RecordItem, AnswerCall, WriteCheckpoint
<1>5. CurrentContext => (ccMasked' = {} => ccMasked = {})
  BY DEF CurrentContext
<1>6. UNCHANGED ccVars => ccMasked' = ccMasked
  BY DEF ccVars
<1> QED BY <1>2, <1>3, <1>4, <1>5, <1>6, Steps

\* Records that carry no envelope, or that of the newest audit, add nothing.
LEMMA SealsGrow ==
    ASSUME SealsInv, Grows, ccMasked = {}, ccAudit' = ccAudit,
           \A i \in Fresh : ccHist'[i].sealed \in {NoTarget, ccAudit}
    PROVE  /\ \A i \in DOMAIN ccHist' :
                 ~Barred(i, Len(ccHist))' => ccHist'[i].sealed \in {NoTarget, ccAudit}
           /\ turn.stage \in {"send", "stream"} /\ turn' = turn => \A i \in DOMAIN ccHist' :
                 i <= turn'.tail /\ ~Barred(i, turn.tail)' => ccHist'[i].sealed \in {NoTarget, turn'.to}
<1>0. CcTypeOK /\ RangeInv /\ turn.tail \in Nat
  BY DEF SealsInv, RangeInv, TypesInv, CcTypeOK, TurnState
<1>1. /\ DOMAIN ccHist = 1..Len(ccHist) /\ DOMAIN ccHist' = 1..Len(ccHist')
      /\ Len(ccHist) \in Nat /\ Len(ccHist') \in Nat /\ Len(ccHist) <= Len(ccHist')
      /\ \A i \in DOMAIN ccHist' : i \in DOMAIN ccHist \/ i \in Fresh
      /\ \A i \in DOMAIN ccHist : i \in DOMAIN ccHist' /\ ccHist'[i] = ccHist[i]
  BY <1>0, ToolsGrow DEF Grows
<1>2. \A i \in DOMAIN ccHist : Barred(i, Len(ccHist)) => Barred(i, Len(ccHist))'
  BY <1>1 DEF Barred
<1>3. \A i \in DOMAIN ccHist : Barred(i, turn.tail) /\ turn' = turn => Barred(i, turn.tail)'
  BY <1>1 DEF Barred
<1>4. ASSUME NEW i \in DOMAIN ccHist', ~Barred(i, Len(ccHist))'
      PROVE  ccHist'[i].sealed \in {NoTarget, ccAudit}
  <2>1. CASE i \in DOMAIN ccHist
    BY <1>1, <1>2, <1>4, <2>1 DEF SealsInv
  <2> QED BY <1>1, <2>1
<1>5. ASSUME turn.stage \in {"send", "stream"}, turn' = turn, NEW i \in DOMAIN ccHist',
             i <= turn'.tail, ~Barred(i, turn.tail)'
      PROVE  ccHist'[i].sealed \in {NoTarget, turn'.to}
  <2>1. i \in DOMAIN ccHist
    BY <1>0, <1>1, <1>5 DEF RangeInv
  <2> QED BY <1>1, <1>3, <1>5, <2>1 DEF SealsInv
<1> QED BY <1>4, <1>5

\* The barrier of the range that is compiled, or none where none is needed.
LEMMA SealsContext ==
    ASSUME SealsInv, CurrentContext, ccMasked' = {}
    PROVE  SealsInv'
<1>0. /\ CcTypeOK /\ RangeInv /\ TypesInv /\ turn \in TurnState
      /\ [CcNext]_ccVars
  BY DEF SealsInv, RangeInv, TypesInv, CcTypeOK, CcNext, Turn
<1>1. /\ ccMasked = {} /\ ccAudit' = ccAudit /\ turn.to \in {ccTarget, ccAudit}
  BY DEF CurrentContext
<1>2. /\ Grows
      /\ \A i \in Fresh : ccHist'[i] = Plain("switch") \/ \E d \in Due : ccHist'[i] = Injected(d)
      /\ NeedsBarrier => \E i \in Fresh : ccHist'[i] = Plain("switch")
  BY <1>0, ContextAppends
<1>3. turn'.stage = "send" /\ turn'.to = turn.to /\ turn'.tail = Len(ccHist')
  BY <1>0, ContextAppends DEF TurnState
<1>4. /\ Plain("switch").sealed = NoTarget /\ Plain("switch").kind = "switch"
      /\ \A d : Injected(d).sealed = NoTarget
  BY DEF Plain, Injected, About
<1>5. \A i \in Fresh : ccHist'[i].sealed = NoTarget
  BY <1>2, <1>4
<1>6. \A i \in DOMAIN ccHist' : ~Barred(i, Len(ccHist))' => ccHist'[i].sealed \in {NoTarget, ccAudit}
  BY <1>1, <1>2, <1>5, SealsGrow
<1>7. /\ DOMAIN ccHist = 1..Len(ccHist) /\ DOMAIN ccHist' = 1..Len(ccHist')
      /\ Len(ccHist') \in Nat
      /\ \A i \in DOMAIN ccHist' : i \in DOMAIN ccHist \/ i \in Fresh
      /\ \A i \in DOMAIN ccHist : \A j \in Fresh : i < j
  BY <1>0, <1>2, ToolsGrow
<1>8. ASSUME NEW i \in DOMAIN ccHist', ~Barred(i, Len(ccHist))'
      PROVE  ccHist'[i].sealed \in {NoTarget, turn.to}
  <2>1. CASE i \in DOMAIN ccHist
    <3>1. ~NeedsBarrier
      <4> SUFFICES ASSUME NeedsBarrier PROVE FALSE
        OBVIOUS
      <4>1. PICK f \in Fresh : ccHist'[f] = Plain("switch")
        BY <1>2
      <4>2. i < f /\ f \in DOMAIN ccHist' /\ f <= Len(ccHist')
        BY <1>7, <2>1, <1>0 DEF Fresh, CcTypeOK
      <4>3. Barred(i, Len(ccHist))'
        BY <1>4, <4>1, <4>2 DEF Barred
      <4> QED BY <1>8, <4>3
    <3>2. ccAudit = NoTarget \/ ccAudit = ccTarget
      BY <3>1 DEF NeedsBarrier, ReplayTargetChanged
    <3> QED BY <1>1, <1>6, <1>8, <3>2
  <2> QED BY <1>5, <1>7, <2>1
<1>9. RangeInv'
  BY <1>0, RangeStep
<1> QED BY <1>1, <1>3, <1>6, <1>8, <1>9 DEF SealsInv

LEMMA SealsStep ==
    ASSUME SealsInv, [CcNext]_ccVars
    PROVE  SealsInv'
<1>0. RangeInv' /\ RangeInv /\ TypesInv /\ CcTypeOK /\ turn \in TurnState
  BY RangeStep DEF SealsInv, RangeInv, TypesInv, CcTypeOK
<1>1. CASE ccMasked' # {}
  BY <1>0, <1>1 DEF SealsInv
<1> SUFFICES ASSUME ccMasked' = {} PROVE SealsInv'
  BY <1>1
<1>2. ccMasked = {}
  BY MaskedStays
<1>3. /\ \A i \in DOMAIN ccHist : ~Barred(i, Len(ccHist)) => ccHist[i].sealed \in {NoTarget, ccAudit}
      /\ turn.stage \in {"send", "stream"} => \A i \in DOMAIN ccHist :
            i <= turn.tail /\ ~Barred(i, turn.tail) => ccHist[i].sealed \in {NoTarget, turn.to}
      /\ turn.stage = "stream" => ccAudit = turn.to
  BY <1>2 DEF SealsInv
<1>4. \A to : Unbarred(to) => ccAudit \in {NoTarget, to}
  BY DEF Unbarred
\* A step that writes no record, after which nothing is being sent.
<1>5. ASSUME ccHist' = ccHist, turn'.stage \notin {"send", "stream"},
             \A i \in DOMAIN ccHist : ~Barred(i, Len(ccHist)) => ccHist[i].sealed \in {NoTarget, ccAudit'}
      PROVE  SealsInv'
  BY <1>0, <1>5 DEF SealsInv, Barred
<1>6. CASE ccHist' = ccHist /\ turn' = turn /\ ccAudit' = ccAudit
  BY <1>0, <1>3, <1>6 DEF SealsInv, Barred
<1>7. CASE TitleSend
  <2>1. /\ ccHist' = ccHist /\ turn' = turn /\ ccAudit' = title /\ ccAudit \in {NoTarget, title}
    BY <1>4, <1>7 DEF TitleSend
  <2>2. \A i \in DOMAIN ccHist : ~Barred(i, Len(ccHist)) => ccHist[i].sealed \in {NoTarget, ccAudit'}
    BY <1>3, <2>1
  <2>3. turn.stage = "stream" => ccAudit' = turn.to
    <3>1. turn.stage = "stream" => turn.to \in ReplayTargets
      BY <1>0 DEF TypesInv, Targeted
    <3> QED BY <1>3, <2>1, <3>1, NoTargetIsNone
  <2> QED BY <1>0, <1>3, <2>1, <2>2, <2>3 DEF SealsInv, Barred
<1>8. CASE TurnMoves
  <2>0. ccHist' = ccHist
    BY <1>8, Still
  <2>1. CASE SendInference
    <3>1. /\ ccAudit' = turn.to /\ turn.stage = "send" /\ turn'.stage = "stream"
          /\ turn'.to = turn.to /\ turn'.tail = turn.tail
      BY <1>0, <2>1 DEF SendInference, TurnState
    <3>2. turn.tail = Len(ccHist) /\ DOMAIN ccHist = 1..Len(ccHist) /\ Len(ccHist) \in Nat
      BY <1>0, <3>1 DEF RangeInv, CcTypeOK
    <3>3. \A i \in DOMAIN ccHist : i <= turn.tail
      BY <3>2
    <3> QED BY <1>0, <1>3, <2>0, <3>1, <3>2, <3>3 DEF SealsInv, Barred
  <2>2. CASE Compact
    <3>1. ccAudit' = turn.to /\ turn'.stage = "compact"
      BY <1>0, <2>2, Stages DEF Compact
    <3>2. CASE turn.stage = "send"
      <4>1. turn.tail = Len(ccHist) /\ DOMAIN ccHist = 1..Len(ccHist) /\ Len(ccHist) \in Nat
        BY <1>0, <3>2 DEF RangeInv, CcTypeOK
      <4>2. \A i \in DOMAIN ccHist : i <= turn.tail
        BY <4>1
      <4> QED BY <1>3, <1>5, <2>0, <3>1, <3>2, <4>1, <4>2
    <3>3. CASE turn.stage = "stream"
      BY <1>3, <1>5, <2>0, <3>1, <3>3
    <3> QED BY <1>0, <2>2, <3>2, <3>3, Stages
  <2>3. CASE ManualCompact
    <3>1. ccAudit' = ccTarget /\ ccAudit \in {NoTarget, ccTarget} /\ turn'.stage = "manual"
      BY <1>0, <1>4, <2>3, Stages DEF ManualCompact
    <3>2. \A i \in DOMAIN ccHist : ~Barred(i, Len(ccHist)) => ccHist[i].sealed \in {NoTarget, ccAudit'}
      BY <1>3, <3>1
    <3> QED BY <1>5, <2>0, <3>1, <3>2
  <2>4. CASE LoadTurn \/ ReadThread \/ NextAttempt \/ EndTurn \/ OrderSummary \/ Restart
    <3>1. ccAudit' = ccAudit
      BY <2>4 DEF LoadTurn, ReadThread, NextAttempt, EndTurn, OrderSummary, Restart
    <3>2. turn'.stage \notin {"send", "stream"}
      BY <1>0, <2>4, Stages
    <3> QED BY <1>3, <1>5, <2>0, <3>1, <3>2
  <2> QED BY <1>8, <2>1, <2>2, <2>3, <2>4 DEF TurnMoves
\* A step that writes one record.
<1>9. ASSUME NEW r \in HistoryRecord, ccHist' = Append(ccHist, r), r.sealed \in {NoTarget, ccAudit},
             ccAudit' = ccAudit,
             turn' = turn \/ turn'.stage \notin {"send", "stream"}
      PROVE  SealsInv'
  <2>1. Grows /\ \A i \in Fresh : ccHist'[i].sealed \in {NoTarget, ccAudit}
    BY <1>0, <1>9, AppendGrows
  <2> QED BY <1>0, <1>2, <1>3, <1>9, <2>1, SealsGrow DEF SealsInv
<1>10. CASE NewInput \/ WriteCheckpoint
  <2>1. \A kind : Plain(kind).sealed = NoTarget
    BY DEF Plain
  <2>2. /\ ccAudit' = ccAudit
        /\ \E kind \in {"input", "checkpoint"} : ccHist' = Append(ccHist, Plain(kind))
    BY <1>10 DEF NewInput, WriteCheckpoint
  <2>3. turn'.stage \notin {"send", "stream"}
    BY <1>0, <1>10, Stages
  <2> QED BY <1>0, <1>9, <2>1, <2>2, <2>3, RecordTypes
<1>11. CASE AnswerCall
  <2>1. PICK a \in OpenCalls : ccHist' = Append(ccHist, About("output", ccHist[a].of, 0))
    BY <1>11 DEF AnswerCall
  <2>2. ccHist[a] \in HistoryRecord
    BY <1>0, <2>1 DEF OpenCalls, CcTypeOK
  <2>3. About("output", ccHist[a].of, 0).sealed = NoTarget
    BY DEF About, Plain
  <2>4. turn' = turn /\ ccAudit' = ccAudit
    BY <1>11 DEF AnswerCall
  <2> QED BY <1>0, <1>9, <2>1, <2>2, <2>3, <2>4, RecordTypes
<1>12. CASE RecordItem
  <2>1. turn' = turn /\ ccAudit' = ccAudit /\ turn.stage = "stream" /\ ccAudit = turn.to
    BY <1>3, <1>12 DEF RecordItem
  <2>2. /\ Plain("message").sealed = NoTarget
        /\ \A kind, of : Sealed(kind, of).sealed = turn.to
    BY DEF Plain, Sealed
  <2>3. \E r \in HistoryRecord : ccHist' = Append(ccHist, r) /\ r.sealed \in {NoTarget, turn.to}
    BY <1>0, <1>12, <2>2, RecordTypes DEF RecordItem
  <2> QED BY <1>9, <2>1, <2>3
<1>13. CASE CurrentContext
  BY <1>13, SealsContext
<1>14. CASE UNCHANGED ccVars
  BY <1>6, <1>14 DEF ccVars
<1>15. CASE TurnAside
  <2>1. TitleSend \/ ccAudit' = ccAudit
    BY <1>15 DEF TurnAside, SwitchTarget, EditManual, HideManual, LoadManual, UnloadManual, TitleRead
  <2> QED BY <1>6, <1>7, <1>15, <2>1, Still
<1> QED BY <1>8, <1>10, <1>11, <1>12, <1>13, <1>14, <1>15, Steps

LEMMA SealsInit == CcInit => SealsInv
<1> SUFFICES ASSUME CcInit PROVE SealsInv
  OBVIOUS
<1>1. DOMAIN ccHist = {1} /\ ccHist[1].sealed = NoTarget
  BY DEF CcInit, Plain
<1>2. turn.stage = "start"
  BY DEF CcInit, NoTurn
<1> QED BY <1>1, <1>2, RangeInit DEF SealsInv

LEMMA EnvelopesStripped ==
    ASSUME SealsInv
    PROVE  SwitchStripsEnvelopes
<1>0. CcTypeOK /\ RangeInv
  BY DEF SealsInv, RangeInv, TypesInv
<1> SUFFICES ASSUME "unbarred" \notin ccMasked, "race" \notin ccMasked, NEW i \in Foreign
             PROVE  FALSE
  BY DEF SwitchStripsEnvelopes, EnvelopesStayHome
<1>1. i \in DOMAIN Sent /\ Sent[i].sealed \notin {NoTarget, turn.to}
  BY DEF Foreign
<1>2. ccMasked = {}
  BY <1>0 DEF CcTypeOK
<1>3. turn.stage = "stream"
  BY <1>1 DEF Sent
<1>4. turn.head > 0 /\ turn.tail <= Len(ccHist) /\ turn.head \in Nat /\ turn.tail \in Nat
  BY <1>0, <1>3 DEF RangeInv, CcTypeOK, TurnState
<1>5. /\ i \in turn.head..turn.tail /\ turn.head..turn.tail \subseteq DOMAIN ccHist
      /\ \A b \in turn.head..turn.tail : ccHist[b].kind = "switch" /\ i < b =>
            Sent[i].sealed = NoTarget
      /\ Sent[i].sealed \in {NoTarget, ccHist[i].sealed}
  BY <1>0, <1>1, <1>3, <1>4, SentItems
<1>6. ~Barred(i, turn.tail)
  <2> SUFFICES ASSUME NEW b \in DOMAIN ccHist, i < b, b <= turn.tail, ccHist[b].kind = "switch"
               PROVE  FALSE
    BY DEF Barred
  <2>1. b \in turn.head..turn.tail
    BY <1>0, <1>4, <1>5 DEF CcTypeOK
  <2> QED BY <1>1, <1>5, <2>1
<1>7. ccHist[i].sealed \in {NoTarget, turn.to}
  BY <1>2, <1>3, <1>4, <1>5, <1>6 DEF SealsInv
<1> QED BY <1>1, <1>5, <1>7

\* However switches, failed attempts, compactions, restarts and new inputs
\* interleave, the newest barrier (ensure_model_switch_barrier) covers every
\* envelope of another target, but for the two ways the definition names: a
\* switch away and back during the attempt, and a request without a barrier of
\* its own.
THEOREM SwitchesStrip == CcSpec => []SwitchStripsEnvelopes
  BY SealsInit, SealsStep, EnvelopesStripped, PTL DEF CcSpec

-----------------------------------------------------------------------------
(* The components of MCThreadTurns side by side.                           *)

\* In every part of the run the contexts and the responses keep their types.
THEOREM TurnsTypes == TurnsSpec => []TurnsTypeOK
<1>1. TurnsInit => TypesInv /\ RsTypeOK
  BY TypesInit, ResponseTypesInit DEF TurnsInit
<1>2. ASSUME TypesInv, RsTypeOK, [TurnsNext]_turnsVars
      PROVE  (TypesInv /\ RsTypeOK)'
  <2>1. /\ CcNext \/ UNCHANGED ccVars
        /\ RsNext \/ UNCHANGED rsVars
    BY <1>2 DEF TurnsNext, turnsVars
  <2> QED BY <1>2, <2>1, TypesStep, ResponseTypesStep
<1>3. TypesInv /\ RsTypeOK => TurnsTypeOK
  BY DEF TypesInv, TurnsTypeOK
<1> QED BY <1>1, <1>2, <1>3, PTL DEF TurnsSpec

=============================================================================
