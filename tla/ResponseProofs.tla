--------------------------- MODULE ResponseProofs ---------------------------
(***************************************************************************)
(* Theorems about ResponseStream, for responses of any number of items and *)
(* texts of any number of pieces, with any faults.                         *)
(*                                                                         *)
(* What a response leaves in the history assumes a provider without the    *)
(* habits ResponseStream names: with either of them it is not so.          *)
(***************************************************************************)
EXTENDS ResponseStream, FiniteSetTheorems, WellFoundedInduction, TLAPS

-----------------------------------------------------------------------------
(* Counting: the loops over events, items and records.                     *)

LessThan == {p \in Nat \X Nat : p[1] < p[2]}

\* Some places of a sequence have a newest one among them.
LEMMA NewestPlace ==
    ASSUME NEW n \in Nat, NEW S \in SUBSET (1..n), S # {}
    PROVE  \E i \in S : \A j \in S : j <= i
<1> DEFINE T == {n - i : i \in S}
<1>1. T \subseteq Nat /\ T # {}
  <2>1. \A i \in S : n - i \in Nat
    OBVIOUS
  <2> QED BY <2>1
<1>2. IsWellFoundedOn(LessThan, Nat)
  BY NatLessThanWellFounded DEF OpToRel, LessThan
<1>3. PICK m \in T : \A k \in T : ~(<<k, m>> \in LessThan)
  BY <1>1, <1>2, WFMin
<1>4. PICK i \in S : m = n - i
  BY <1>3
<1>5. ASSUME NEW j \in S PROVE j <= i
  <2>1. n - j \in T /\ n - j \in Nat /\ m \in Nat
    BY <1>1, <1>3
  <2>2. ~(n - j < m)
    BY <1>3, <2>1 DEF LessThan
  <2> QED BY <1>4, <2>2
<1> QED BY <1>5

\* Some numbers have a least one among them.
LEMMA LeastNumber ==
    ASSUME NEW S \in SUBSET Nat, S # {}
    PROVE  \E i \in S : \A j \in S : i <= j
<1>1. IsWellFoundedOn(LessThan, Nat)
  BY NatLessThanWellFounded DEF OpToRel, LessThan
<1>2. PICK m \in S : \A k \in S : ~(<<k, m>> \in LessThan)
  BY <1>1, WFMin
<1>3. ASSUME NEW k \in S PROVE m <= k
  <2>1. ~(k < m)
    BY <1>2 DEF LessThan
  <2> QED BY <2>1
<1> QED BY <1>3

\* What holds of 0, and of each number after one it holds of, holds up to n.
LEMMA CountsUp ==
    ASSUME NEW n \in Nat, NEW T \in SUBSET (0..n), 0 \in T,
           \A i \in 0..(n - 1) : i \in T => i + 1 \in T
    PROVE  \A i \in 0..n : i \in T
<1> DEFINE Missing == {i \in 0..n : i \notin T}
<1> SUFFICES ASSUME Missing # {} PROVE FALSE
  OBVIOUS
<1>1. Missing \in SUBSET Nat
  OBVIOUS
<1>2. PICK m \in Missing : \A j \in Missing : m <= j
  <2> HIDE DEF Missing
  <2> QED BY <1>1, LeastNumber
<1>3. m \in 0..n /\ m \notin T /\ m # 0
  OBVIOUS
<1>4. m - 1 \in 0..(n - 1) /\ m - 1 \in 0..n /\ ~(m <= m - 1)
  BY <1>3
<1>5. m - 1 \in T
  BY <1>2, <1>4
<1> QED BY <1>3, <1>4, <1>5

\* A loop of n steps that starts from base, and its values.
LoopSteps(n, S) == [1..n -> [S -> S]]
LoopValues(n, S, base, step) ==
    {g \in [0..n -> S] : g[0] = base /\ \A i \in 1..n : g[i] = step[i][g[i - 1]]}

\* Such a loop has a value after each step.
LEMMA LoopExists ==
    ASSUME NEW n \in Nat, NEW S, NEW base \in S, NEW step \in LoopSteps(n, S)
    PROVE  \E g : g \in LoopValues(n, S, base, step)
<1>0. step \in [1..n -> [S -> S]]
  BY DEF LoopSteps
<1> DEFINE Has(i) == \E g \in [0..i -> S] : 
              g = [j \in 0..i |-> IF j = 0 THEN base ELSE step[j][g[j - 1]]]
           T == {i \in 0..n : Has(i)}
<1>1. Has(0)
  <2> DEFINE g == [j \in 0..0 |-> base]
  <2>1. g \in [0..0 -> S]
    OBVIOUS
  <2>2. g = [j \in 0..0 |-> IF j = 0 THEN base ELSE step[j][g[j - 1]]]
    OBVIOUS
  <2> QED BY <2>1, <2>2
<1>2. ASSUME NEW i \in 0..(n - 1), Has(i) PROVE Has(i + 1)
  <2>1. PICK g \in [0..i -> S] : 
           g = [j \in 0..i |-> IF j = 0 THEN base ELSE step[j][g[j - 1]]]
    BY <1>2
  <2> DEFINE h == [j \in 0..(i + 1) |-> IF j = i + 1 THEN step[i + 1][g[i]] ELSE g[j]]
  <2>2. h \in [0..(i + 1) -> S]
    <3>1. i + 1 \in 1..n /\ i \in 0..i
      OBVIOUS
    <3>2. step[i + 1] \in [S -> S] /\ g[i] \in S
      BY <1>0, <3>1
    <3> QED BY <3>2
  <2>3. h = [j \in 0..(i + 1) |-> IF j = 0 THEN base ELSE step[j][h[j - 1]]]
    <3>1. ASSUME NEW j \in 0..(i + 1)
          PROVE  h[j] = IF j = 0 THEN base ELSE step[j][h[j - 1]]
      <4>1. CASE j = i + 1
        BY <4>1
      <4>2. CASE j # i + 1
        <5>1. j \in 0..i
          BY <4>2
        <5>2. g[j] = IF j = 0 THEN base ELSE step[j][g[j - 1]]
          BY <2>1, <5>1
        <5>3. j # 0 => h[j - 1] = g[j - 1]
          BY <5>1
        <5> QED BY <4>2, <5>1, <5>2, <5>3
      <4> QED BY <4>1, <4>2
    <3> QED BY <3>1
  <2> HIDE DEF h
  <2> QED BY <2>2, <2>3
<1>3. \A i \in 0..n : i \in T
  <2>1. T \in SUBSET (0..n)
    OBVIOUS
  <2>2. 0 \in T
    BY <1>1
  <2>3. \A i \in 0..(n - 1) : i \in T => i + 1 \in T
    <3>1. \A i \in 0..(n - 1) : i + 1 \in 0..n
      OBVIOUS
    <3> HIDE DEF Has
    <3> QED BY <1>2, <3>1
  <2> HIDE DEF T
  <2> QED BY <2>1, <2>2, <2>3, CountsUp
<1>4. PICK g \in [0..n -> S] :
         g = [j \in 0..n |-> IF j = 0 THEN base ELSE step[j][g[j - 1]]]
  BY <1>3
<1>5. 0 \in 0..n /\ \A i \in 1..n : i \in 0..n /\ i # 0
  OBVIOUS
<1>6. g[0] = base /\ \A i \in 1..n : g[i] = step[i][g[i - 1]]
  BY <1>4, <1>5
<1> QED BY <1>6 DEF LoopValues

\* Where each step of a loop stays within S, its values are in S.
LEMMA LoopStays ==
    ASSUME NEW n \in Nat, NEW S, NEW g, g = [i \in 0..n |-> g[i]], g[0] \in S,
           \A i \in 1..n : g[i - 1] \in S => g[i] \in S
    PROVE  g \in [0..n -> S]
<1> DEFINE T == {i \in 0..n : g[i] \in S}
<1>1. T \in SUBSET (0..n) /\ 0 \in T
  OBVIOUS
<1>2. \A i \in 0..(n - 1) : i \in T => i + 1 \in T
  <2>1. \A i \in 0..(n - 1) : i + 1 \in 1..n /\ (i + 1) - 1 = i /\ i + 1 \in 0..n
    OBVIOUS
  <2> QED BY <2>1
<1>3. \A i \in 0..n : i \in T
  <2> HIDE DEF T
  <2> QED BY <1>1, <1>2, CountsUp
<1> QED BY <1>3

-----------------------------------------------------------------------------
(* Types of what a response is made of.                                    *)

\* The first and the last of some places.
LEMMA FirstAndLast ==
    ASSUME NEW n \in Nat, NEW S \in SUBSET (1..n), S # {}
    PROVE  /\ Min(S) \in S /\ \A j \in S : Min(S) <= j
           /\ Max(S) \in S /\ \A j \in S : j <= Max(S)
<1>1. S \in SUBSET Nat
  OBVIOUS
<1>2. \E i \in S : \A j \in S : i <= j
  BY <1>1, LeastNumber
<1>3. \E i \in S : \A j \in S : i >= j
  <2>1. PICK i \in S : \A j \in S : j <= i
    BY NewestPlace
  <2>2. \A j \in S : i >= j
    BY <1>1, <2>1
  <2> QED BY <2>2
<1>4. Min(S) \in S /\ \A j \in S : Min(S) <= j
  BY <1>2 DEF Min
<1>5. Max(S) \in S /\ \A j \in S : Max(S) >= j
  BY <1>3 DEF Max
<1> QED BY <1>1, <1>4, <1>5

\* Place finds an item with an id by its id, and one without as the last
\* unfinished item of its kind.
LEMMA PlaceFound ==
    ASSUME NEW output \in Seq(OutputState), NEW it \in ResponseItem
    PROVE  LET place == Place(output, it)
           IN  /\ place \in 0..Len(output)
               /\ it.id # 0 /\ place # 0 => output[place].item.id = it.id
               /\ it.id # 0 /\ place = 0 =>
                    \A p \in 1..Len(output) : output[p].item.id # it.id
               /\ it.id = 0 /\ place # 0 =>
                    /\ ~output[place].done /\ output[place].item.kind = it.kind
                    /\ \A p \in 1..Len(output) :
                          ~output[p].done /\ output[p].item.kind = it.kind => p <= place
               /\ it.id = 0 /\ place = 0 =>
                    \A p \in 1..Len(output) : output[p].done \/ output[p].item.kind # it.kind
<1> DEFINE Named == {p \in 1..Len(output) : output[p].item.id = it.id}
           Unfinished == {p \in 1..Len(output) : ~output[p].done /\ output[p].item.kind = it.kind}
<1>1. Place(output, it) =
        IF it.id # 0 THEN IF Named # {} THEN Min(Named) ELSE 0
        ELSE IF Unfinished # {} THEN Max(Unfinished) ELSE 0
  BY DEF Place, SelectInSeq, SelectLastInSeq
<1>2. Len(output) \in Nat /\ Named \in SUBSET (1..Len(output))
        /\ Unfinished \in SUBSET (1..Len(output))
  OBVIOUS
<1>3. Named # {} => Min(Named) \in Named
  <2> HIDE DEF Named
  <2> QED BY <1>2, FirstAndLast
<1>4. Unfinished # {} => Max(Unfinished) \in Unfinished /\ \A j \in Unfinished : j <= Max(Unfinished)
  <2> HIDE DEF Unfinished
  <2> QED BY <1>2, FirstAndLast
<1> DEFINE first == Min(Named)  last == Max(Unfinished)
<1>5. Place(output, it) =
        IF it.id # 0 THEN IF Named # {} THEN first ELSE 0
        ELSE IF Unfinished # {} THEN last ELSE 0
  BY <1>1
<1>6. Named # {} => first \in Named
  BY <1>3
<1>7. Unfinished # {} => last \in Unfinished /\ \A j \in Unfinished : j <= last
  BY <1>4
<1> HIDE DEF first, last
<1>8. CASE it.id # 0
  <2>1. Named # {} => first \in 1..Len(output) /\ output[first].item.id = it.id
    BY <1>6
  <2> QED BY <1>2, <1>5, <1>8, <2>1
<1>9. CASE it.id = 0
  <2>1. Unfinished # {} => last \in 1..Len(output) /\ ~output[last].done
                             /\ output[last].item.kind = it.kind
    BY <1>7
  <2> QED BY <1>2, <1>5, <1>7, <1>9, <2>1
<1> QED BY <1>8, <1>9

\* Where an update goes: the last item it targets.
Target(output, event) == SelectLastInSeq(output, LAMBDA o : Targets(event, o.item))

LEMMA TargetFound ==
    ASSUME NEW output \in Seq(OutputState), NEW event \in ResponseEvent
    PROVE  LET place == Target(output, event)
           IN  /\ place \in 0..Len(output)
               /\ place # 0 =>
                    /\ Targets(event, output[place].item)
                    /\ \A p \in 1..Len(output) : Targets(event, output[p].item) => p <= place
               /\ place = 0 => \A p \in 1..Len(output) : ~Targets(event, output[p].item)
<1> DEFINE Hit == {p \in 1..Len(output) : Targets(event, output[p].item)}
           last == Max(Hit)
<1>1. Target(output, event) = IF Hit # {} THEN last ELSE 0
  BY DEF Target, SelectLastInSeq
<1>2. Len(output) \in Nat /\ Hit \in SUBSET (1..Len(output))
  OBVIOUS
<1>3. Hit # {} => last \in Hit /\ \A j \in Hit : j <= last
  <2> HIDE DEF Hit
  <2> QED BY <1>2, FirstAndLast
<1> HIDE DEF last
<1> QED BY <1>1, <1>2, <1>3

LEMMA UpdatedType ==
    ASSUME NEW it \in ResponseItem, NEW event \in ResponseEvent
    PROVE  Updated(it, event) \in ResponseItem
<1>1. it.text \in Seq(Nat) /\ event.item.text \in Seq(Nat)
  BY DEF ResponseEvent, ResponseItem
<1> DEFINE text == IF event.type = "delta" THEN it.text \o event.item.text ELSE event.item.text
<1>2. text \in Seq(Nat)
  BY <1>1
<1>3. Updated(it, event) = [it EXCEPT !.text = text]
  BY DEF Updated
<1> HIDE DEF text
<1> QED BY <1>2, <1>3 DEF ResponseItem

LEMMA MergedType ==
    ASSUME NEW old \in ResponseItem, NEW new \in ResponseItem
    PROVE  MergedItem(old, new) \in ResponseItem
  BY DEF MergedItem, ResponseItem

\* The loop of remember over the events that wait.
Replayed == [item : ResponseItem, left : Seq(ResponseEvent)]
ReplayStep(acc, event) ==
    IF Targets(event, acc.item)
    THEN [item |-> Updated(acc.item, event), left |-> acc.left]
    ELSE [item |-> acc.item, left |-> Append(acc.left, event)]

LEMMA ReplayLoop ==
    ASSUME NEW it \in ResponseItem, NEW events \in Seq(ResponseEvent)
    PROVE  \E after \in [0..Len(events) -> Replayed] :
              /\ after[0] = [item |-> it, left |-> <<>>]
              /\ \A i \in 1..Len(events) : after[i] = ReplayStep(after[i - 1], events[i])
              /\ Replay(it, events) = after[Len(events)]
<1> DEFINE n == Len(events)
           base == [item |-> it, left |-> <<>>]
           step == [i \in 1..n |-> [acc \in Replayed |-> ReplayStep(acc, events[i])]]
           Code(g) == g = [i \in 0..n |-> IF i = 0 THEN base ELSE ReplayStep(g[i - 1], events[i])]
<1>1. n \in Nat /\ base \in Replayed
  BY DEF Replayed
<1>2. ASSUME NEW acc \in Replayed, NEW event \in ResponseEvent
      PROVE  ReplayStep(acc, event) \in Replayed
  <2>1. acc.item \in ResponseItem /\ acc.left \in Seq(ResponseEvent)
    BY DEF Replayed
  <2>2. Updated(acc.item, event) \in ResponseItem
    BY <2>1, UpdatedType
  <2> QED BY <2>1, <2>2 DEF ReplayStep, Replayed
<1>3. step \in LoopSteps(n, Replayed)
  BY <1>2 DEF LoopSteps
<1>4. \E g : g \in LoopValues(n, Replayed, base, step)
  <2> HIDE DEF n, base, step
  <2> QED BY <1>1, <1>3, LoopExists
<1>5. PICK g : Code(g)
  <2>1. PICK g \in [0..n -> Replayed] :
           g[0] = base /\ \A i \in 1..n : g[i] = step[i][g[i - 1]]
    <3> HIDE DEF base, step
    <3> QED BY <1>4 DEF LoopValues
  <2>2. ASSUME NEW i \in 0..n
        PROVE  g[i] = IF i = 0 THEN base ELSE ReplayStep(g[i - 1], events[i])
    <3>1. i # 0 => i \in 1..n /\ g[i - 1] \in Replayed
      BY <1>1
    <3> QED BY <2>1, <3>1
  <2> QED BY <2>2
<1> DEFINE after == CHOOSE g2 : Code(g2)
<1>6. Code(after)
  BY <1>5
<1>7. Replay(it, events) = after[n]
  BY Zenon DEF Replay, ReplayStep
<1>8. after[0] = base /\ \A i \in 1..n : after[i] = ReplayStep(after[i - 1], events[i])
  <2> HIDE DEF after, base
  <2>1. 0 \in 0..n /\ \A i \in 1..n : i \in 0..n /\ i # 0
    BY <1>1
  <2> QED BY <1>6, <2>1
<1>9. after \in [0..n -> Replayed]
  <2>1. after = [i \in 0..n |-> after[i]]
    BY <1>6
  <2> HIDE DEF after
  <2>2. \A i \in 1..n : after[i - 1] \in Replayed => after[i] \in Replayed
    BY <1>2, <1>8
  <2>3. after[0] \in Replayed
    BY <1>1, <1>8
  <2> HIDE DEF n, base
  <2> QED BY <1>1, <2>1, <2>2, <2>3, LoopStays
<1> HIDE DEF after
<1> QED BY <1>7, <1>8, <1>9

LEMMA ReplayType ==
    ASSUME NEW it \in ResponseItem, NEW events \in Seq(ResponseEvent)
    PROVE  Replay(it, events) \in Replayed
<1>1. PICK after \in [0..Len(events) -> Replayed] : Replay(it, events) = after[Len(events)]
  BY ReplayLoop
<1>2. Len(events) \in 0..Len(events)
  OBVIOUS
<1> QED BY <1>1, <1>2

\* The item that remember takes in, and what is left waiting.
Taken(st, it) ==
    Replay(IF Place(st.output, it) = 0 THEN it
           ELSE MergedItem(st.output[Place(st.output, it)].item, it), st.pending)

\* What Remember leaves, by whether the item is new, known or done.
LEMMA RememberType ==
    ASSUME NEW st \in ResponseState, NEW it \in ResponseItem, NEW finished \in BOOLEAN
    PROVE  /\ Remember(st, it, finished) \in ResponseState
           /\ Remember(st, it, finished).completed = st.completed
           /\ Remember(st, it, finished).error = st.error
           /\ Remember(st, it, finished).pending = Taken(st, it).left
           /\ Place(st.output, it) = 0 =>
                Remember(st, it, finished).output =
                  Append(st.output, [item |-> Taken(st, it).item, done |-> finished, rec |-> 0])
           /\ Place(st.output, it) # 0 /\ ~st.output[Place(st.output, it)].done =>
                Remember(st, it, finished).output =
                  [st.output EXCEPT ![Place(st.output, it)] =
                     [item |-> Taken(st, it).item, done |-> finished,
                      rec |-> st.output[Place(st.output, it)].rec]]
<1> DEFINE place == Place(st.output, it)
           merged == IF place = 0 THEN it ELSE MergedItem(st.output[place].item, it)
           taken == Replay(merged, st.pending)
           new == [item |-> taken.item, done |-> finished, rec |-> 0]
           changed == [item |-> taken.item, done |-> finished, rec |-> st.output[place].rec]
           out == IF place = 0 THEN Append(st.output, new)
                  ELSE IF st.output[place].done THEN st.output
                  ELSE [st.output EXCEPT ![place] = changed]
<1>1. /\ st.output \in Seq(OutputState) /\ st.pending \in Seq(ResponseEvent)
      /\ st = [output |-> st.output, pending |-> st.pending, completed |-> st.completed,
               error |-> st.error]
  BY DEF ResponseState
<1>2. place \in 0..Len(st.output)
  BY <1>1, PlaceFound
<1>3. place # 0 => st.output[place] \in OutputState
  BY <1>1, <1>2
<1>4. merged \in ResponseItem
  <2>1. CASE place = 0
    BY <2>1
  <2>2. CASE place # 0
    <3>1. st.output[place].item \in ResponseItem
      BY <1>3, <2>2 DEF OutputState
    <3> HIDE DEF place
    <3> QED BY <2>2, <3>1, MergedType
  <2> QED BY <2>1, <2>2
<1>5. taken.item \in ResponseItem /\ taken.left \in Seq(ResponseEvent)
  <2> HIDE DEF merged
  <2> QED BY <1>1, <1>4, ReplayType DEF Replayed
<1> HIDE DEF taken
<1>6. new \in OutputState /\ (place # 0 => changed \in OutputState)
  BY <1>3, <1>5 DEF OutputState
<1> HIDE DEF new, changed
<1>7. out \in Seq(OutputState)
  <2> HIDE DEF place
  <2> QED BY <1>1, <1>2, <1>6
<1>8. Remember(st, it, finished) = [st EXCEPT !.output = out, !.pending = taken.left]
  BY Zenon DEF Remember, out, new, changed, taken, merged, place
<1>9. Remember(st, it, finished) \in ResponseState
  <2> HIDE DEF out
  <2> QED BY <1>5, <1>7, <1>8 DEF ResponseState
<1>10. /\ Remember(st, it, finished).output = out
       /\ Remember(st, it, finished).pending = taken.left
       /\ Remember(st, it, finished).completed = st.completed
       /\ Remember(st, it, finished).error = st.error
  <2> HIDE DEF out
  <2> QED BY <1>8 DEF ResponseState
<1>11. taken = Taken(st, it)
  BY Zenon DEF Taken, taken, merged, place
<1> QED BY <1>9, <1>10, <1>11 DEF new, changed

LEMMA AppliedType ==
    ASSUME NEW st \in ResponseState, NEW event \in ResponseEvent
    PROVE  /\ Applied(st, event) \in ResponseState
           /\ Applied(st, event).completed = st.completed
           /\ Applied(st, event).error = st.error
           /\ LET place == Target(st.output, event)
                  entry == st.output[place]
              IN  /\ place = 0 =>
                       /\ Applied(st, event).output = st.output
                       /\ Applied(st, event).pending = Append(st.pending, event)
                  /\ place # 0 =>
                       /\ Applied(st, event).pending = st.pending
                       /\ Applied(st, event).output =
                            [st.output EXCEPT ![place] =
                               [entry EXCEPT !.item = Updated(entry.item, event)]]
<1> DEFINE place == Target(st.output, event)
           entry == st.output[place]
           changed == [entry EXCEPT !.item = Updated(entry.item, event)]
           out == [st.output EXCEPT ![place] = changed]
           waits == Append(st.pending, event)
<1>1. st.output \in Seq(OutputState) /\ st.pending \in Seq(ResponseEvent)
  BY DEF ResponseState
<1>2. place \in 0..Len(st.output)
  BY <1>1, TargetFound
<1>3. place # 0 => entry \in OutputState
  BY <1>1, <1>2
<1>4. place # 0 => changed \in OutputState
  <2>1. place # 0 => entry.item \in ResponseItem
    BY <1>3 DEF OutputState
  <2> DEFINE item == Updated(entry.item, event)
  <2>2. place # 0 => item \in ResponseItem
    BY <2>1, UpdatedType
  <2>3. changed = [entry EXCEPT !.item = item]
    OBVIOUS
  <2> HIDE DEF item, entry, changed
  <2> QED BY <1>3, <2>2, <2>3 DEF OutputState
<1> HIDE DEF changed
<1>5. place # 0 => out \in Seq(OutputState)
  <2> HIDE DEF place
  <2> QED BY <1>1, <1>2, <1>4
<1>6. waits \in Seq(ResponseEvent)
  BY <1>1
<1>7. Applied(st, event) = IF place = 0 THEN [st EXCEPT !.pending = waits]
                           ELSE [st EXCEPT !.output = out]
  BY Zenon DEF Applied, Target, changed
<1> HIDE DEF out, waits
<1>8. CASE place = 0
  <2> HIDE DEF place
  <2>1. Applied(st, event) = [st EXCEPT !.pending = waits]
    BY <1>7, <1>8
  <2> QED BY <1>6, <1>8, <2>1 DEF ResponseState, waits, place
<1>9. CASE place # 0
  <2> HIDE DEF place
  <2>1. Applied(st, event) = [st EXCEPT !.output = out]
    BY <1>7, <1>9
  <2> QED BY <1>5, <1>9, <2>1 DEF ResponseState, out, changed, place
<1> QED BY <1>8, <1>9

LEMMA RememberNew ==
    ASSUME NEW st \in ResponseState, NEW it \in ResponseItem, NEW finished \in BOOLEAN,
           Place(st.output, it) = 0
    PROVE  /\ Remember(st, it, finished).output =
                Append(st.output, [item |-> Replay(it, st.pending).item, done |-> finished, rec |-> 0])
           /\ Remember(st, it, finished).pending = Replay(it, st.pending).left
<1>1. Taken(st, it) = Replay(it, st.pending)
  BY DEF Taken
<1>2. /\ Remember(st, it, finished).output =
              Append(st.output, [item |-> Taken(st, it).item, done |-> finished, rec |-> 0])
      /\ Remember(st, it, finished).pending = Taken(st, it).left
  BY RememberType
<1> QED BY <1>1, <1>2, Zenon

LEMMA RememberKnown ==
    ASSUME NEW st \in ResponseState, NEW it \in ResponseItem, NEW finished \in BOOLEAN,
           Place(st.output, it) # 0, ~st.output[Place(st.output, it)].done
    PROVE  /\ Remember(st, it, finished).output =
                [st.output EXCEPT ![Place(st.output, it)] =
                   [item |-> Replay(MergedItem(st.output[Place(st.output, it)].item, it),
                                    st.pending).item,
                    done |-> finished, rec |-> st.output[Place(st.output, it)].rec]]
           /\ Remember(st, it, finished).pending =
                Replay(MergedItem(st.output[Place(st.output, it)].item, it), st.pending).left
<1>1. Taken(st, it) = Replay(MergedItem(st.output[Place(st.output, it)].item, it), st.pending)
  BY DEF Taken
<1>2. /\ Remember(st, it, finished).output =
           [st.output EXCEPT ![Place(st.output, it)] =
              [item |-> Taken(st, it).item, done |-> finished,
               rec |-> st.output[Place(st.output, it)].rec]]
      /\ Remember(st, it, finished).pending = Taken(st, it).left
  BY RememberType
<1> QED BY Zenon, <1>1, <1>2

\* The loop of complete_with over the listed items.
ListStep(acc, i, it) == IF Known(acc, i, it) THEN acc ELSE Remember(acc, it, TRUE)

LEMMA ListLoop ==
    ASSUME NEW st \in ResponseState, NEW list \in Seq(ResponseItem)
    PROVE  \E after \in [0..Len(list) -> ResponseState] :
              /\ after[0] = st
              /\ \A i \in 1..Len(list) : after[i] = ListStep(after[i - 1], i, list[i])
              /\ Listed(st, list) = after[Len(list)]
<1> DEFINE n == Len(list)
           step == [i \in 1..n |-> [acc \in ResponseState |-> ListStep(acc, i, list[i])]]
           Code(g) == g = [i \in 0..n |-> IF i = 0 THEN st ELSE ListStep(g[i - 1], i, list[i])]
<1>1. n \in Nat
  OBVIOUS
<1>2. ASSUME NEW acc \in ResponseState, NEW i \in 1..n
      PROVE  ListStep(acc, i, list[i]) \in ResponseState
  <2>1. list[i] \in ResponseItem
    OBVIOUS
  <2>2. Remember(acc, list[i], TRUE) \in ResponseState
    BY <2>1, RememberType
  <2> QED BY <2>2 DEF ListStep
<1>3. step \in LoopSteps(n, ResponseState)
  BY <1>2 DEF LoopSteps
<1>4. \E g : g \in LoopValues(n, ResponseState, st, step)
  <2> HIDE DEF n, step
  <2> QED BY <1>1, <1>3, LoopExists
<1>5. PICK g : Code(g)
  <2>1. PICK g \in [0..n -> ResponseState] :
           g[0] = st /\ \A i \in 1..n : g[i] = step[i][g[i - 1]]
    <3> HIDE DEF step
    <3> QED BY <1>4 DEF LoopValues
  <2>2. ASSUME NEW i \in 0..n
        PROVE  g[i] = IF i = 0 THEN st ELSE ListStep(g[i - 1], i, list[i])
    <3>1. i # 0 => i \in 1..n /\ g[i - 1] \in ResponseState
      BY <1>1
    <3> QED BY <2>1, <3>1
  <2> QED BY <2>2
<1> DEFINE after == CHOOSE g2 : Code(g2)
<1>6. Code(after)
  BY <1>5
<1>7. Listed(st, list) = after[n]
  BY Zenon DEF Listed, ListStep
<1>8. after[0] = st /\ \A i \in 1..n : after[i] = ListStep(after[i - 1], i, list[i])
  <2> HIDE DEF after
  <2>1. 0 \in 0..n /\ \A i \in 1..n : i \in 0..n /\ i # 0
    BY <1>1
  <2> QED BY <1>6, <2>1
<1>9. after \in [0..n -> ResponseState]
  <2>1. after = [i \in 0..n |-> after[i]]
    BY <1>6
  <2> HIDE DEF after
  <2>2. \A i \in 1..n : after[i - 1] \in ResponseState => after[i] \in ResponseState
    BY <1>2, <1>8
  <2> HIDE DEF n
  <2> QED BY <1>1, <1>8, <2>1, <2>2, LoopStays
<1> HIDE DEF after
<1> QED BY <1>7, <1>8, <1>9

LEMMA ListedType ==
    ASSUME NEW st \in ResponseState, NEW list \in Seq(ResponseItem)
    PROVE  Listed(st, list) \in ResponseState
<1>1. PICK after \in [0..Len(list) -> ResponseState] : Listed(st, list) = after[Len(list)]
  BY ListLoop
<1>2. Len(list) \in 0..Len(list)
  OBVIOUS
<1> QED BY <1>1, <1>2

\* The state once text without an item is taken for a message.
ToldOf(listed) ==
    IF listed.output = <<>>
       /\ \E e \in DOMAIN listed.pending : listed.pending[e].item.kind = "message"
    THEN Remember(listed, MessageOfPieces, FALSE) ELSE listed

AllDone(output) == [o \in DOMAIN output |-> [output[o] EXCEPT !.done = TRUE]]

LEMMA ToldType ==
    ASSUME NEW listed \in ResponseState
    PROVE  ToldOf(listed) \in ResponseState
<1>1. MessageOfPieces \in ResponseItem
  BY DEF MessageOfPieces, ResponseItem
<1>2. Remember(listed, MessageOfPieces, FALSE) \in ResponseState
  BY <1>1, RememberType
<1> QED BY <1>2 DEF ToldOf

LEMMA CompletedType ==
    ASSUME NEW st \in ResponseState, NEW list \in Seq(ResponseItem)
    PROVE  LET told == ToldOf(Listed(st, list))
           IN  /\ CompletedWith(st, list) \in ResponseState
               /\ CompletedWith(st, list).completed = TRUE
               /\ CompletedWith(st, list).output = AllDone(told.output)
<1> DEFINE told == ToldOf(Listed(st, list))
           out == AllDone(told.output)
<1>1. told \in ResponseState
  BY ListedType, ToldType
<1>2. CompletedWith(st, list) = [told EXCEPT !.completed = TRUE, !.output = out]
  BY Zenon DEF CompletedWith, ToldOf, AllDone
<1> HIDE DEF told
<1>3. out \in Seq(OutputState)
  <2>1. told.output \in Seq(OutputState)
    BY <1>1 DEF ResponseState
  <2>2. \A o \in DOMAIN told.output : [told.output[o] EXCEPT !.done = TRUE] \in OutputState
    <3>1. \A o \in DOMAIN told.output : told.output[o] \in OutputState
      BY <2>1
    <3>2. ASSUME NEW entry \in OutputState PROVE [entry EXCEPT !.done = TRUE] \in OutputState
      BY DEF OutputState
    <3> QED BY <3>1, <3>2
  <2>3. DOMAIN told.output = 1..Len(told.output) /\ Len(told.output) \in Nat
    BY <2>1
  <2> QED BY <2>2, <2>3 DEF AllDone
<1> HIDE DEF out
<1>4. CompletedWith(st, list) \in ResponseState
  BY <1>1, <1>2, <1>3 DEF ResponseState
<1>5. CompletedWith(st, list).completed = TRUE /\ CompletedWith(st, list).output = out
  BY <1>1, <1>2 DEF ResponseState
<1> QED BY <1>4, <1>5 DEF out, told

\* The record an item has already is one of its call.
LEMMA RecordFound ==
    ASSUME NEW history \in Seq(ResponseItem), NEW it \in ResponseItem
    PROVE  /\ RecordOf(history, it) \in 0..Len(history)
           /\ RecordOf(history, it) # 0 => history[RecordOf(history, it)].call = it.call
<1> DEFINE Calls == {h \in 1..Len(history) :
                       history[h].kind = "function_call" /\ history[h].call = it.call}
           first == Min(Calls)
<1>1. RecordOf(history, it) =
        IF it.kind = "function_call" THEN IF Calls # {} THEN first ELSE 0 ELSE 0
  BY DEF RecordOf, SelectInSeq
<1>2. Len(history) \in Nat /\ Calls \in SUBSET (1..Len(history))
  OBVIOUS
<1>3. Calls # {} => first \in Calls
  <2> HIDE DEF Calls
  <2> QED BY <1>2, FirstAndLast
<1> HIDE DEF first
<1> QED BY <1>1, <1>2, <1>3

\* What append_response_output_items goes through, item by item.
RecordType(n) ==
    {acc \in [history : Seq(ResponseItem), ok : BOOLEAN, st : ResponseState] :
        Len(acc.st.output) = n}

\* The item at place o gets a new record.
NewRecord(acc, o, new) ==
    LET entry == acc.st.output[o]
    IN  /\ new.history = Append(acc.history, entry.item)
        /\ new.st.output =
             [acc.st.output EXCEPT ![o] = [entry EXCEPT !.rec = Len(acc.history) + 1]]

LEMMA RecordedType ==
    ASSUME NEW n \in Nat, NEW acc \in RecordType(n), NEW o \in 1..n
    PROVE  /\ Recorded(acc, o) \in RecordType(n)
           /\ RecordOf(acc.history, acc.st.output[o].item) = 0 => NewRecord(acc, o, Recorded(acc, o))
<1> DEFINE entry == acc.st.output[o]
           known == RecordOf(acc.history, entry.item)
           history == IF known = 0 THEN Append(acc.history, entry.item) ELSE acc.history
           rec == IF known = 0 THEN Len(history) ELSE known
           ok == acc.ok /\ (known = 0 \/ acc.history[known] = entry.item)
           changed == [entry EXCEPT !.rec = rec]
           out == [acc.st.output EXCEPT ![o] = changed]
           st == [acc.st EXCEPT !.output = out]
<1>1. /\ acc.history \in Seq(ResponseItem) /\ acc.ok \in BOOLEAN
      /\ acc.st \in ResponseState /\ Len(acc.st.output) = n
  BY DEF RecordType
<1>2. acc.st.output \in Seq(OutputState)
  BY <1>1 DEF ResponseState
<1>3. entry \in OutputState
  BY <1>1, <1>2
<1>4. entry.item \in ResponseItem
  BY <1>3 DEF OutputState
<1> HIDE DEF entry
<1>5. known \in 0..Len(acc.history)
  BY <1>1, <1>4, RecordFound
<1> HIDE DEF known
<1>6. /\ history \in Seq(ResponseItem)
      /\ known = 0 => Len(history) = Len(acc.history) + 1
      /\ rec \in Nat
  BY <1>1, <1>4, <1>5
<1>7. changed \in OutputState
  <2> HIDE DEF rec
  <2> QED BY <1>3, <1>6 DEF OutputState
<1>8. out \in Seq(OutputState) /\ Len(out) = n
  <2> HIDE DEF changed
  <2> QED BY <1>1, <1>2, <1>7
<1>9. st \in ResponseState /\ st.output = out
  <2> HIDE DEF out
  <2> QED BY <1>1, <1>8 DEF ResponseState
<1>10. Recorded(acc, o) = [history |-> history, ok |-> ok, st |-> st]
  BY Zenon DEF Recorded, entry, known
<1>11. ok \in BOOLEAN /\ (known = 0 => ok = acc.ok)
  BY <1>1
<1> HIDE DEF history, ok, st
<1>12. /\ Recorded(acc, o) \in RecordType(n)
       /\ Recorded(acc, o).history = history /\ Recorded(acc, o).ok = ok
       /\ Recorded(acc, o).st.output = out
  <2> HIDE DEF out
  <2> QED BY <1>6, <1>8, <1>9, <1>10, <1>11 DEF RecordType
<1>13. known = 0 => history = Append(acc.history, entry.item) /\ rec = Len(acc.history) + 1
  BY <1>6 DEF history
<1> HIDE DEF rec
<1> QED BY <1>11, <1>12, <1>13 DEF known, entry, NewRecord

RecordStep(acc, o, places) == IF o \in places THEN Recorded(acc, o) ELSE acc

\* The values the loop goes through.
RecordRuns(st, places) ==
    {after \in [0..Len(st.output) -> RecordType(Len(st.output))] :
       /\ after[0] = [history |-> rsHistory, ok |-> TRUE, st |-> st]
       /\ \A o \in 1..Len(st.output) : after[o] = RecordStep(after[o - 1], o, places)}

LEMMA RecordLoop ==
    ASSUME NEW st \in ResponseState, NEW places, rsHistory \in Seq(ResponseItem)
    PROVE  \E after \in RecordRuns(st, places) :
              RecordAll(st, places) = after[Len(st.output)]
<1> DEFINE n == Len(st.output)
           S == RecordType(n)
           base == [history |-> rsHistory, ok |-> TRUE, st |-> st]
           step == [i \in 1..n |-> [acc \in S |-> RecordStep(acc, i, places)]]
           Code(g) == g = [i \in 0..n |-> IF i = 0 THEN base ELSE RecordStep(g[i - 1], i, places)]
<1>1. n \in Nat /\ base \in S
  <2>1. n \in Nat
    BY DEF ResponseState
  <2> QED BY <2>1 DEF RecordType
<1>2. ASSUME NEW acc \in S, NEW i \in 1..n
      PROVE  RecordStep(acc, i, places) \in S
  <2> HIDE DEF n
  <2> QED BY <1>1, RecordedType DEF RecordStep
<1>3. step \in LoopSteps(n, S)
  <2> HIDE DEF S
  <2> QED BY <1>2 DEF LoopSteps
<1>4. \E g : g \in LoopValues(n, S, base, step)
  <2> HIDE DEF n, base, step, S
  <2> QED BY <1>1, <1>3, LoopExists
<1>5. PICK g : Code(g)
  <2>1. PICK g \in [0..n -> S] :
           g[0] = base /\ \A i \in 1..n : g[i] = step[i][g[i - 1]]
    <3> HIDE DEF base, step, S
    <3> QED BY <1>4 DEF LoopValues
  <2>2. ASSUME NEW i \in 0..n
        PROVE  g[i] = IF i = 0 THEN base ELSE RecordStep(g[i - 1], i, places)
    <3> HIDE DEF base, S
    <3>1. i # 0 => i \in 1..n /\ g[i - 1] \in S
      BY <1>1
    <3> QED BY <2>1, <3>1
  <2> QED BY <2>2
<1> DEFINE after == CHOOSE g2 : Code(g2)
<1>6. Code(after)
  BY <1>5
<1>7. RecordAll(st, places) = after[n]
  BY Zenon DEF RecordAll, RecordStep
<1>8. after[0] = base /\ \A i \in 1..n : after[i] = RecordStep(after[i - 1], i, places)
  <2> HIDE DEF after, base
  <2>1. 0 \in 0..n /\ \A i \in 1..n : i \in 0..n /\ i # 0
    BY <1>1
  <2> QED BY <1>6, <2>1
<1>9. after \in [0..n -> S]
  <2>1. after = [i \in 0..n |-> after[i]]
    BY <1>6
  <2> HIDE DEF after, S, base
  <2>2. \A i \in 1..n : after[i - 1] \in S => after[i] \in S
    BY <1>2, <1>8
  <2> HIDE DEF n
  <2> QED BY <1>1, <1>8, <2>1, <2>2, LoopStays
<1> HIDE DEF after
<1>10. after \in RecordRuns(st, places)
  <2> HIDE DEF S
  <2> QED BY <1>8, <1>9 DEF RecordRuns, S
<1> QED BY <1>7, <1>10

LEMMA RecordAllType ==
    ASSUME NEW st \in ResponseState, NEW places, rsHistory \in Seq(ResponseItem)
    PROVE  /\ RecordAll(st, places).history \in Seq(ResponseItem)
           /\ RecordAll(st, places).st \in ResponseState
<1> DEFINE n == Len(st.output)
<1>0. PICK after \in RecordRuns(st, places) : RecordAll(st, places) = after[n]
  BY RecordLoop
<1>1. after \in [0..n -> RecordType(n)] /\ RecordAll(st, places) = after[n]
  BY <1>0 DEF RecordRuns
<1>2. n \in 0..n
  BY DEF ResponseState
<1>3. RecordAll(st, places) \in RecordType(n)
  BY <1>1, <1>2
<1> QED BY <1>3 DEF RecordType

-----------------------------------------------------------------------------
(* The type invariant of a response.                                       *)

Results == {"none", "ok", "cancelled", "overflow", "transient", "unavailable", "internal"}
RequestStates ==
    [phase : {"send", "stream", "done"}, portable : BOOLEAN, stop : BOOLEAN, result : Results]
AuditStates ==
    [status : {"in_flight", "completed", "failed", "cancelled"}, dirty : BOOLEAN]

\* What a provider sends are items, and an item has its place in the script.
LEMMA ScriptItems ==
    ASSUME rsScript \in Scripts
    PROVE  /\ Len(rsScript) \in 1..MaxRsItems /\ DOMAIN rsScript = 1..Len(rsScript)
           /\ \A i \in DOMAIN rsScript : rsScript[i] \in ScriptItem /\ Sendable(rsScript[i])
           /\ Tellable(rsScript) /\ (SelfContained(rsScript) \/ Listable(rsScript))
<1>1. PICK n \in 1..MaxRsItems :
         /\ rsScript \in [1..n -> {it \in ScriptItem : Sendable(it)}]
         /\ Tellable(rsScript) /\ (SelfContained(rsScript) \/ Listable(rsScript))
  BY DEF Scripts
<1>2. DOMAIN rsScript = 1..n /\ n \in Nat
  BY <1>1, ResponseStreamAssumption
<1>3. Len(rsScript) = n
  BY <1>1, <1>2
<1> QED BY <1>1, <1>2, <1>3

LEMMA ItemOfType ==
    ASSUME rsScript \in Scripts, NEW i \in DOMAIN rsScript, NEW text \in Seq(Nat)
    PROVE  ItemOf(i, text) \in ResponseItem
<1>1. rsScript[i].kind \in {"message", "function_call"} /\ i \in Nat
  BY ScriptItems DEF ScriptItem
<1> QED BY <1>1 DEF ItemOf, ResponseItem

LEMMA UpdateType ==
    ASSUME rsScript \in Scripts, NEW i \in DOMAIN rsScript, NEW text \in Seq(Nat),
           NEW type \in {"delta", "done"}
    PROVE  Update(type, i, text) \in ResponseEvent
  BY ItemOfType DEF Update, ResponseEvent

LEMMA WholeType == Whole \in Seq(Nat) /\ Len(Whole) = MaxPieces /\ MaxPieces \in Nat \ {0}
  BY ResponseStreamAssumption DEF Whole

LEMMA EndType ==
    ASSUME rsRequest \in RequestStates, NEW result \in Results, NEW audit \in AuditStates,
           RsEnd(result, audit)
    PROVE  rsRequest' \in RequestStates /\ rsAudit' \in AuditStates
           /\ rsRequest'.phase = "done" /\ rsRequest'.result = result
<1>1. rsRequest' = [rsRequest EXCEPT !.phase = "done", !.result = result]
  BY DEF RsEnd
<1>2. rsRequest' \in RequestStates /\ rsRequest'.phase = "done" /\ rsRequest'.result = result
  BY <1>1 DEF RequestStates
<1>3. \E s \in {"completed", "cancelled", "failed"} : rsAudit' = AuditFinished(audit, s)
  BY Zenon DEF RsEnd
<1>4. rsAudit' \in AuditStates
  BY <1>3 DEF AuditFinished, AuditStates
<1> QED BY <1>2, <1>4

LEMMA SavedType ==
    ASSUME NEW st, rsAudit \in AuditStates
    PROVE  SavedAudit(st) \in AuditStates
  BY DEF SavedAudit, AuditStates

\* The stream consumes an event: the variables it changes keep their types.
LEMMA ConsumeType ==
    ASSUME RsTypeOK, NEW st \in ResponseState, NEW places, Consume(st, places)
    PROVE  /\ rsState' \in ResponseState /\ rsHistory' \in Seq(ResponseItem)
           /\ rsRequest' \in RequestStates /\ rsAudit' \in AuditStates
           /\ rsFaults' \in 0..MaxRsFaults
<1> DEFINE all == RecordAll(st, places)
<1>1. /\ rsHistory \in Seq(ResponseItem) /\ rsRequest \in RequestStates
      /\ rsAudit \in AuditStates /\ rsFaults \in 0..MaxRsFaults
  BY DEF RsTypeOK, RequestStates, AuditStates, Results
<1>2. all.history \in Seq(ResponseItem) /\ all.st \in ResponseState
  BY <1>1, RecordAllType
<1>3. SavedAudit(all.st) \in AuditStates
  BY <1>1, SavedType
<1> DEFINE Kept == /\ all.ok /\ rsHistory' = all.history /\ rsState' = all.st
                   /\ IF st.completed THEN RsEnd("ok", SavedAudit(all.st))
                      ELSE /\ rsAudit' = IF places = {} THEN [rsAudit EXCEPT !.dirty = TRUE]
                                         ELSE SavedAudit(all.st)
                           /\ UNCHANGED rsRequest
                   /\ UNCHANGED rsFaults
           Refused == /\ rsState' = st /\ RsEnd("unavailable", rsAudit)
                      /\ UNCHANGED <<rsHistory, rsFaults>>
           Lost == /\ RsFault
                   /\ \E at \in {"append", "save"} :
                        rsHistory' = IF at = "save" THEN all.history ELSE rsHistory
                   /\ rsState' = st /\ RsEnd("internal", rsAudit)
<1>4. Kept \/ Refused \/ Lost
  BY Zenon DEF Consume
<1> HIDE DEF all
<1>5. CASE Kept
  <2>1. CASE st.completed
    BY <1>1, <1>2, <1>3, <1>5, <2>1, EndType DEF Results
  <2>2. CASE ~st.completed
    <3>1. [rsAudit EXCEPT !.dirty = TRUE] \in AuditStates
      BY <1>1 DEF AuditStates
    <3> QED BY <1>1, <1>2, <1>3, <1>5, <2>2, <3>1
  <2> QED BY <2>1, <2>2
<1>6. CASE Refused
  BY <1>1, <1>6, EndType DEF Results
<1>7. CASE Lost
  <2>1. rsFaults' \in 0..MaxRsFaults
    BY <1>1, <1>7, ResponseStreamAssumption DEF RsFault
  <2>2. RsEnd("internal", rsAudit) /\ "internal" \in Results
    BY <1>7 DEF Results
  <2>3. rsRequest' \in RequestStates /\ rsAudit' \in AuditStates
    BY <1>1, <2>2, EndType
  <2> QED BY <1>1, <1>2, <1>7, <2>1, <2>3
<1> QED BY <1>4, <1>5, <1>6, <1>7

WireStates == [n : 1..(MaxRsItems + 1), open : BOOLEAN, sent : 0..(MaxPieces + 1)]

LEMMA RsTypes ==
    RsTypeOK <=> /\ rsScript \in Scripts /\ rsWire \in WireStates
                 /\ rsState \in ResponseState /\ rsHistory \in Seq(ResponseItem)
                 /\ rsRequest \in RequestStates /\ rsAudit \in AuditStates
                 /\ rsFaults \in 0..MaxRsFaults
  BY DEF RsTypeOK, WireStates, RequestStates, AuditStates, Results

\* An item the provider is telling is one of the script.
LEMMA ProducingItem ==
    ASSUME RsTypeOK, Producing
    PROVE  /\ rsWire.n \in DOMAIN rsScript /\ rsWire.n + 1 \in 1..(MaxRsItems + 1)
           /\ rsScript[rsWire.n] \in ScriptItem
           /\ rsWire.sent \in 0..(MaxPieces + 1)
<1>1. rsWire.n \in 1..(MaxRsItems + 1) /\ rsWire.n <= Len(rsScript)
        /\ rsWire.sent \in 0..(MaxPieces + 1)
  BY DEF RsTypeOK, Producing
<1>2. /\ Len(rsScript) \in 1..MaxRsItems /\ DOMAIN rsScript = 1..Len(rsScript)
      /\ \A i \in DOMAIN rsScript : rsScript[i] \in ScriptItem
  BY ScriptItems DEF RsTypeOK
<1>3. MaxRsItems \in Nat
  BY ResponseStreamAssumption
<1> QED BY <1>1, <1>2, <1>3

LEMMA ItemAddedType ==
    ASSUME RsTypeOK, ItemAdded
    PROVE  RsTypeOK'
<1> DEFINE it == ItemOf(rsWire.n, <<>>)
           st == Remember(rsState, it, FALSE)
<1>1. Producing /\ UNCHANGED rsScript /\ rsWire' = [rsWire EXCEPT !.open = TRUE]
        /\ Consume(st, {})
  BY Zenon DEF ItemAdded
<1>2. it \in ResponseItem
  <2>1. <<>> \in Seq(Nat)
    OBVIOUS
  <2> QED BY <1>1, <2>1, ProducingItem, ItemOfType DEF RsTypeOK
<1> HIDE DEF it
<1>3. st \in ResponseState
  BY <1>2, RememberType DEF RsTypeOK
<1> HIDE DEF st
<1>4. rsWire' \in WireStates
  BY <1>1, RsTypes DEF WireStates
<1>5. /\ rsState' \in ResponseState /\ rsHistory' \in Seq(ResponseItem)
      /\ rsRequest' \in RequestStates /\ rsAudit' \in AuditStates /\ rsFaults' \in 0..MaxRsFaults
  BY <1>1, <1>3, ConsumeType
<1>6. rsScript' \in Scripts
  BY <1>1, RsTypes
<1> QED BY <1>4, <1>5, <1>6 DEF RsTypeOK, WireStates, RequestStates, AuditStates, Results

LEMMA PieceType ==
    ASSUME NEW k \in Nat, k < MaxPieces
    PROVE  Whole[k + 1] = k + 1 /\ <<Whole[k + 1]>> \in Seq(Nat)
<1>1. k + 1 \in 1..MaxPieces
  BY ResponseStreamAssumption
<1>2. Whole[k + 1] = k + 1
  BY <1>1 DEF Whole
<1> QED BY <1>2

\* An update of the item being told.
LEMMA UpdateStep ==
    ASSUME RsTypeOK, Told, NEW type \in {"delta", "done"}, NEW text \in Seq(Nat),
           rsWire.sent <= MaxPieces, rsWire' = [rsWire EXCEPT !.sent = @ + 1],
           UNCHANGED rsScript,
           Consume(Applied(rsState, Update(type, rsWire.n, text)), {})
    PROVE  RsTypeOK'
<1> DEFINE event == Update(type, rsWire.n, text)
           st == Applied(rsState, event)
<1>1. Producing
  BY DEF Told
<1>2. event \in ResponseEvent
  BY <1>1, ProducingItem, UpdateType DEF RsTypeOK
<1> HIDE DEF event
<1>3. st \in ResponseState
  BY <1>2, AppliedType DEF RsTypeOK
<1>4. Consume(st, {})
  BY Zenon DEF event
<1> HIDE DEF st
<1>5. rsWire.sent + 1 \in 0..(MaxPieces + 1)
  BY <1>1, ProducingItem, WholeType
<1>6. rsWire' \in WireStates
  BY <1>5, RsTypes DEF WireStates
<1>7. /\ rsState' \in ResponseState /\ rsHistory' \in Seq(ResponseItem)
      /\ rsRequest' \in RequestStates /\ rsAudit' \in AuditStates /\ rsFaults' \in 0..MaxRsFaults
  BY <1>3, <1>4, ConsumeType
<1>8. rsScript' \in Scripts
  BY RsTypes
<1> QED BY <1>6, <1>7, <1>8 DEF RsTypeOK, WireStates, RequestStates, AuditStates, Results

LEMMA TextDeltaType ==
    ASSUME RsTypeOK, TextDelta
    PROVE  RsTypeOK'
<1>1. Told /\ rsWire.sent < MaxPieces
  BY DEF TextDelta
<1>2. rsWire.sent \in Nat /\ MaxPieces \in Nat
  BY <1>1, ProducingItem, ResponseStreamAssumption DEF Told
<1>3. <<Whole[rsWire.sent + 1]>> \in Seq(Nat)
  BY <1>1, <1>2, PieceType
<1>4. rsWire.sent <= MaxPieces
  BY <1>1, <1>2
<1> HIDE DEF Whole
<1> QED BY <1>1, <1>3, <1>4, UpdateStep DEF TextDelta

LEMMA TextDoneType ==
    ASSUME RsTypeOK, TextDone
    PROVE  RsTypeOK'
<1>1. Told /\ rsWire.sent <= MaxPieces
  BY WholeType DEF TextDone
<1> QED BY <1>1, WholeType, UpdateStep DEF TextDone

LEMMA NextItemType ==
    ASSUME RsTypeOK, AllSent, NextItem
    PROVE  rsWire' \in WireStates
<1>1. rsWire.n + 1 \in 1..(MaxRsItems + 1)
  BY ProducingItem DEF AllSent, Told
<1>2. 0 \in 0..(MaxPieces + 1)
  BY WholeType
<1> QED BY <1>1, <1>2 DEF NextItem, WireStates

LEMMA ItemDoneType ==
    ASSUME RsTypeOK, ItemDone
    PROVE  RsTypeOK'
<1> DEFINE text == IF Upcoming.done = "full" THEN Whole ELSE <<>>
           it == ItemOf(rsWire.n, text)
           now == Remember(rsState, it, TRUE)
           places == {Slot(rsState.output, it)} \intersect Unrecorded(now)
<1>1. AllSent /\ NextItem /\ UNCHANGED rsScript /\ Consume(now, places)
  BY Zenon DEF ItemDone
<1>2. text \in Seq(Nat)
  BY WholeType
<1>3. it \in ResponseItem
  <2> HIDE DEF text
  <2> QED BY <1>1, <1>2, ProducingItem, ItemOfType DEF RsTypeOK, AllSent, Told
<1> HIDE DEF it
<1>4. now \in ResponseState
  BY <1>3, RememberType DEF RsTypeOK
<1> HIDE DEF now, places
<1>5. rsWire' \in WireStates
  BY <1>1, NextItemType
<1>6. /\ rsState' \in ResponseState /\ rsHistory' \in Seq(ResponseItem)
      /\ rsRequest' \in RequestStates /\ rsAudit' \in AuditStates /\ rsFaults' \in 0..MaxRsFaults
  BY <1>1, <1>4, ConsumeType
<1>7. rsScript' \in Scripts
  BY <1>1, RsTypes
<1> QED BY <1>5, <1>6, <1>7 DEF RsTypeOK, WireStates, RequestStates, AuditStates, Results

\* The items the last event lists.
FullList == [n \in DOMAIN rsScript |-> ItemOf(n, Whole)]

LEMMA FullListType ==
    ASSUME rsScript \in Scripts
    PROVE  /\ FullList \in Seq(ResponseItem) /\ Len(FullList) = Len(rsScript)
           /\ \A i \in 1..Len(rsScript) : FullList[i] = ItemOf(i, Whole)
<1>1. \A i \in DOMAIN rsScript : ItemOf(i, Whole) \in ResponseItem
  BY WholeType, ItemOfType
<1>2. DOMAIN rsScript = 1..Len(rsScript) /\ Len(rsScript) \in Nat
  <2>1. Len(rsScript) \in 1..MaxRsItems /\ DOMAIN rsScript = 1..Len(rsScript)
    BY ScriptItems
  <2> QED BY <2>1, ResponseStreamAssumption
<1> HIDE DEF Whole
<1> QED BY <1>1, <1>2 DEF FullList

\* How a response is completed: from what was told, or by the list.
LEMMA CompletedBy ==
    ASSUME RsTypeOK, ResponseCompleted
    PROVE  /\ Reads /\ rsWire.n > Len(rsScript) /\ UNCHANGED <<rsScript, rsWire>>
           /\ \E list \in Seq(ResponseItem) :
                 /\ \/ SelfContained(rsScript) /\ list = <<>>
                    \/ Listable(rsScript) /\ list = FullList
                 /\ Consume(CompletedWith(rsState, list), Unrecorded(CompletedWith(rsState, list)))
<1>1. /\ Reads /\ rsWire.n > Len(rsScript) /\ UNCHANGED <<rsScript, rsWire>>
      /\ \/ /\ SelfContained(rsScript)
            /\ Consume(CompletedWith(rsState, <<>>), Unrecorded(CompletedWith(rsState, <<>>)))
         \/ /\ Listable(rsScript)
            /\ Consume(CompletedWith(rsState, FullList), Unrecorded(CompletedWith(rsState, FullList)))
  BY Zenon DEF ResponseCompleted, FullList
<1>2. <<>> \in Seq(ResponseItem) /\ FullList \in Seq(ResponseItem)
  BY FullListType DEF RsTypeOK
<1> QED BY Zenon, <1>1, <1>2

LEMMA ResponseCompletedType ==
    ASSUME RsTypeOK, ResponseCompleted
    PROVE  RsTypeOK'
<1>1. PICK list \in Seq(ResponseItem) :
         Consume(CompletedWith(rsState, list), Unrecorded(CompletedWith(rsState, list)))
  BY CompletedBy
<1>2. UNCHANGED <<rsScript, rsWire>>
  BY CompletedBy
<1> DEFINE st == CompletedWith(rsState, list)
<1>3. st \in ResponseState
  BY CompletedType DEF RsTypeOK
<1> HIDE DEF st
<1>4. /\ rsState' \in ResponseState /\ rsHistory' \in Seq(ResponseItem)
      /\ rsRequest' \in RequestStates /\ rsAudit' \in AuditStates /\ rsFaults' \in 0..MaxRsFaults
  BY <1>1, <1>3, ConsumeType DEF st
<1> QED BY <1>2, <1>4 DEF RsTypeOK, WireStates, RequestStates, AuditStates, Results

\* The steps that consume nothing.
LEMMA OtherStepType ==
    ASSUME RsTypeOK,
           \/ FieldRefused \/ RequestFails \/ RequestAnswered \/ StopRequested
           \/ ItemLeftOpen \/ ResponseFailed \/ StreamEnds \/ Flush
    PROVE  RsTypeOK'
<1>1. /\ rsScript \in Scripts /\ rsWire \in WireStates
      /\ rsState \in ResponseState /\ rsHistory \in Seq(ResponseItem)
      /\ rsRequest \in RequestStates /\ rsAudit \in AuditStates
      /\ rsFaults \in 0..MaxRsFaults
  BY RsTypes
<1> DEFINE Typed == /\ rsWire' \in WireStates /\ rsState' \in ResponseState
                    /\ rsRequest' \in RequestStates /\ rsAudit' \in AuditStates
           Kept == UNCHANGED <<rsScript, rsHistory, rsFaults>>
<1>2. ASSUME FieldRefused PROVE Typed /\ Kept
  <2>1. rsRequest' \in RequestStates
    BY <1>1, <1>2 DEF FieldRefused, RequestStates
  <2>2. UNCHANGED <<rsScript, rsWire, rsState, rsHistory, rsAudit, rsFaults>>
    BY <1>2 DEF FieldRefused
  <2> QED BY <1>1, <2>1, <2>2
<1>3. ASSUME RequestFails PROVE Typed /\ Kept
  <2>1. PICK result \in {"cancelled", "overflow", "transient", "unavailable"} :
           RsEnd(result, rsAudit)
    BY <1>3 DEF RequestFails
  <2>2. UNCHANGED <<rsScript, rsWire, rsState, rsHistory, rsFaults>>
    BY <1>3 DEF RequestFails
  <2> QED BY <1>1, <2>1, <2>2, EndType DEF Results
<1>4. ASSUME RequestAnswered PROVE Typed /\ Kept
  <2>1. rsRequest' \in RequestStates
    BY <1>1, <1>4 DEF RequestAnswered, RequestStates
  <2>2. UNCHANGED <<rsScript, rsWire, rsState, rsHistory, rsAudit, rsFaults>>
    BY <1>4 DEF RequestAnswered
  <2> QED BY <1>1, <2>1, <2>2
<1>5. ASSUME StopRequested PROVE Typed /\ Kept
  <2>1. rsRequest' \in RequestStates
    BY <1>1, <1>5 DEF StopRequested, RequestStates
  <2>2. rsAudit' \in AuditStates
    BY <1>1, <1>5 DEF StopRequested, AuditStates
  <2>3. UNCHANGED <<rsScript, rsWire, rsState, rsHistory, rsFaults>>
    BY <1>5 DEF StopRequested
  <2> QED BY <1>1, <2>1, <2>2, <2>3
<1>6. ASSUME ItemLeftOpen PROVE Typed /\ Kept
  <2>1. rsWire' \in WireStates
    BY <1>6, NextItemType DEF ItemLeftOpen
  <2>2. UNCHANGED <<rsScript, rsState, rsHistory, rsRequest, rsAudit, rsFaults>>
    BY <1>6 DEF ItemLeftOpen
  <2> QED BY <1>1, <2>1, <2>2
<1>7. ASSUME ResponseFailed PROVE Typed /\ Kept
  <2>1. rsState' \in ResponseState
    <3>1. PICK error \in UpstreamFailures : rsState' = [rsState EXCEPT !.error = error]
      BY <1>7 DEF ResponseFailed
    <3> QED BY <1>1, <3>1 DEF ResponseState
  <2>2. UNCHANGED <<rsScript, rsWire, rsHistory, rsRequest, rsAudit, rsFaults>>
    BY <1>7 DEF ResponseFailed
  <2> QED BY <1>1, <2>1, <2>2
<1>8. ASSUME StreamEnds PROVE Typed /\ Kept
  <2>1. UNCHANGED <<rsScript, rsWire, rsState, rsHistory, rsFaults>>
    BY <1>8 DEF StreamEnds
  <2>2. \A error : ApiErrorOf(error) \in {"cancelled", "overflow", "transient", "unavailable"}
    BY Zenon DEF ApiErrorOf
  <2>3. PICK error : LET api == ApiErrorOf(error)
                     IN  RsEnd(IF api = "overflow" /\ HasCall THEN "transient" ELSE api,
                               SavedAudit([rsState EXCEPT !.error = error]))
    BY Zenon, <1>8 DEF StreamEnds
  <2> DEFINE result == IF ApiErrorOf(error) = "overflow" /\ HasCall THEN "transient"
                       ELSE ApiErrorOf(error)
             st == [rsState EXCEPT !.error = error]
  <2>4. RsEnd(result, SavedAudit(st))
    BY <2>3
  <2>5. result \in Results
    <3> HIDE DEF result
    <3>1. result \in {"cancelled", "overflow", "transient", "unavailable"}
      BY <2>2 DEF result
    <3> QED BY <3>1 DEF Results
  <2> HIDE DEF result, st
  <2>6. SavedAudit(st) \in AuditStates
    BY <1>1, SavedType
  <2>7. rsRequest' \in RequestStates /\ rsAudit' \in AuditStates
    BY <1>1, <2>4, <2>5, <2>6, EndType
  <2> QED BY <1>1, <2>1, <2>7
<1>9. ASSUME Flush PROVE Typed /\ Kept
  <2>1. rsAudit' \in AuditStates
    BY <1>1, <1>9, SavedType DEF Flush
  <2>2. UNCHANGED <<rsScript, rsWire, rsState, rsHistory, rsRequest, rsFaults>>
    BY <1>9 DEF Flush
  <2> QED BY <1>1, <2>1, <2>2
<1>10. Typed /\ Kept
  BY <1>2, <1>3, <1>4, <1>5, <1>6, <1>7, <1>8, <1>9
<1> QED BY <1>1, <1>10 DEF RsTypeOK, WireStates, RequestStates, AuditStates, Results

LEMMA ResponseTypesInit ==
    ASSUME RsInit
    PROVE  RsTypeOK
<1>1. rsState \in ResponseState /\ rsHistory \in Seq(ResponseItem)
  BY DEF RsInit, NoState, ResponseState
<1>2. rsScript \in Scripts /\ rsRequest \in RequestStates /\ rsAudit \in AuditStates
        /\ rsFaults \in 0..MaxRsFaults
  BY ResponseStreamAssumption DEF RsInit, RequestStates, AuditStates, Results
<1>3. rsWire \in WireStates
  BY ResponseStreamAssumption DEF RsInit, WireStates
<1> HIDE DEF WireStates
<1> QED BY <1>1, <1>2, <1>3, RsTypes

LEMMA ResponseTypesStep ==
    ASSUME RsTypeOK, [RsNext]_rsVars
    PROVE  RsTypeOK'
<1>1. CASE RsNext
  <2>1. \/ FieldRefused \/ RequestFails \/ RequestAnswered \/ StopRequested
        \/ ItemLeftOpen \/ ResponseFailed \/ StreamEnds \/ Flush
        \/ ItemAdded \/ TextDelta \/ TextDone \/ ItemDone \/ ResponseCompleted
    BY <1>1 DEF RsNext
  <2> QED BY Zenon, <2>1, OtherStepType, ItemAddedType, TextDeltaType, TextDoneType,
             ItemDoneType, ResponseCompletedType
<1>2. CASE UNCHANGED rsVars
  BY <1>2 DEF rsVars, RsTypeOK
<1> QED BY <1>1, <1>2

\* The state of a response, its records, its request and its audit keep their
\* types, whatever the provider sends and whatever its habits.
THEOREM ResponseTypes == RsSpec => []RsTypeOK
<1>1. RsInit => RsTypeOK
  BY ResponseTypesInit
<1>2. RsTypeOK /\ [RsNext]_rsVars => RsTypeOK'
  BY ResponseTypesStep
<1> QED BY <1>1, <1>2, PTL DEF RsSpec

-----------------------------------------------------------------------------
(* What the stream has told so far.                                        *)

\* Item i has been told to the state: announced, or done.
Entered(i, wire) ==
    \/ i < wire.n /\ (rsScript[i].announced \/ rsScript[i].done # "omitted")
    \/ i = wire.n /\ wire.open

\* Item i has had its done event.
Finished(i, wire) == i < wire.n /\ rsScript[i].done # "omitted"

Pieces(k) == [p \in 1..k |-> p]

\* The pieces of the text of item i that were told.
PieceCount(i, wire) ==
    IF i = wire.n THEN IF wire.sent > MaxPieces THEN MaxPieces ELSE wire.sent
    ELSE IF Finished(i, wire) \/ rsScript[i].deltas THEN MaxPieces ELSE 0

\* An item that is not announced and whose text comes in pieces: they wait.
Waiting(i) == rsScript[i].deltas /\ ~rsScript[i].announced

\* The first m events of the text of item i.
StreamedBy(events, i, m) ==
    /\ Len(events) = m
    /\ \A e \in 1..m : events[e] = IF e <= MaxPieces THEN Update("delta", i, <<e>>)
                                   ELSE Update("done", i, Whole)

WireInv(wire) ==
    /\ wire.n <= Len(rsScript) + 1
    /\ wire.open => wire.n <= Len(rsScript) /\ rsScript[wire.n].announced
    /\ wire.sent > 0 =>
         /\ wire.n <= Len(rsScript) /\ rsScript[wire.n].deltas
         /\ wire.open \/ ~rsScript[wire.n].announced

\* The entry of an item: how much of it was told, whether it is done, and
\* whether it has a record.
EntryInv(entry, wire) ==
    LET i == entry.item.call
    IN  /\ i \in DOMAIN rsScript /\ Entered(i, wire)
        /\ entry.item = ItemOf(i, Pieces(PieceCount(i, wire)))
        /\ entry.done = Finished(i, wire)
        /\ entry.rec = 0 <=> ~Finished(i, wire)

\* The items entered stand in the output in the order they were told, each once.
OutputInv(output, wire) ==
    /\ \A p \in 1..Len(output) : EntryInv(output[p], wire)
    /\ \A p, q \in 1..Len(output) : p < q => output[p].item.call < output[q].item.call
    /\ \A i \in DOMAIN rsScript :
          Entered(i, wire) => \E p \in 1..Len(output) : output[p].item.call = i

\* What waits is the text of one item, from its first piece on.
PendingInv(pending, wire) ==
    IF wire.n <= Len(rsScript)
    THEN StreamedBy(pending, wire.n, IF Waiting(wire.n) THEN wire.sent ELSE 0)
    ELSE IF \E i \in DOMAIN rsScript : Waiting(i) /\ rsScript[i].done = "omitted"
    THEN \E m \in {MaxPieces, MaxPieces + 1} : StreamedBy(pending, 1, m)
    ELSE Len(pending) = 0

\* Records of whole items, one of each call.
WholeRecords(history) ==
    /\ \A h \in 1..Len(history) :
          history[h].call \in DOMAIN rsScript /\ history[h] = ItemOf(history[h].call, Whole)
    /\ \A g, h \in 1..Len(history) : history[g].call = history[h].call => g = h

\* The records are those of the items that are done.
HistoryInv(history, wire) ==
    /\ WholeRecords(history)
    /\ \A h \in 1..Len(history) : Finished(history[h].call, wire)
    /\ \A i \in DOMAIN rsScript :
          Finished(i, wire) => \E h \in 1..Len(history) : history[h].call = i

\* The records of a response that ended well are those of all its items.
AllRecorded(history) ==
    /\ WholeRecords(history)
    /\ \A i \in DOMAIN rsScript : \E h \in 1..Len(history) : history[h].call = i

Telling(wire, st, history) ==
    /\ ~st.completed
    /\ WireInv(wire) /\ OutputInv(st.output, wire) /\ PendingInv(st.pending, wire)
    /\ HistoryInv(history, wire)

\* Whatever becomes of the request, its records are of whole items.
StreamHolds(request, wire, st, history) ==
    /\ WholeRecords(history)
    /\ request.phase # "done" => request.result = "none" /\ Telling(wire, st, history)
    /\ request.result = "ok" => AllRecorded(history)

StreamInv == StreamHolds(rsRequest, rsWire, rsState, rsHistory)

-----------------------------------------------------------------------------
(* What append_response_output_items records.                              *)

\* The record of the items at the first o places is made.
RecordedTo(acc, o, st, places) ==
    /\ \A p \in 1..Len(st.output) :
          /\ acc.st.output[p].item = st.output[p].item
          /\ acc.st.output[p].done = st.output[p].done
          /\ acc.st.output[p].rec = 0 <=> st.output[p].rec = 0 /\ (p \in places => p > o)
    /\ acc.st.pending = st.pending /\ acc.st.completed = st.completed
    /\ Len(acc.history) >= Len(rsHistory)
    /\ \A h \in 1..Len(rsHistory) : acc.history[h] = rsHistory[h]
    /\ \A h \in 1..Len(acc.history) :
          h <= Len(rsHistory) \/ \E p \in places : p <= o /\ acc.history[h] = st.output[p].item
    /\ \A p \in places :
          p <= o => \E h \in 1..Len(acc.history) : acc.history[h] = st.output[p].item
    /\ \A g, h \in 1..Len(acc.history) : acc.history[g].call = acc.history[h].call => g = h

\* Items of different calls, none of them recorded yet.
FreshAt(st, places) ==
    /\ \A p \in places : \A h \in 1..Len(rsHistory) : rsHistory[h].call # st.output[p].item.call
    /\ \A p, q \in places : st.output[p].item.call = st.output[q].item.call => p = q

LEMMA RecordedStep ==
    ASSUME NEW st \in ResponseState, NEW places \in SUBSET (1..Len(st.output)),
           rsHistory \in Seq(ResponseItem), FreshAt(st, places),
           NEW o \in 1..Len(st.output), NEW acc \in RecordType(Len(st.output)),
           RecordedTo(acc, o - 1, st, places)
    PROVE  RecordedTo(RecordStep(acc, o, places), o, st, places)
<1> DEFINE n == Len(st.output)
<1>1. /\ acc.history \in Seq(ResponseItem) /\ acc.st \in ResponseState
      /\ Len(acc.st.output) = n /\ n \in Nat /\ Len(rsHistory) \in Nat
      /\ acc.st.output \in Seq(OutputState) /\ Len(acc.history) \in Nat
  BY DEF RecordType, ResponseState
<1>2. CASE o \notin places
  <2>1. RecordStep(acc, o, places) = acc
    BY <1>2 DEF RecordStep
  <2>2. \A p \in places : p \in 1..n /\ (p <= o <=> p <= o - 1) /\ (p > o <=> p > o - 1)
    BY <1>1, <1>2
  <2>3. \A p \in 1..n : (p \in places => p > o) <=> (p \in places => p > o - 1)
    BY <2>2
  <2> HIDE DEF n
  <2> QED BY <2>1, <2>2, <2>3 DEF RecordedTo, n
<1>3. CASE o \in places
  <2> DEFINE new == RecordStep(acc, o, places)
             entry == acc.st.output[o]
             rec == Len(acc.history) + 1
  <2>1. new = Recorded(acc, o)
    BY <1>3 DEF RecordStep
  <2>2. entry \in OutputState /\ entry.item = st.output[o].item
    BY <1>1 DEF RecordedTo
  <2>3. entry.item \in ResponseItem
    BY <2>2 DEF OutputState
  <2>4. \A h \in 1..Len(acc.history) : acc.history[h].call # entry.item.call
    <3> SUFFICES ASSUME NEW h \in 1..Len(acc.history), acc.history[h].call = entry.item.call
                 PROVE  FALSE
      OBVIOUS
    <3>1. CASE h <= Len(rsHistory)
      <4>1. h \in 1..Len(rsHistory) /\ acc.history[h] = rsHistory[h]
        BY <1>1, <3>1 DEF RecordedTo
      <4> QED BY <1>3, <2>2, <4>1 DEF FreshAt
    <3>2. CASE ~(h <= Len(rsHistory))
      <4>1. PICK p \in places : p <= o - 1 /\ acc.history[h] = st.output[p].item
        BY <3>2 DEF RecordedTo
      <4>2. p = o
        BY <1>3, <2>2, <4>1 DEF FreshAt
      <4> QED BY <4>1, <4>2
    <3> QED BY <3>1, <3>2
  <2>5. RecordOf(acc.history, entry.item) = 0
    <3> DEFINE known == RecordOf(acc.history, entry.item)
    <3>1. known \in 0..Len(acc.history) /\ (known # 0 => acc.history[known].call = entry.item.call)
      BY <1>1, <2>3, RecordFound
    <3> HIDE DEF known, entry
    <3>2. known = 0
      BY <1>1, <2>4, <3>1
    <3> QED BY <3>2 DEF known
  <2>6. /\ new \in RecordType(n)
        /\ new.history = Append(acc.history, entry.item)
        /\ new.st.output = [acc.st.output EXCEPT ![o] = [entry EXCEPT !.rec = rec]]
    <3>1. /\ Recorded(acc, o) \in RecordType(Len(st.output))
          /\ Recorded(acc, o).history = Append(acc.history, entry.item)
          /\ Recorded(acc, o).st.output = [acc.st.output EXCEPT ![o] = [entry EXCEPT !.rec = rec]]
      <4>1. PICK m \in Nat : m = n
        BY <1>1
      <4>2. acc \in RecordType(m) /\ o \in 1..m
        BY <4>1
      <4>3. Recorded(acc, o) \in RecordType(m) /\ NewRecord(acc, o, Recorded(acc, o))
        BY <2>5, <4>2, RecordedType
      <4> QED BY <4>1, <4>3 DEF NewRecord
    <3> QED BY <2>1, <3>1
  <2>7. new.st.pending = acc.st.pending /\ new.st.completed = acc.st.completed
    <3> DEFINE known == RecordOf(acc.history, entry.item)
               out == [acc.st.output EXCEPT ![o] =
                         [entry EXCEPT !.rec =
                            IF known = 0
                            THEN Len(IF known = 0 THEN Append(acc.history, entry.item)
                                     ELSE acc.history)
                            ELSE known]]
    <3>1. new.st = [acc.st EXCEPT !.output = out]
      BY <2>1 DEF Recorded
    <3> HIDE DEF out
    <3> QED BY <1>1, <3>1 DEF ResponseState
  <2> HIDE DEF new
  <2>8. Len(new.history) = rec /\ new.history[rec] = entry.item
          /\ \A h \in 1..Len(acc.history) : new.history[h] = acc.history[h]
    BY <1>1, <2>3, <2>6
  <2>9. ASSUME NEW p \in 1..n
        PROVE  /\ new.st.output[p].item = st.output[p].item
               /\ new.st.output[p].done = st.output[p].done
               /\ new.st.output[p].rec = 0 <=> st.output[p].rec = 0 /\ (p \in places => p > o)
    <3>0. /\ acc.st.output[p].item = st.output[p].item
          /\ acc.st.output[p].done = st.output[p].done
          /\ acc.st.output[p].rec = 0 <=> st.output[p].rec = 0 /\ (p \in places => p > o - 1)
      BY DEF RecordedTo
    <3>1. CASE p = o
      <4>1. new.st.output[p] = [entry EXCEPT !.rec = rec]
        BY <1>1, <2>6, <3>1
      <4>2. /\ new.st.output[p].item = entry.item /\ new.st.output[p].done = entry.done
            /\ new.st.output[p].rec = rec /\ rec # 0
        BY <1>1, <2>2, <4>1 DEF OutputState
      <4> HIDE DEF rec
      <4> QED BY <1>3, <3>0, <3>1, <4>2
    <3>2. CASE p # o
      <4>1. new.st.output[p] = acc.st.output[p]
        BY <1>1, <2>6, <3>2
      <4>2. p > o <=> p > o - 1
        BY <3>2
      <4> QED BY <3>0, <4>1, <4>2
    <3> QED BY <3>1, <3>2
  <2>10. Len(new.history) >= Len(rsHistory)
           /\ \A h \in 1..Len(rsHistory) : new.history[h] = rsHistory[h]
    <3>1. Len(acc.history) >= Len(rsHistory)
            /\ \A h \in 1..Len(rsHistory) : acc.history[h] = rsHistory[h]
      BY DEF RecordedTo
    <3>2. \A h \in 1..Len(rsHistory) : h \in 1..Len(acc.history)
      BY <1>1, <3>1
    <3> QED BY <1>1, <2>8, <3>1, <3>2
  <2>11. ASSUME NEW h \in 1..Len(new.history)
         PROVE  h <= Len(rsHistory) \/ \E p \in places : p <= o /\ new.history[h] = st.output[p].item
    <3>1. CASE h = rec
      BY <1>3, <2>2, <2>8, <3>1
    <3>2. CASE h # rec
      <4>1. h \in 1..Len(acc.history)
        BY <1>1, <2>8, <3>2
      <4>2. h <= Len(rsHistory) \/ \E p \in places : p <= o - 1 /\ acc.history[h] = st.output[p].item
        BY <4>1 DEF RecordedTo
      <4> QED BY <2>8, <4>1, <4>2
    <3> QED BY <3>1, <3>2
  <2>12. ASSUME NEW p \in places, p <= o
         PROVE  \E h \in 1..Len(new.history) : new.history[h] = st.output[p].item
    <3>1. CASE p = o
      <4>1. rec \in 1..Len(new.history)
        BY <1>1, <2>8
      <4> QED BY <2>2, <2>8, <3>1, <4>1
    <3>2. CASE p # o
      <4>1. PICK h \in 1..Len(acc.history) : acc.history[h] = st.output[p].item
        <5>1. p <= o - 1
          BY <2>12, <3>2
        <5> QED BY <5>1 DEF RecordedTo
      <4>2. h \in 1..Len(new.history)
        BY <1>1, <2>8
      <4> QED BY <2>8, <4>1, <4>2
    <3> QED BY <3>1, <3>2
  <2>13. ASSUME NEW g \in 1..Len(new.history), NEW h \in 1..Len(new.history),
                new.history[g].call = new.history[h].call
         PROVE  g = h
    <3>1. g = rec \/ g \in 1..Len(acc.history)
      BY <1>1, <2>8
    <3>2. h = rec \/ h \in 1..Len(acc.history)
      BY <1>1, <2>8
    <3>3. CASE g = rec /\ h = rec
      BY <3>3
    <3>4. CASE g = rec /\ h \in 1..Len(acc.history)
      BY <2>4, <2>8, <2>13, <3>4
    <3>5. CASE g \in 1..Len(acc.history) /\ h = rec
      BY <2>4, <2>8, <2>13, <3>5
    <3>6. CASE g \in 1..Len(acc.history) /\ h \in 1..Len(acc.history)
      BY <2>8, <2>13, <3>6 DEF RecordedTo
    <3> QED BY <3>1, <3>2, <3>3, <3>4, <3>5, <3>6
  <2>14. acc.st.pending = st.pending /\ acc.st.completed = st.completed
    BY DEF RecordedTo
  <2> QED BY <2>7, <2>9, <2>10, <2>11, <2>12, <2>13, <2>14 DEF RecordedTo, new
<1> QED BY <1>2, <1>3

\* All of the items that are not recorded yet get their record, and nothing else.
LEMMA RecordAllFresh ==
    ASSUME NEW st \in ResponseState, NEW places \in SUBSET (1..Len(st.output)),
           rsHistory \in Seq(ResponseItem), FreshAt(st, places),
           \A g, h \in 1..Len(rsHistory) : rsHistory[g].call = rsHistory[h].call => g = h
    PROVE  /\ RecordAll(st, places) \in RecordType(Len(st.output))
           /\ RecordedTo(RecordAll(st, places), Len(st.output), st, places)
<1> DEFINE n == Len(st.output)
<1>0. n \in Nat /\ Len(rsHistory) \in Nat
  BY DEF ResponseState
<1>1. PICK after \in RecordRuns(st, places) : RecordAll(st, places) = after[n]
  BY RecordLoop
<1>2. /\ after \in [0..n -> RecordType(n)]
      /\ after[0] = [history |-> rsHistory, ok |-> TRUE, st |-> st]
      /\ \A o \in 1..n : after[o] = RecordStep(after[o - 1], o, places)
  BY <1>1 DEF RecordRuns
<1> DEFINE T == {o \in 0..n : RecordedTo(after[o], o, st, places)}
<1>3. 0 \in T
  <2>1. /\ after[0].history = rsHistory /\ after[0].st = st
    BY <1>2
  <2>2. \A p \in 1..n : p > 0 /\ ~(p <= 0)
    BY <1>0
  <2>3. \A p \in places : p > 0 /\ ~(p <= 0)
    BY <2>2
  <2>4. RecordedTo(after[0], 0, st, places)
    BY <1>0, <2>1, <2>2, <2>3 DEF RecordedTo
  <2> QED BY <1>0, <2>4
<1>4. ASSUME NEW o \in 0..(n - 1), o \in T
      PROVE  o + 1 \in T
  <2>1. o + 1 \in 1..n /\ (o + 1) - 1 = o /\ o + 1 \in 0..n
    BY <1>0
  <2>2. after[o] \in RecordType(n) /\ RecordedTo(after[o], o, st, places)
    BY <1>2, <1>4
  <2>3. after[o + 1] = RecordStep(after[o], o + 1, places)
    BY <1>2, <2>1
  <2> DEFINE k == o + 1
  <2>4. RecordedTo(RecordStep(after[o], k, places), k, st, places)
    <3>1. k \in 1..n /\ RecordedTo(after[o], k - 1, st, places)
      BY <2>1, <2>2
    <3> HIDE DEF k
    <3> QED BY <2>2, <3>1, RecordedStep
  <2> QED BY <2>1, <2>3, <2>4
<1>5. \A o \in 0..n : o \in T
  <2>1. T \in SUBSET (0..n)
    OBVIOUS
  <2> HIDE DEF T, n
  <2> QED BY <1>0, <1>3, <1>4, <2>1, CountsUp
<1>6. n \in 0..n
  BY <1>0
<1> QED BY <1>1, <1>2, <1>5, <1>6

\* Nothing is recorded where no item was finished.
LEMMA RecordNothing ==
    ASSUME NEW st \in ResponseState, rsHistory \in Seq(ResponseItem)
    PROVE  RecordAll(st, {}).history = rsHistory /\ RecordAll(st, {}).st = st
<1> DEFINE n == Len(st.output)
           base == [history |-> rsHistory, ok |-> TRUE, st |-> st]
<1>0. n \in Nat
  BY DEF ResponseState
<1>1. PICK after \in RecordRuns(st, {}) : RecordAll(st, {}) = after[n]
  BY RecordLoop
<1>2. after[0] = base /\ \A o \in 1..n : after[o] = after[o - 1]
  BY <1>1 DEF RecordRuns, RecordStep
<1> HIDE DEF base
<1> DEFINE T == {o \in 0..n : after[o] = base}
<1>3. \A o \in 0..(n - 1) : o \in T => o + 1 \in T
  <2>1. \A o \in 0..(n - 1) : o + 1 \in 1..n /\ (o + 1) - 1 = o /\ o + 1 \in 0..n
    BY <1>0
  <2> QED BY <1>2, <2>1
<1>4. T \in SUBSET (0..n) /\ 0 \in T
  BY <1>0, <1>2
<1>5. \A o \in 0..n : o \in T
  <2> HIDE DEF T, n
  <2> QED BY <1>0, <1>3, <1>4, CountsUp
<1>6. n \in 0..n
  BY <1>0
<1> QED BY <1>1, <1>5, <1>6 DEF base

\* An event that was consumed, unless a failure ended the request.
LEMMA Consumed ==
    ASSUME RsTypeOK, NEW st \in ResponseState, NEW places, Consume(st, places)
    PROVE  \/ /\ rsRequest'.phase = "done" /\ rsRequest'.result # "ok"
              /\ rsHistory' \in {rsHistory, RecordAll(st, places).history}
           \/ /\ rsHistory' = RecordAll(st, places).history
              /\ rsState' = RecordAll(st, places).st
              /\ st.completed => rsRequest'.phase = "done" /\ rsRequest'.result = "ok"
              /\ ~st.completed => rsRequest' = rsRequest
<1> DEFINE all == RecordAll(st, places)
<1>1. \/ /\ rsHistory' = all.history /\ rsState' = all.st
         /\ \/ st.completed /\ \E audit : RsEnd("ok", audit)
            \/ ~st.completed /\ UNCHANGED rsRequest
      \/ /\ rsHistory' \in {rsHistory, all.history}
         /\ \E result \in {"unavailable", "internal"} : RsEnd(result, rsAudit)
  <2>1. \/ /\ rsHistory' = all.history /\ rsState' = all.st
           /\ \/ st.completed /\ \E audit : RsEnd("ok", audit)
              \/ ~st.completed /\ UNCHANGED rsRequest
        \/ rsHistory' = rsHistory /\ RsEnd("unavailable", rsAudit)
        \/ /\ RsEnd("internal", rsAudit)
           /\ \E at \in {"append", "save"} :
                 rsHistory' = IF at = "save" THEN all.history ELSE rsHistory
    BY Zenon DEF Consume
  <2> HIDE DEF all
  <2> QED BY <2>1
<1>2. rsRequest \in RequestStates
  BY RsTypes
<1>3. ASSUME NEW result, NEW audit, RsEnd(result, audit)
      PROVE  rsRequest'.phase = "done" /\ rsRequest'.result = result
  <2>1. rsRequest' = [rsRequest EXCEPT !.phase = "done", !.result = result]
    BY <1>3 DEF RsEnd
  <2> QED BY <1>2, <2>1 DEF RequestStates
<1> HIDE DEF all
<1>4. CASE /\ rsHistory' \in {rsHistory, all.history}
           /\ \E result \in {"unavailable", "internal"} : RsEnd(result, rsAudit)
  BY <1>3, <1>4 DEF all
<1>5. CASE rsHistory' = all.history /\ rsState' = all.st /\ st.completed /\ \E audit : RsEnd("ok", audit)
  BY <1>3, <1>5 DEF all
<1>6. CASE rsHistory' = all.history /\ rsState' = all.st /\ ~st.completed /\ UNCHANGED rsRequest
  BY <1>6 DEF all
<1> QED BY Zenon, <1>1, <1>4, <1>5, <1>6

-----------------------------------------------------------------------------
(* Items, their texts and the events that carry them.                      *)

LEMMA LastPiece ==
    ASSUME NEW s \in Seq(Nat), NEW x \in Nat
    PROVE  (s \o <<x>>)[Len(s) + 1] = x
  OBVIOUS

LEMMA PiecesFacts ==
    ASSUME NEW k \in Nat
    PROVE  /\ Pieces(k) \in Seq(Nat) /\ Len(Pieces(k)) = k
           /\ Pieces(k) \o <<k + 1>> = Pieces(k + 1)
           /\ Pieces(k) = <<>> <=> k = 0
           /\ Pieces(MaxPieces) = Whole /\ Pieces(0) = <<>>
<1>1. Pieces(k) \in Seq(Nat) /\ Len(Pieces(k)) = k
  BY DEF Pieces
<1>2. Pieces(k) \o <<k + 1>> = Pieces(k + 1)
  <2> DEFINE long == Pieces(k) \o <<k + 1>>
  <2>1. long \in Seq(Nat) /\ Len(long) = k + 1
    BY <1>1
  <2>2. ASSUME NEW p \in 1..(k + 1) PROVE long[p] = p
    <3>1. CASE p \in 1..k
      BY <1>1, <3>1 DEF Pieces
    <3>2. CASE p = k + 1
      <4>1. long[Len(Pieces(k)) + 1] = k + 1
        BY <1>1, LastPiece
      <4> QED BY <1>1, <3>2, <4>1
    <3>3. p \in 1..k \/ p = k + 1
      OBVIOUS
    <3> HIDE DEF long
    <3> QED BY <3>1, <3>2, <3>3
  <2> HIDE DEF long
  <2>3. long = [p \in 1..(k + 1) |-> long[p]]
    BY <2>1
  <2>4. long = [p \in 1..(k + 1) |-> p]
    BY <2>2, <2>3
  <2> QED BY <2>4 DEF Pieces, long
<1>3. Pieces(0) = <<>>
  <2>1. [p \in 1..0 |-> p] = <<>>
    OBVIOUS
  <2> QED BY <2>1 DEF Pieces
<1>4. Pieces(k) = <<>> => k = 0
  BY <1>1
<1>5. Pieces(MaxPieces) = Whole
  BY DEF Pieces, Whole
<1> QED BY <1>1, <1>2, <1>3, <1>4, <1>5

LEMMA ItemOfFacts ==
    ASSUME NEW i, NEW text
    PROVE  /\ ItemOf(i, text).call = i /\ ItemOf(i, text).text = text
           /\ ItemOf(i, text).kind = rsScript[i].kind
           /\ rsScript[i].named => ItemOf(i, text).id = i
           /\ ~rsScript[i].named => ItemOf(i, text).id = 0
  BY DEF ItemOf

\* An update changes the text of its item, and nothing else.
LEMMA UpdatedItem ==
    ASSUME NEW i, NEW old, NEW text
    PROVE  /\ Updated(ItemOf(i, old), Update("delta", i, text)) = ItemOf(i, old \o text)
           /\ Updated(ItemOf(i, old), Update("done", i, text)) = ItemOf(i, text)
           /\ Targets(Update("delta", i, text), ItemOf(i, old))
           /\ Targets(Update("done", i, text), ItemOf(i, old))
<1> DEFINE kind == rsScript[i].kind
           id == IF rsScript[i].named THEN i ELSE 0
<1>1. \A t : ItemOf(i, t) = [kind |-> kind, id |-> id, call |-> i, text |-> t]
  BY DEF ItemOf
<1> HIDE DEF kind, id
<1>2. ASSUME NEW type \in {"delta", "done"}, NEW new,
             new = IF type = "delta" THEN old \o text ELSE text
      PROVE  Updated(ItemOf(i, old), Update(type, i, text)) = ItemOf(i, new)
  <2> DEFINE item == ItemOf(i, old)  event == Update(type, i, text)
  <2>1. item.text = old /\ event.type = type /\ event.item.text = text
    BY <1>1 DEF Update
  <2>2. Updated(item, event) = [item EXCEPT !.text = new]
    BY <1>2, <2>1 DEF Updated
  <2>3. [item EXCEPT !.text = new] = ItemOf(i, new)
    BY <1>1
  <2> QED BY <2>2, <2>3
<1>3. /\ Targets(Update("delta", i, text), ItemOf(i, old))
      /\ Targets(Update("done", i, text), ItemOf(i, old))
  BY <1>1 DEF Targets, Update
<1>4. Updated(ItemOf(i, old), Update("delta", i, text)) = ItemOf(i, old \o text)
  BY <1>2
<1>5. Updated(ItemOf(i, old), Update("done", i, text)) = ItemOf(i, text)
  BY <1>2
<1> QED BY <1>3, <1>4, <1>5

\* The text that waited is applied to its item, and nothing is left waiting.
LEMMA ReplayWaiting ==
    ASSUME rsScript \in Scripts, NEW i \in DOMAIN rsScript, NEW events \in Seq(ResponseEvent),
           NEW m \in {MaxPieces, MaxPieces + 1}, StreamedBy(events, i, m)
    PROVE  Replay(ItemOf(i, <<>>), events) = [item |-> ItemOf(i, Whole), left |-> <<>>]
<1> DEFINE Now(e) == [item |-> ItemOf(i, Pieces(IF e <= MaxPieces THEN e ELSE MaxPieces)),
                      left |-> <<>>]
<1>0. m \in Nat /\ MaxPieces \in Nat \ {0}
  BY WholeType
<1>1. ItemOf(i, <<>>) \in ResponseItem
  <2>1. <<>> \in Seq(Nat)
    OBVIOUS
  <2> QED BY <2>1, ItemOfType
<1> DEFINE first == ItemOf(i, <<>>)
<1>2. PICK after \in [0..Len(events) -> Replayed] :
         /\ after[0] = [item |-> first, left |-> <<>>]
         /\ \A e \in 1..Len(events) : after[e] = ReplayStep(after[e - 1], events[e])
         /\ Replay(first, events) = after[Len(events)]
  <2> HIDE DEF first
  <2> QED BY <1>1, ReplayLoop DEF first
<1>3. Len(events) = m
  BY DEF StreamedBy
<1> DEFINE T == {e \in 0..m : after[e] = Now(e)}
<1>4. 0 \in T
  <2>1. Pieces(0) = <<>>
    BY <1>0, PiecesFacts
  <2>2. 0 \in 0..m /\ 0 <= MaxPieces
    BY <1>0
  <2> QED BY <1>2, <2>1, <2>2
<1>5. ASSUME NEW e \in 0..(m - 1), e \in T PROVE e + 1 \in T
  <2>1. e + 1 \in 1..m /\ e + 1 \in 0..m /\ (e + 1) - 1 = e /\ e <= MaxPieces /\ e \in Nat
    BY <1>0
  <2>2. after[e] = [item |-> ItemOf(i, Pieces(e)), left |-> <<>>]
    BY <1>5, <2>1
  <2>3. after[e + 1] = ReplayStep(after[e], events[e + 1])
    BY <1>2, <1>3, <2>1
  <2>4. CASE e + 1 <= MaxPieces
    <3>1. events[e + 1] = Update("delta", i, <<e + 1>>)
      BY <2>1, <2>4 DEF StreamedBy
    <3>2. after[e + 1] = [item |-> ItemOf(i, Pieces(e) \o <<e + 1>>), left |-> <<>>]
      <4> DEFINE item == ItemOf(i, Pieces(e))  event == Update("delta", i, <<e + 1>>)
      <4>1. Targets(event, item) /\ Updated(item, event) = ItemOf(i, Pieces(e) \o <<e + 1>>)
        BY UpdatedItem
      <4>2. after[e + 1] = ReplayStep([item |-> item, left |-> <<>>], event)
        BY <2>2, <2>3, <3>1
      <4> HIDE DEF item, event
      <4> QED BY <4>1, <4>2 DEF ReplayStep
    <3>3. Pieces(e) \o <<e + 1>> = Pieces(e + 1)
      BY <2>1, PiecesFacts
    <3> QED BY <2>1, <2>4, <3>2, <3>3
  <2>5. CASE ~(e + 1 <= MaxPieces)
    <3>1. events[e + 1] = Update("done", i, Whole)
      BY <2>1, <2>5 DEF StreamedBy
    <3>2. after[e + 1] = [item |-> ItemOf(i, Whole), left |-> <<>>]
      <4> DEFINE item == ItemOf(i, Pieces(e))  event == Update("done", i, Whole)
      <4>1. Targets(event, item) /\ Updated(item, event) = ItemOf(i, Whole)
        BY UpdatedItem
      <4>2. after[e + 1] = ReplayStep([item |-> item, left |-> <<>>], event)
        BY <2>2, <2>3, <3>1
      <4> HIDE DEF item, event
      <4> QED BY <4>1, <4>2 DEF ReplayStep
    <3>3. Whole = Pieces(MaxPieces)
      BY <1>0, PiecesFacts
    <3> QED BY <2>1, <2>5, <3>2, <3>3
  <2> QED BY <2>4, <2>5
<1>6. \A e \in 0..m : e \in T
  <2>1. T \in SUBSET (0..m)
    OBVIOUS
  <2> HIDE DEF T
  <2> QED BY <1>0, <1>4, <1>5, <2>1, CountsUp
<1>7. after[m] = Now(m) /\ (m <= MaxPieces => m = MaxPieces)
  BY <1>0, <1>6
<1>8. Pieces(MaxPieces) = Whole
  BY <1>0, PiecesFacts
<1> HIDE DEF first
<1> QED BY <1>2, <1>3, <1>7, <1>8 DEF first

LEMMA ReplayNothing ==
    ASSUME NEW it \in ResponseItem, NEW events \in Seq(ResponseEvent), Len(events) = 0
    PROVE  Replay(it, events).item = it /\ Replay(it, events).left = <<>>
<1>1. PICK after \in [0..Len(events) -> Replayed] :
         /\ after[0] = [item |-> it, left |-> <<>>]
         /\ \A i \in 1..Len(events) : after[i] = ReplayStep(after[i - 1], events[i])
         /\ Replay(it, events) = after[Len(events)]
  BY ReplayLoop
<1> QED BY <1>1

-----------------------------------------------------------------------------
(* What tells the items of a response apart.                               *)

\* The rules of the scripts, where a provider has no further habits.
LEMMA ScriptRules ==
    ASSUME rsScript \in Scripts, Habits = {}
    PROVE  /\ \A i \in DOMAIN rsScript :
                 /\ rsScript[i].done \in {"omitted", "partial", "full"}
                 /\ rsScript[i].done = "partial" => rsScript[i].deltas
                 /\ Waiting(i) => rsScript[i].done # "full"
                 /\ Waiting(i) /\ rsScript[i].done = "omitted" =>
                      /\ i = 1 /\ Len(rsScript) = 1
                      /\ rsScript[i].kind = "message" /\ ~rsScript[i].named
           /\ \A i, j \in DOMAIN rsScript :
                 i # j /\ rsScript[i].kind = rsScript[j].kind /\ ~rsScript[i].named =>
                    /\ ~Waiting(i) /\ rsScript[i].done # "omitted" /\ rsScript[j].done # "omitted"
           /\ \A i, j \in DOMAIN rsScript :
                 j < i /\ ~rsScript[i].named /\ rsScript[i].done # "omitted" =>
                    rsScript[j].announced \/ rsScript[j].done # "omitted"
           /\ SelfContained(rsScript) => \A i \in DOMAIN rsScript :
                 rsScript[i].done # "omitted" \/ rsScript[i].deltas
           /\ Listable(rsScript) => \A i \in DOMAIN rsScript :
                 ~(Waiting(i) /\ rsScript[i].done = "omitted")
<1>1. /\ DOMAIN rsScript = 1..Len(rsScript) /\ Len(rsScript) \in Nat
      /\ \A i \in DOMAIN rsScript : rsScript[i] \in ScriptItem /\ Sendable(rsScript[i])
      /\ Tellable(rsScript) /\ (SelfContained(rsScript) \/ Listable(rsScript))
  <2>1. Len(rsScript) \in 1..MaxRsItems
    BY ScriptItems
  <2> QED BY <2>1, ScriptItems, ResponseStreamAssumption
<1>2. Listable(rsScript) => \A i \in DOMAIN rsScript :
         ~(Waiting(i) /\ rsScript[i].done = "omitted")
  BY DEF Listable, Waiting
<1>3. SelfContained(rsScript) => \A i \in DOMAIN rsScript :
         \/ rsScript[i].done # "omitted"
         \/ /\ rsScript[i].deltas
            /\ Waiting(i) => /\ Len(rsScript) = 1 /\ rsScript[i].kind = "message"
                             /\ ~rsScript[i].named
  BY DEF SelfContained, Waiting
<1>4. ASSUME NEW i \in DOMAIN rsScript
      PROVE  /\ rsScript[i].done \in {"omitted", "partial", "full"}
             /\ rsScript[i].done = "partial" => rsScript[i].deltas
             /\ Waiting(i) => rsScript[i].done # "full"
  BY <1>1 DEF ScriptItem, Sendable, Waiting
<1>5. \A i, j \in DOMAIN rsScript :
         i # j /\ rsScript[i].kind = rsScript[j].kind /\ ~rsScript[i].named =>
            /\ ~Waiting(i) /\ rsScript[i].done # "omitted" /\ rsScript[j].done # "omitted"
  BY <1>1 DEF Tellable, Waiting
<1>6. \A i, j \in DOMAIN rsScript :
         j < i /\ ~rsScript[i].named /\ rsScript[i].done # "omitted" =>
            rsScript[j].announced \/ rsScript[j].done # "omitted"
  BY <1>1 DEF Tellable
<1>7. ASSUME NEW i \in DOMAIN rsScript, Waiting(i), rsScript[i].done = "omitted"
      PROVE  /\ i = 1 /\ Len(rsScript) = 1
             /\ rsScript[i].kind = "message" /\ ~rsScript[i].named
  BY <1>1, <1>2, <1>3, <1>7
<1> QED BY <1>2, <1>3, <1>4, <1>5, <1>6, <1>7

\* An entry holds the item of its call.
IsEntry(entry) ==
    /\ entry.item.call \in DOMAIN rsScript
    /\ entry.item = ItemOf(entry.item.call, entry.item.text)

\* Another unfinished entry could be taken for item i: it has no id, and
\* neither has i, or nothing but its kind is looked at.
Confused(entry, i) ==
    /\ ~rsScript[i].named /\ entry.item.call # i
    /\ ~entry.done /\ rsScript[entry.item.call].kind = rsScript[i].kind

LEMMA PlaceNew ==
    ASSUME rsScript \in Scripts, NEW output \in Seq(OutputState),
           NEW i \in DOMAIN rsScript, NEW text \in Seq(Nat),
           \A p \in 1..Len(output) : IsEntry(output[p]) /\ ~Confused(output[p], i)
                                       /\ output[p].item.call # i
    PROVE  Place(output, ItemOf(i, text)) = 0
<1> DEFINE it == ItemOf(i, text)
           place == Place(output, it)
<1>1. it \in ResponseItem /\ i # 0
  BY ItemOfType, ScriptItems
<1>2. it.kind = rsScript[i].kind /\ it.id = IF rsScript[i].named THEN i ELSE 0
  BY ItemOfFacts
<1> HIDE DEF it
<1>3. /\ place \in 0..Len(output)
      /\ it.id # 0 /\ place # 0 => output[place].item.id = it.id
      /\ it.id = 0 /\ place # 0 => ~output[place].done /\ output[place].item.kind = it.kind
  BY <1>1, PlaceFound
<1> HIDE DEF place
<1>4. SUFFICES ASSUME place # 0 PROVE FALSE
  BY DEF place, it
<1> DEFINE entry == output[place]  c == entry.item.call
<1>5. place \in 1..Len(output)
  BY <1>3, <1>4
<1>6. IsEntry(entry) /\ ~Confused(entry, i) /\ c # i
  BY <1>5
<1>7. entry.item.kind = rsScript[c].kind /\ entry.item.id \in {0, c}
  <2>1. entry.item = ItemOf(c, entry.item.text)
    BY <1>6 DEF IsEntry
  <2> DEFINE t == entry.item.text
  <2>2. ItemOf(c, t).kind = rsScript[c].kind /\ ItemOf(c, t).id \in {0, c}
    BY ItemOfFacts
  <2> QED BY <2>1, <2>2
<1>8. CASE rsScript[i].named
  BY <1>1, <1>2, <1>3, <1>4, <1>6, <1>7, <1>8
<1>9. CASE ~rsScript[i].named
  BY <1>2, <1>3, <1>4, <1>6, <1>7, <1>9 DEF Confused
<1> QED BY <1>8, <1>9

\* The only entry that can be taken for item i is its own, at q.
OnlyEntry(output, i, q) ==
    /\ q \in 1..Len(output) /\ output[q].item.call = i /\ ~output[q].done
    /\ \A p \in 1..Len(output) : IsEntry(output[p]) /\ ~Confused(output[p], i)
    /\ \A p \in 1..Len(output) : output[p].item.call = i => p = q

LEMMA PlaceKnown ==
    ASSUME rsScript \in Scripts, NEW output \in Seq(OutputState),
           NEW i \in DOMAIN rsScript, NEW text \in Seq(Nat), NEW q,
           OnlyEntry(output, i, q)
    PROVE  Place(output, ItemOf(i, text)) = q
<1>0. /\ q \in 1..Len(output) /\ output[q].item.call = i /\ ~output[q].done
      /\ \A p \in 1..Len(output) : IsEntry(output[p]) /\ ~Confused(output[p], i)
      /\ \A p \in 1..Len(output) : output[p].item.call = i => p = q
  BY DEF OnlyEntry
<1> DEFINE it == ItemOf(i, text)
           place == Place(output, it)
<1>1. it \in ResponseItem /\ i # 0
  BY ItemOfType, ScriptItems
<1>2. it.kind = rsScript[i].kind /\ it.id = IF rsScript[i].named THEN i ELSE 0
  BY ItemOfFacts
<1>3. \A p \in 1..Len(output) :
         LET c == output[p].item.call
         IN  /\ output[p].item.kind = rsScript[c].kind
             /\ output[p].item.id = IF rsScript[c].named THEN c ELSE 0
  <2> TAKE p \in 1..Len(output)
  <2> DEFINE c == output[p].item.call  t == output[p].item.text
  <2>1. output[p].item = ItemOf(c, t)
    BY <1>0 DEF IsEntry
  <2>2. ItemOf(c, t).kind = rsScript[c].kind
          /\ ItemOf(c, t).id = IF rsScript[c].named THEN c ELSE 0
    BY ItemOfFacts
  <2> QED BY <2>1, <2>2
<1> HIDE DEF it
<1>4. /\ place \in 0..Len(output)
      /\ it.id # 0 /\ place # 0 => output[place].item.id = it.id
      /\ it.id # 0 /\ place = 0 =>
           \A p \in 1..Len(output) : output[p].item.id # it.id
      /\ it.id = 0 /\ place # 0 => ~output[place].done /\ output[place].item.kind = it.kind
      /\ it.id = 0 /\ place = 0 =>
           \A p \in 1..Len(output) : output[p].done \/ output[p].item.kind # it.kind
  BY <1>1, PlaceFound
<1> HIDE DEF place
<1>5. place # 0
  BY <1>0, <1>1, <1>2, <1>3, <1>4
<1>6. place \in 1..Len(output)
  BY <1>4, <1>5
<1> DEFINE c == output[place].item.call
<1>7. c = i
  <2>1. CASE rsScript[i].named
    BY <1>0, <1>1, <1>2, <1>3, <1>4, <1>5, <1>6, <2>1
  <2>2. CASE ~rsScript[i].named
    BY <1>0, <1>2, <1>3, <1>4, <1>5, <1>6, <2>2 DEF Confused
  <2> QED BY <2>1, <2>2
<1> QED BY <1>0, <1>6, <1>7 DEF place, it

-----------------------------------------------------------------------------
(* The steps of the stream.                                                *)

\* The script never changes, so that what it says of the next state can be
\* said without a prime.
LEMMA ScriptKept ==
    ASSUME UNCHANGED rsScript
    PROVE  StreamInv' <=> StreamHolds(rsRequest', rsWire', rsState', rsHistory')
<1>1. \A i, text : ItemOf(i, text)' = ItemOf(i, text)
  BY DEF ItemOf
<1>2. \A type, i, text : Update(type, i, text)' = Update(type, i, text)
  BY <1>1 DEF Update
<1>3. \A i, wire : /\ Entered(i, wire)' <=> Entered(i, wire)
                   /\ Finished(i, wire)' <=> Finished(i, wire)
                   /\ PieceCount(i, wire)' = PieceCount(i, wire)
  BY DEF Entered, Finished, PieceCount
<1>4. \A i : Waiting(i)' <=> Waiting(i)
  BY DEF Waiting
<1>5. \A events, i, m : StreamedBy(events, i, m)' <=> StreamedBy(events, i, m)
  BY <1>2 DEF StreamedBy
<1>6. \A entry, wire : EntryInv(entry, wire)' <=> EntryInv(entry, wire)
  BY <1>1 DEF EntryInv, Entered, Finished, PieceCount
<1>7. \A output, wire : OutputInv(output, wire)' <=> OutputInv(output, wire)
  BY <1>3, <1>6 DEF OutputInv
<1>8. \A pending, wire : PendingInv(pending, wire)' <=> PendingInv(pending, wire)
  BY <1>4, <1>5 DEF PendingInv
<1>9. \A history : WholeRecords(history)' <=> WholeRecords(history)
  BY <1>1 DEF WholeRecords
<1>10. \A history, wire : HistoryInv(history, wire)' <=> HistoryInv(history, wire)
  BY <1>3, <1>9 DEF HistoryInv
<1>11. \A history : AllRecorded(history)' <=> AllRecorded(history)
  BY <1>9 DEF AllRecorded
<1>12. \A wire : WireInv(wire)' <=> WireInv(wire)
  BY DEF WireInv
<1>13. \A wire, st, history : Telling(wire, st, history)' <=> Telling(wire, st, history)
  BY <1>7, <1>8, <1>10, <1>12 DEF Telling
<1> QED BY <1>9, <1>11, <1>13 DEF StreamInv, StreamHolds

\* An event that finishes no item.
LEMMA KeptEvent ==
    ASSUME RsTypeOK, StreamInv, rsRequest.phase # "done", UNCHANGED rsScript,
           NEW st \in ResponseState, st.completed = rsState.completed, Consume(st, {}),
           WireInv(rsWire') /\ OutputInv(st.output, rsWire') /\ PendingInv(st.pending, rsWire'),
           rsWire'.n = rsWire.n
    PROVE  StreamInv'
<1>1. /\ RecordAll(st, {}).history = rsHistory /\ RecordAll(st, {}).st = st
  BY RecordNothing DEF RsTypeOK
<1>2. Telling(rsWire, rsState, rsHistory) /\ WholeRecords(rsHistory)
  BY DEF StreamInv, StreamHolds
<1>3. ~st.completed
  BY <1>2 DEF Telling
<1>4. \/ rsRequest'.phase = "done" /\ rsRequest'.result # "ok" /\ rsHistory' = rsHistory
      \/ rsHistory' = rsHistory /\ rsState' = st /\ rsRequest' = rsRequest
  BY <1>1, <1>3, Consumed
<1>5. StreamHolds(rsRequest', rsWire', rsState', rsHistory')
  <2>1. CASE rsRequest'.phase = "done" /\ rsRequest'.result # "ok" /\ rsHistory' = rsHistory
    BY <1>2, <2>1 DEF StreamHolds
  <2>2. CASE rsHistory' = rsHistory /\ rsState' = st /\ rsRequest' = rsRequest
    <3>1. HistoryInv(rsHistory, rsWire')
      BY <1>2 DEF Telling, HistoryInv, Finished
    <3>2. Telling(rsWire', st, rsHistory)
      BY <1>3, <3>1 DEF Telling
    <3> QED BY <1>2, <2>2, <3>2 DEF StreamInv, StreamHolds
  <2> QED BY <1>4, <2>1, <2>2
<1> QED BY <1>5, ScriptKept

\* The entries of a stream are entries of its items, which are those told.
LEMMA Entries ==
    ASSUME RsTypeOK, Telling(rsWire, rsState, rsHistory), NEW p \in 1..Len(rsState.output)
    PROVE  LET entry == rsState.output[p]  i == entry.item.call
           IN  /\ IsEntry(entry) /\ i \in DOMAIN rsScript /\ i \in Nat /\ i > 0
               /\ i <= rsWire.n /\ (i = rsWire.n => rsWire.open)
               /\ Entered(i, rsWire) /\ entry.item = ItemOf(i, Pieces(PieceCount(i, rsWire)))
               /\ entry.done = Finished(i, rsWire) /\ (entry.rec = 0 <=> ~Finished(i, rsWire))
<1> DEFINE entry == rsState.output[p]
           i == entry.item.call
<1>1. EntryInv(entry, rsWire)
  BY DEF Telling, OutputInv
<1> HIDE DEF entry
<1>2. /\ i \in DOMAIN rsScript /\ Entered(i, rsWire)
      /\ entry.item = ItemOf(i, Pieces(PieceCount(i, rsWire)))
      /\ entry.done = Finished(i, rsWire) /\ (entry.rec = 0 <=> ~Finished(i, rsWire))
  BY <1>1 DEF EntryInv
<1>3. i \in Nat /\ i > 0
  BY <1>2, ScriptItems DEF RsTypeOK
<1>4. IsEntry(entry)
  <2> DEFINE t == Pieces(PieceCount(i, rsWire))
  <2>1. entry.item = ItemOf(i, t)
    BY <1>2
  <2>2. entry.item.text = t
    BY <2>1, ItemOfFacts
  <2> QED BY <1>2, <2>1, <2>2 DEF IsEntry
<1>5. i <= rsWire.n /\ (i = rsWire.n => rsWire.open)
  <2>1. rsWire.n \in Nat
    BY DEF RsTypeOK
  <2> QED BY <1>2, <1>3, <2>1 DEF Entered
<1> QED BY <1>2, <1>3, <1>4, <1>5 DEF entry

\* The wire stands at an item that is being produced.
LEMMA AtItem ==
    ASSUME RsTypeOK, StreamInv, Producing
    PROVE  /\ rsRequest.phase # "done" /\ Telling(rsWire, rsState, rsHistory)
           /\ rsWire.n \in DOMAIN rsScript /\ rsWire.n \in Nat /\ rsWire.n <= Len(rsScript)
           /\ Len(rsScript) \in Nat /\ DOMAIN rsScript = 1..Len(rsScript)
           /\ rsWire.sent \in Nat /\ rsWire.open \in BOOLEAN
           /\ MaxPieces \in Nat /\ MaxPieces > 0
           /\ PendingInv(rsState.pending, rsWire) /\ OutputInv(rsState.output, rsWire)
           /\ WireInv(rsWire)
<1>1. rsRequest.phase # "done"
  BY DEF Producing, Reads, Streaming
<1>2. Telling(rsWire, rsState, rsHistory)
  BY <1>1 DEF StreamInv, StreamHolds
<1>3. rsWire.n \in DOMAIN rsScript /\ rsWire.sent \in Nat /\ rsWire.n <= Len(rsScript)
  BY ProducingItem, WholeType DEF Producing
<1>4. Len(rsScript) \in Nat /\ DOMAIN rsScript = 1..Len(rsScript)
  <2>1. Len(rsScript) \in 1..MaxRsItems /\ DOMAIN rsScript = 1..Len(rsScript)
    BY ScriptItems DEF RsTypeOK
  <2> QED BY <2>1, ResponseStreamAssumption
<1>5. rsWire.open \in BOOLEAN
  BY DEF RsTypeOK
<1> QED BY <1>1, <1>2, <1>3, <1>4, <1>5, WholeType DEF Telling

\* The item of an earlier call is told no more.
LEMMA EarlierEntry ==
    ASSUME NEW entry, NEW wire, EntryInv(entry, rsWire), rsWire.n \in Nat,
           entry.item.call \in Nat, entry.item.call < rsWire.n,
           wire.n = rsWire.n \/ wire.n = rsWire.n + 1
    PROVE  EntryInv(entry, wire)
<1> DEFINE i == entry.item.call
<1>1. i < wire.n /\ i # wire.n /\ i # rsWire.n
  OBVIOUS
<1>2. /\ Entered(i, wire) <=> Entered(i, rsWire)
      /\ Finished(i, wire) = Finished(i, rsWire)
  BY <1>1 DEF Entered, Finished
<1>3. PieceCount(i, wire) = PieceCount(i, rsWire)
  BY <1>1, <1>2 DEF PieceCount
<1> QED BY <1>2, <1>3 DEF EntryInv

LEMMA AppendedOutput ==
    ASSUME NEW output \in Seq(OutputState), NEW old, OutputInv(output, old),
           NEW new \in OutputState, NEW wire, EntryInv(new, wire),
           \A p \in 1..Len(output) : EntryInv(output[p], wire)
                                       /\ output[p].item.call < new.item.call,
           \A i \in DOMAIN rsScript : Entered(i, wire) => Entered(i, old) \/ i = new.item.call
    PROVE  OutputInv(Append(output, new), wire)
<1> DEFINE out == Append(output, new)
<1>1. Len(output) \in Nat /\ Len(out) = Len(output) + 1 /\ out[Len(output) + 1] = new
        /\ \A p \in 1..Len(output) : out[p] = output[p]
  OBVIOUS
<1>2. \A p \in 1..Len(out) : p \in 1..Len(output) \/ p = Len(output) + 1
  BY <1>1
<1> HIDE DEF out
<1>3. \A p \in 1..Len(out) : EntryInv(out[p], wire)
  BY <1>1, <1>2
<1>4. ASSUME NEW p \in 1..Len(out), NEW q \in 1..Len(out), p < q
      PROVE  out[p].item.call < out[q].item.call
  <2>1. p \in 1..Len(output)
    BY <1>1, <1>4
  <2>2. CASE q = Len(output) + 1
    BY <1>1, <2>1, <2>2
  <2>3. CASE q \in 1..Len(output)
    BY <1>1, <1>4, <2>1, <2>3 DEF OutputInv
  <2> QED BY <1>2, <2>2, <2>3
<1>5. ASSUME NEW i \in DOMAIN rsScript, Entered(i, wire)
      PROVE  \E p \in 1..Len(out) : out[p].item.call = i
  <2>1. CASE i = new.item.call
    BY <1>1, <2>1
  <2>2. CASE Entered(i, old)
    <3>1. PICK p \in 1..Len(output) : output[p].item.call = i
      BY <2>2 DEF OutputInv
    <3> QED BY <1>1, <3>1
  <2> QED BY <1>5, <2>1, <2>2
<1> QED BY <1>3, <1>4, <1>5 DEF OutputInv, out

LEMMA ChangedOutput ==
    ASSUME NEW output \in Seq(OutputState), NEW old, OutputInv(output, old),
           NEW q \in 1..Len(output), NEW new \in OutputState, NEW wire, EntryInv(new, wire),
           new.item.call = output[q].item.call,
           \A p \in 1..Len(output) : p # q => EntryInv(output[p], wire),
           \A i \in DOMAIN rsScript : Entered(i, wire) => Entered(i, old)
    PROVE  OutputInv([output EXCEPT ![q] = new], wire)
<1> DEFINE out == [output EXCEPT ![q] = new]
<1>1. Len(out) = Len(output) /\ out[q] = new
        /\ \A p \in 1..Len(output) : p # q => out[p] = output[p]
  OBVIOUS
<1> HIDE DEF out
<1>2. \A p \in 1..Len(output) : out[p].item.call = output[p].item.call
  BY <1>1
<1> QED BY <1>1, <1>2 DEF OutputInv, out

LEMMA ItemAddedStep ==
    ASSUME RsTypeOK, StreamInv, Habits = {}, ItemAdded
    PROVE  StreamInv'
<1> DEFINE n == rsWire.n
           it == ItemOf(n, <<>>)
           st == Remember(rsState, it, FALSE)
           output == rsState.output
           new == [item |-> it, done |-> FALSE, rec |-> 0]
<1>1. /\ Producing /\ rsScript[n].announced /\ ~rsWire.open
      /\ rsWire' = [rsWire EXCEPT !.open = TRUE]
      /\ Consume(st, {}) /\ UNCHANGED rsScript
  BY Zenon DEF ItemAdded, Upcoming
<1>2. /\ rsRequest.phase # "done" /\ Telling(rsWire, rsState, rsHistory)
      /\ n \in DOMAIN rsScript /\ n \in Nat /\ n <= Len(rsScript)
      /\ rsWire.sent \in Nat /\ MaxPieces \in Nat /\ MaxPieces > 0
      /\ PendingInv(rsState.pending, rsWire) /\ OutputInv(output, rsWire) /\ WireInv(rsWire)
  BY <1>1, AtItem
<1>3. rsWire.sent = 0
  BY <1>1, <1>2 DEF WireInv
<1>4. rsWire'.n = n /\ rsWire'.open /\ rsWire'.sent = 0
  BY <1>1, <1>3 DEF RsTypeOK
<1>5. Len(rsState.pending) = 0
  BY <1>1, <1>2 DEF PendingInv, StreamedBy, Waiting
<1>6. /\ rsState \in ResponseState /\ output \in Seq(OutputState)
      /\ rsState.pending \in Seq(ResponseEvent) /\ <<>> \in Seq(Nat)
  BY DEF RsTypeOK, ResponseState
<1>7. it \in ResponseItem
  BY <1>2, <1>6, ItemOfType DEF RsTypeOK
<1>8. ASSUME NEW p \in 1..Len(output)
      PROVE  /\ IsEntry(output[p]) /\ ~Confused(output[p], n) /\ output[p].item.call # n
             /\ output[p].item.call < n /\ output[p].item.call \in Nat
             /\ EntryInv(output[p], rsWire)
  <2> DEFINE i == output[p].item.call
  <2>1. /\ IsEntry(output[p]) /\ i \in DOMAIN rsScript /\ i \in Nat
        /\ i <= n /\ i # n /\ output[p].done = Finished(i, rsWire)
    BY <1>1, <1>2, Entries
  <2>2. i < n
    BY <1>2, <2>1
  <2>3. rsScript[i].kind = rsScript[n].kind /\ ~rsScript[n].named => rsScript[i].done # "omitted"
    BY <1>2, <2>1, ScriptRules DEF RsTypeOK
  <2>4. ~Confused(output[p], n)
    BY <2>1, <2>2, <2>3 DEF Confused, Finished
  <2>5. EntryInv(output[p], rsWire)
    BY <1>2 DEF OutputInv
  <2> QED BY <2>1, <2>2, <2>4, <2>5
<1>9. Place(output, it) = 0
  BY <1>2, <1>6, <1>8, PlaceNew DEF RsTypeOK
<1>10. Replay(it, rsState.pending).item = it /\ Replay(it, rsState.pending).left = <<>>
  BY <1>5, <1>6, <1>7, ReplayNothing
<1> HIDE DEF it
<1>11. st \in ResponseState /\ st.completed = rsState.completed
         /\ st.output = Append(output, new) /\ st.pending = <<>>
  <2>1. st.output = Append(output, [item |-> Replay(it, rsState.pending).item, done |-> FALSE,
                                    rec |-> 0])
          /\ st.pending = Replay(it, rsState.pending).left
    BY <1>6, <1>7, <1>9, RememberNew
  <2>2. st \in ResponseState /\ st.completed = rsState.completed
    BY <1>6, <1>7, RememberType
  <2> QED BY <1>10, <2>1, <2>2
<1>12. new \in OutputState
  BY <1>7 DEF OutputState
<1>13. EntryInv(new, rsWire') /\ new.item.call = n
  <2>1. it.call = n
    BY ItemOfFacts DEF it
  <2>2. PieceCount(n, rsWire') = 0 /\ ~Finished(n, rsWire') /\ Entered(n, rsWire')
    BY <1>2, <1>4 DEF PieceCount, Finished, Entered
  <2>3. Pieces(0) = <<>>
    BY <1>2, PiecesFacts
  <2>4. it = ItemOf(n, Pieces(PieceCount(n, rsWire')))
    BY <2>2, <2>3 DEF it
  <2>5. new.item = it /\ new.done = FALSE /\ new.rec = 0
    OBVIOUS
  <2> HIDE DEF n, new
  <2>6. new.item.call = n
    BY <2>1, <2>5
  <2>7. new.done = Finished(n, rsWire') /\ (new.rec = 0 <=> ~Finished(n, rsWire'))
    BY <2>2, <2>5 DEF Finished
  <2>8. new.item = ItemOf(n, Pieces(PieceCount(n, rsWire')))
    BY <2>4, <2>5
  <2> QED BY <1>2, <2>2, <2>6, <2>7, <2>8 DEF EntryInv
<1> HIDE DEF new, st
<1>14. OutputInv(st.output, rsWire')
  <2>1. \A p \in 1..Len(output) : EntryInv(output[p], rsWire')
    BY <1>2, <1>4, <1>8, EarlierEntry
  <2>2. \A i \in DOMAIN rsScript : Entered(i, rsWire') => Entered(i, rsWire) \/ i = n
    BY <1>4 DEF Entered
  <2> QED BY <1>2, <1>6, <1>8, <1>11, <1>12, <1>13, <2>1, <2>2, AppendedOutput
<1>15. PendingInv(st.pending, rsWire')
  BY <1>1, <1>2, <1>4, <1>11 DEF PendingInv, StreamedBy, Waiting
<1>16. WireInv(rsWire')
  BY <1>1, <1>2, <1>4 DEF WireInv
<1> QED BY <1>1, <1>2, <1>4, <1>11, <1>14, <1>15, <1>16, KeptEvent

\* A piece of the text, or the done text, of the item that is told.
LEMMA TextStep ==
    ASSUME RsTypeOK, StreamInv, Habits = {}, Told, rsScript[rsWire.n].deltas,
           rsWire.sent <= MaxPieces, rsWire' = [rsWire EXCEPT !.sent = @ + 1],
           UNCHANGED rsScript, NEW event \in ResponseEvent,
           event = IF rsWire.sent + 1 <= MaxPieces
                   THEN Update("delta", rsWire.n, <<rsWire.sent + 1>>)
                   ELSE Update("done", rsWire.n, Whole),
           Consume(Applied(rsState, event), {})
    PROVE  StreamInv'
<1> DEFINE n == rsWire.n
           st == Applied(rsState, event)
           output == rsState.output
           place == Target(output, event)
           k == PieceCount(n, rsWire')
<1>1. /\ Producing /\ (rsWire.open \/ ~rsScript[n].announced)
  BY DEF Told, Upcoming
<1>2. /\ rsRequest.phase # "done" /\ Telling(rsWire, rsState, rsHistory)
      /\ n \in DOMAIN rsScript /\ n \in Nat /\ n <= Len(rsScript)
      /\ rsWire.sent \in Nat /\ MaxPieces \in Nat /\ MaxPieces > 0 /\ rsWire.open \in BOOLEAN
      /\ PendingInv(rsState.pending, rsWire) /\ OutputInv(output, rsWire) /\ WireInv(rsWire)
  BY <1>1, AtItem
<1>3. rsWire'.n = n /\ rsWire'.open = rsWire.open /\ rsWire'.sent = rsWire.sent + 1
  BY DEF RsTypeOK
<1>4. /\ rsState \in ResponseState /\ output \in Seq(OutputState)
      /\ rsState.pending \in Seq(ResponseEvent)
  BY DEF RsTypeOK, ResponseState
<1>5. /\ st \in ResponseState /\ st.completed = rsState.completed
      /\ place = 0 => st.output = output /\ st.pending = Append(rsState.pending, event)
      /\ place # 0 => /\ st.pending = rsState.pending
                      /\ st.output = [output EXCEPT ![place] =
                                        [output[place] EXCEPT !.item =
                                           Updated(output[place].item, event)]]
  BY <1>4, AppliedType
<1>6. /\ place \in 0..Len(output)
      /\ place # 0 => \A p \in 1..Len(output) : Targets(event, output[p].item) => p <= place
      /\ place # 0 => Targets(event, output[place].item)
      /\ place = 0 => \A p \in 1..Len(output) : ~Targets(event, output[p].item)
  BY <1>4, TargetFound
<1>7. event.item.kind = rsScript[n].kind /\ event.item.id = IF rsScript[n].named THEN n ELSE 0
  BY DEF Update, ItemOf
<1> HIDE DEF st, place
<1>8. \A p \in 1..Len(output) :
         LET i == output[p].item.call
         IN  /\ i \in DOMAIN rsScript /\ i \in Nat /\ i > 0 /\ i <= n /\ (i = n => rsWire.open)
             /\ output[p].item = ItemOf(i, Pieces(PieceCount(i, rsWire)))
             /\ EntryInv(output[p], rsWire)
  BY <1>2, Entries DEF OutputInv
<1>9. \A p \in 1..Len(output) :
         output[p].item.call < n => EntryInv(output[p], rsWire')
  BY <1>2, <1>3, <1>8, EarlierEntry
<1>10. \A i \in DOMAIN rsScript : Entered(i, rsWire') => Entered(i, rsWire)
  BY <1>3 DEF Entered
<1>11. WireInv(rsWire')
  BY <1>1, <1>2, <1>3 DEF WireInv
<1>12. ASSUME Waiting(n)
       PROVE  OutputInv(st.output, rsWire') /\ PendingInv(st.pending, rsWire')
  <2>1. ~rsWire.open
    BY <1>2, <1>12 DEF WireInv, Waiting
  <2>2. ASSUME NEW p \in 1..Len(output) PROVE ~Targets(event, output[p].item)
    <3> DEFINE i == output[p].item.call  t == Pieces(PieceCount(i, rsWire))
    <3>1. i \in DOMAIN rsScript /\ i \in Nat /\ i > 0 /\ i # n /\ output[p].item = ItemOf(i, t)
      BY <1>8, <2>1
    <3>2. rsScript[i].kind = rsScript[n].kind => rsScript[n].named
      BY <1>2, <1>12, <3>1, ScriptRules DEF RsTypeOK
    <3>3. ItemOf(i, t).kind = rsScript[i].kind /\ ItemOf(i, t).id \in {0, i}
      BY ItemOfFacts
    <3> HIDE DEF t
    <3>4. /\ output[p].item.kind = rsScript[i].kind /\ output[p].item.id \in {0, i}
      BY <3>1, <3>3
    <3> HIDE DEF i
    <3> QED BY <1>2, <1>7, <3>1, <3>2, <3>4 DEF Targets
  <2>3. place = 0
    BY <1>6, <2>2
  <2>4. st.output = output /\ st.pending = Append(rsState.pending, event)
    BY <1>5, <2>3
  <2>5. OutputInv(st.output, rsWire')
    <3>1. \A p \in 1..Len(output) : EntryInv(output[p], rsWire')
      <4>1. \A p \in 1..Len(output) : output[p].item.call < n
        BY <1>2, <1>8, <2>1
      <4> QED BY <1>9, <4>1
    <3> QED BY <1>2, <1>10, <2>4, <3>1 DEF OutputInv
  <2>6. StreamedBy(rsState.pending, n, rsWire.sent)
    BY <1>2, <1>12 DEF PendingInv
  <2>7. StreamedBy(st.pending, n, rsWire.sent + 1)
    <3> DEFINE m == rsWire.sent + 1  events == st.pending
    <3>1. Len(rsState.pending) = rsWire.sent
      BY <2>6 DEF StreamedBy
    <3>2. Len(events) = m /\ events[m] = event /\ \A e \in 1..rsWire.sent : events[e] = rsState.pending[e]
      BY <1>2, <1>4, <2>4, <3>1
    <3>3. \A e \in 1..m : e \in 1..rsWire.sent \/ e = m
      BY <1>2
    <3>4. event = IF m <= MaxPieces THEN Update("delta", n, <<m>>) ELSE Update("done", n, Whole)
      OBVIOUS
    <3> HIDE DEF events, n, m
    <3>5. ASSUME NEW e \in 1..m
          PROVE  events[e] = IF e <= MaxPieces THEN Update("delta", n, <<e>>)
                             ELSE Update("done", n, Whole)
      <4>1. CASE e = m
        BY <3>2, <3>4, <4>1
      <4>2. CASE e \in 1..rsWire.sent
        BY <2>6, <3>2, <4>2 DEF StreamedBy
      <4> QED BY <3>3, <4>1, <4>2
    <3>6. StreamedBy(events, n, m)
      BY <3>2, <3>5 DEF StreamedBy
    <3> QED BY <3>6 DEF events, n, m
  <2> QED BY <1>2, <1>3, <1>12, <2>5, <2>7 DEF PendingInv
<1>13. ASSUME ~Waiting(n)
       PROVE  OutputInv(st.output, rsWire') /\ PendingInv(st.pending, rsWire')
  <2>1. rsWire.open
    BY <1>1, <1>13 DEF Waiting
  <2>2. PICK q \in 1..Len(output) : output[q].item.call = n
    BY <1>2, <2>1 DEF OutputInv, Entered
  <2>3. Len(output) \in Nat
    BY <1>4
  <2>4. q = Len(output)
    <3>1. CASE q < Len(output)
      <4>1. Len(output) \in 1..Len(output)
        BY <2>3
      <4>2. n < output[Len(output)].item.call
        BY <1>2, <2>2, <3>1, <4>1 DEF OutputInv
      <4>3. output[Len(output)].item.call \in Nat /\ output[Len(output)].item.call <= n
        BY <1>8, <4>1
      <4> QED BY <1>2, <4>2, <4>3
    <3> QED BY <2>2, <2>3, <3>1
  <2> DEFINE entry == output[q]
             old == Pieces(PieceCount(n, rsWire))
             new == [entry EXCEPT !.item = Updated(entry.item, event)]
  <2>5. entry.item = ItemOf(n, old) /\ EntryInv(entry, rsWire) /\ entry \in OutputState
    BY <1>4, <1>8, <2>2
  <2>6. Targets(event, entry.item) /\ Updated(entry.item, event) = ItemOf(n, Pieces(k))
    <3>1. PieceCount(n, rsWire) = rsWire.sent
      BY <1>2 DEF PieceCount
    <3>2. CASE rsWire.sent + 1 <= MaxPieces
      <4>1. k = rsWire.sent + 1
        BY <1>2, <1>3, <3>2 DEF PieceCount
      <4>2. Pieces(rsWire.sent) \o <<rsWire.sent + 1>> = Pieces(rsWire.sent + 1)
        BY <1>2, PiecesFacts
      <4>3. event = Update("delta", n, <<rsWire.sent + 1>>)
        BY <3>2
      <4> DEFINE text == <<rsWire.sent + 1>>
      <4>4. /\ Updated(ItemOf(n, old), Update("delta", n, text)) = ItemOf(n, old \o text)
            /\ Targets(Update("delta", n, text), ItemOf(n, old))
        BY UpdatedItem
      <4>5. old \o text = Pieces(k)
        BY <3>1, <4>1, <4>2
      <4> HIDE DEF n, k, entry, old, text
      <4> QED BY <2>5, <4>3, <4>4, <4>5 DEF text
    <3>3. CASE ~(rsWire.sent + 1 <= MaxPieces)
      <4>1. k = MaxPieces
        BY <1>2, <1>3, <3>3 DEF PieceCount
      <4>2. Pieces(MaxPieces) = Whole
        BY <1>2, PiecesFacts
      <4>3. event = Update("done", n, Whole)
        BY <3>3
      <4> HIDE DEF n, k, entry
      <4> QED BY <2>5, <3>1, <4>1, <4>2, <4>3, UpdatedItem
    <3> QED BY <3>2, <3>3
  <2>7. place = q
    BY <1>6, <2>2, <2>3, <2>4, <2>6
  <2>8. st.output = [output EXCEPT ![q] = new] /\ st.pending = rsState.pending
    <3>1. place # 0
      BY <2>3, <2>7
    <3> QED BY <1>5, <2>7, <3>1
  <2>9. /\ new.item = ItemOf(n, Pieces(k)) /\ new.done = entry.done /\ new.rec = entry.rec
        /\ new \in OutputState
    <3>1. ItemOf(n, Pieces(k)) \in ResponseItem
      <4>1. k \in Nat
        BY <1>2, <1>3 DEF PieceCount
      <4>2. Pieces(k) \in Seq(Nat)
        BY <4>1, PiecesFacts
      <4> QED BY <1>2, <4>2, ItemOfType DEF RsTypeOK
    <3> DEFINE item == ItemOf(n, Pieces(k))
    <3>2. new = [entry EXCEPT !.item = item]
      BY <2>6
    <3> HIDE DEF item, new, entry
    <3> QED BY <2>5, <3>1, <3>2 DEF OutputState, item
  <2> HIDE DEF new
  <2>10. new.item.call = n
    BY <2>9, ItemOfFacts
  <2>11. EntryInv(new, rsWire')
    <3>1. entry.done = Finished(n, rsWire) /\ (entry.rec = 0 <=> ~Finished(n, rsWire))
      BY <2>2, <2>5 DEF EntryInv
    <3>2. Finished(n, rsWire') = Finished(n, rsWire) /\ Entered(n, rsWire')
      BY <1>3, <2>1 DEF Finished, Entered
    <3> HIDE DEF n, entry
    <3> QED BY <1>2, <2>9, <2>10, <3>1, <3>2 DEF EntryInv
  <2>12. \A p \in 1..Len(output) : p # q => EntryInv(output[p], rsWire')
    <3>1. \A p \in 1..Len(output) : p # q => output[p].item.call < n
      BY <1>2, <2>2, <2>3, <2>4 DEF OutputInv
    <3> QED BY <1>9, <3>1
  <2>13. OutputInv(st.output, rsWire')
    <3>1. new \in OutputState /\ new.item.call = output[q].item.call
      BY <2>2, <2>9, <2>10
    <3> HIDE DEF n, output
    <3>2. OutputInv([output EXCEPT ![q] = new], rsWire')
      BY <1>2, <1>4, <1>10, <2>11, <2>12, <3>1, ChangedOutput
    <3> QED BY <2>8, <3>2
  <2>14. PendingInv(st.pending, rsWire')
    BY <1>2, <1>3, <1>13, <2>8 DEF PendingInv
  <2> QED BY <2>13, <2>14
<1>14. OutputInv(st.output, rsWire') /\ PendingInv(st.pending, rsWire')
  BY <1>12, <1>13
<1>15. Consume(st, {})
  BY DEF st
<1> QED BY <1>2, <1>3, <1>5, <1>11, <1>14, <1>15, KeptEvent

LEMMA TextDeltaStep ==
    ASSUME RsTypeOK, StreamInv, Habits = {}, TextDelta
    PROVE  StreamInv'
<1> DEFINE event == Update("delta", rsWire.n, <<Whole[rsWire.sent + 1]>>)
<1>1. /\ Told /\ rsScript[rsWire.n].deltas /\ rsWire.sent < MaxPieces
      /\ rsWire' = [rsWire EXCEPT !.sent = @ + 1] /\ UNCHANGED rsScript
      /\ Consume(Applied(rsState, event), {})
  BY Zenon DEF TextDelta, Upcoming
<1>2. rsWire.sent \in Nat /\ MaxPieces \in Nat /\ rsWire.n \in DOMAIN rsScript
  BY <1>1, AtItem DEF Told
<1>3. Whole[rsWire.sent + 1] = rsWire.sent + 1 /\ <<Whole[rsWire.sent + 1]>> \in Seq(Nat)
  BY <1>1, <1>2, PieceType
<1>4. event \in ResponseEvent
  BY <1>2, <1>3, UpdateType DEF RsTypeOK
<1>5. rsWire.sent + 1 <= MaxPieces /\ rsWire.sent <= MaxPieces
  BY <1>1, <1>2
<1>6. event = Update("delta", rsWire.n, <<rsWire.sent + 1>>)
  BY <1>3
<1> HIDE DEF event
<1> QED BY <1>1, <1>4, <1>5, <1>6, TextStep

LEMMA TextDoneStep ==
    ASSUME RsTypeOK, StreamInv, Habits = {}, TextDone
    PROVE  StreamInv'
<1> DEFINE event == Update("done", rsWire.n, Whole)
<1>1. /\ Told /\ rsScript[rsWire.n].deltas /\ rsWire.sent = MaxPieces
      /\ rsWire' = [rsWire EXCEPT !.sent = @ + 1] /\ UNCHANGED rsScript
      /\ Consume(Applied(rsState, event), {})
  BY Zenon DEF TextDone, Upcoming
<1>2. rsWire.sent \in Nat /\ MaxPieces \in Nat /\ rsWire.n \in DOMAIN rsScript
  BY <1>1, AtItem DEF Told
<1>3. event \in ResponseEvent
  BY <1>2, WholeType, UpdateType DEF RsTypeOK
<1>4. ~(rsWire.sent + 1 <= MaxPieces) /\ rsWire.sent <= MaxPieces
  BY <1>1, <1>2
<1> QED BY <1>1, <1>3, <1>4, TextStep

\* The provider goes on to the next item.
LEMMA NextWire ==
    ASSUME RsTypeOK, StreamInv, AllSent, NextItem
    PROVE  LET n == rsWire.n
           IN  /\ rsWire'.n = n + 1 /\ rsWire'.open = FALSE /\ rsWire'.sent = 0
               /\ WireInv(rsWire')
               /\ \A i \in DOMAIN rsScript :
                     /\ Entered(i, rsWire') => Entered(i, rsWire) \/ i = n
                     /\ Entered(i, rsWire) => Entered(i, rsWire')
                     /\ Finished(i, rsWire') = (Finished(i, rsWire) \/ (i = n /\ rsScript[i].done # "omitted"))
               /\ Entered(n, rsWire') <=> rsWire.open \/ rsScript[n].done # "omitted"
               /\ PieceCount(n, rsWire') =
                    IF rsScript[n].deltas \/ rsScript[n].done # "omitted" THEN MaxPieces ELSE 0
               /\ PieceCount(n, rsWire) = IF rsScript[n].deltas THEN MaxPieces ELSE 0
               /\ rsScript[n].deltas => rsWire.sent \in {MaxPieces, MaxPieces + 1}
               /\ rsScript[n].announced <=> rsWire.open
<1> DEFINE n == rsWire.n
<1>1. /\ Producing /\ (rsWire.open \/ ~rsScript[n].announced)
      /\ rsScript[n].deltas => rsWire.sent >= MaxPieces
  BY DEF AllSent, Told, Upcoming
<1>2. /\ Telling(rsWire, rsState, rsHistory)
      /\ n \in DOMAIN rsScript /\ n \in Nat /\ n <= Len(rsScript)
      /\ Len(rsScript) \in Nat /\ DOMAIN rsScript = 1..Len(rsScript)
      /\ rsWire.sent \in Nat /\ MaxPieces \in Nat /\ MaxPieces > 0 /\ rsWire.open \in BOOLEAN
      /\ WireInv(rsWire)
  BY <1>1, AtItem
<1>3. rsWire'.n = n + 1 /\ rsWire'.open = FALSE /\ rsWire'.sent = 0
  BY DEF NextItem
<1>4. rsScript[n].announced <=> rsWire.open
  <2>1. rsScript[n].announced \in BOOLEAN
    BY <1>2, ScriptItems DEF RsTypeOK, ScriptItem
  <2> QED BY <1>1, <1>2, <2>1 DEF WireInv
<1>5. rsWire.sent <= MaxPieces + 1
  BY <1>2 DEF RsTypeOK
<1>6. rsScript[n].deltas => rsWire.sent \in {MaxPieces, MaxPieces + 1}
  BY <1>1, <1>2, <1>5
<1>7. ~rsScript[n].deltas => rsWire.sent = 0
  BY <1>2 DEF WireInv
<1>8. WireInv(rsWire')
  BY <1>2, <1>3 DEF WireInv
<1>9. ASSUME NEW i \in DOMAIN rsScript
      PROVE  /\ Entered(i, rsWire') => Entered(i, rsWire) \/ i = n
             /\ Entered(i, rsWire) => Entered(i, rsWire')
             /\ Finished(i, rsWire') = (Finished(i, rsWire) \/ (i = n /\ rsScript[i].done # "omitted"))
  <2>1. i \in Nat
    BY <1>2
  <2>2. i < n + 1 <=> i < n \/ i = n
    BY <1>2, <2>1
  <2>3. i # n + 1 \/ ~rsWire'.open
    BY <1>3
  <2> HIDE DEF n
  <2> QED BY <1>3, <1>4, <2>1, <2>2, <2>3 DEF Entered, Finished, n
<1>10. n < n + 1 /\ n # n + 1
  BY <1>2
<1>11. Entered(n, rsWire') <=> rsWire.open \/ rsScript[n].done # "omitted"
  BY <1>3, <1>4, <1>10 DEF Entered
<1>12. PieceCount(n, rsWire') =
         IF rsScript[n].deltas \/ rsScript[n].done # "omitted" THEN MaxPieces ELSE 0
  BY <1>3, <1>10 DEF PieceCount, Finished
<1>13. PieceCount(n, rsWire) = IF rsScript[n].deltas THEN MaxPieces ELSE 0
  BY <1>2, <1>6, <1>7 DEF PieceCount
<1> QED BY <1>3, <1>4, <1>6, <1>8, <1>9, <1>11, <1>12, <1>13

\* Once the text of the item was taken, nothing waits for the next one.
LEMMA PendingNext ==
    ASSUME RsTypeOK, StreamInv, Habits = {}, AllSent, NextItem,
           ~(Waiting(rsWire.n) /\ rsScript[rsWire.n].done = "omitted"),
           NEW pending, Len(pending) = 0
    PROVE  PendingInv(pending, rsWire')
<1> DEFINE n == rsWire.n
<1>1. /\ n \in DOMAIN rsScript /\ n \in Nat /\ n <= Len(rsScript)
      /\ Len(rsScript) \in Nat /\ DOMAIN rsScript = 1..Len(rsScript)
  BY AtItem DEF AllSent, Told
<1>2. rsWire'.n = n + 1 /\ rsWire'.sent = 0
  BY NextWire
<1>3. CASE n + 1 <= Len(rsScript)
  BY <1>2, <1>3 DEF PendingInv, StreamedBy
<1>4. CASE ~(n + 1 <= Len(rsScript))
  <2>1. n = Len(rsScript)
    BY <1>1, <1>4
  <2>2. ~ \E i \in DOMAIN rsScript : Waiting(i) /\ rsScript[i].done = "omitted"
    <3> SUFFICES ASSUME NEW i \in DOMAIN rsScript, Waiting(i), rsScript[i].done = "omitted"
                 PROVE  FALSE
      OBVIOUS
    <3>1. i = 1 /\ Len(rsScript) = 1
      BY ScriptRules DEF RsTypeOK
    <3> QED BY <2>1, <3>1
  <2> QED BY <1>2, <1>4, <2>2 DEF PendingInv
<1> QED BY <1>3, <1>4

LEMMA ItemLeftOpenStep ==
    ASSUME RsTypeOK, StreamInv, Habits = {}, ItemLeftOpen
    PROVE  StreamInv'
<1> DEFINE n == rsWire.n
           output == rsState.output
<1>1. /\ AllSent /\ NextItem /\ rsScript[n].done = "omitted"
      /\ UNCHANGED <<rsScript, rsState, rsHistory, rsRequest>>
  BY DEF ItemLeftOpen, Upcoming
<1>2. Producing
  BY <1>1 DEF AllSent, Told
<1>3. /\ Telling(rsWire, rsState, rsHistory) /\ rsRequest.phase # "done"
      /\ n \in DOMAIN rsScript /\ n \in Nat /\ n <= Len(rsScript)
      /\ PendingInv(rsState.pending, rsWire) /\ OutputInv(output, rsWire)
  BY <1>2, AtItem
<1>4. /\ rsWire'.n = n + 1 /\ rsWire'.sent = 0 /\ WireInv(rsWire')
      /\ \A i \in DOMAIN rsScript :
            /\ Entered(i, rsWire') => Entered(i, rsWire) \/ i = n
            /\ Finished(i, rsWire') = (Finished(i, rsWire) \/ (i = n /\ rsScript[i].done # "omitted"))
      /\ Entered(n, rsWire') <=> rsWire.open \/ rsScript[n].done # "omitted"
      /\ PieceCount(n, rsWire') =
           IF rsScript[n].deltas \/ rsScript[n].done # "omitted" THEN MaxPieces ELSE 0
      /\ PieceCount(n, rsWire) = IF rsScript[n].deltas THEN MaxPieces ELSE 0
      /\ rsScript[n].deltas => rsWire.sent \in {MaxPieces, MaxPieces + 1}
  BY <1>1, NextWire
<1>5. \A i \in DOMAIN rsScript : Finished(i, rsWire') = Finished(i, rsWire)
  BY <1>1, <1>4 DEF Finished
<1>6. OutputInv(output, rsWire')
  <2>1. ASSUME NEW p \in 1..Len(output) PROVE EntryInv(output[p], rsWire')
    <3> DEFINE i == output[p].item.call
    <3>1. EntryInv(output[p], rsWire) /\ i \in Nat /\ i <= n
      BY <1>3, Entries DEF OutputInv
    <3>2. CASE i < n
      BY <1>3, <1>4, <3>1, <3>2, EarlierEntry
    <3>3. CASE i = n
      <4>1. Entered(n, rsWire') /\ PieceCount(n, rsWire') = PieceCount(n, rsWire)
        <5>1. rsWire.open
          BY <1>3, <3>3, Entries
        <5> QED BY <1>1, <1>4, <5>1
      <4>2. Finished(n, rsWire') = Finished(n, rsWire)
        BY <1>3, <1>5
      <4> HIDE DEF n
      <4> QED BY <3>1, <3>3, <4>1, <4>2 DEF EntryInv
    <3> QED BY <1>3, <3>1, <3>2, <3>3
  <2>2. \A i \in DOMAIN rsScript : Entered(i, rsWire') => Entered(i, rsWire)
    BY <1>1, <1>4 DEF Entered
  <2> QED BY <1>3, <2>1, <2>2 DEF OutputInv
<1>7. PendingInv(rsState.pending, rsWire')
  <2>1. CASE Waiting(n)
    <3>1. n = 1 /\ Len(rsScript) = 1
      BY <1>1, <1>3, <2>1, ScriptRules DEF RsTypeOK
    <3>2. rsWire.sent \in {MaxPieces, MaxPieces + 1} /\ StreamedBy(rsState.pending, n, rsWire.sent)
      BY <1>3, <1>4, <2>1 DEF PendingInv, Waiting
    <3> QED BY <1>1, <1>3, <1>4, <2>1, <3>1, <3>2 DEF PendingInv
  <2>2. CASE ~Waiting(n)
    <3>1. Len(rsState.pending) = 0
      BY <1>3, <2>2 DEF PendingInv, StreamedBy
    <3> QED BY <1>1, <2>2, <3>1, PendingNext
  <2> QED BY <2>1, <2>2
<1>8. HistoryInv(rsHistory, rsWire')
  <2>1. HistoryInv(rsHistory, rsWire) /\ \A h \in 1..Len(rsHistory) : rsHistory[h].call \in DOMAIN rsScript
    BY <1>3 DEF Telling, HistoryInv, WholeRecords
  <2> QED BY <1>5, <2>1 DEF HistoryInv
<1>9. Telling(rsWire', rsState, rsHistory)
  BY <1>3, <1>4, <1>6, <1>7, <1>8 DEF Telling
<1> QED BY <1>1, <1>9, ScriptKept DEF StreamInv, StreamHolds

\* What merging leaves of an item whose done event has no text.
LEMMA MergedFacts ==
    ASSUME NEW i, NEW old, NEW new
    PROVE  MergedItem(ItemOf(i, old), ItemOf(i, new)) = ItemOf(i, IF new = <<>> THEN old ELSE new)
  BY DEF MergedItem, ItemOf

\* The state once the done event of the item is taken, before its record is
\* made.  told is what the output is with the record.
DoneAt(now, s, told) ==
    /\ s \in 1..Len(now.output)
    /\ now.output[s].item = ItemOf(rsWire.n, Whole) /\ now.output[s].rec = 0
    /\ OutputInv(told, rsWire') /\ Len(told) = Len(now.output)
    /\ \A p \in 1..Len(told) :
          /\ told[p].item = now.output[p].item /\ told[p].done = now.output[p].done
          /\ told[p].rec = 0 <=> now.output[p].rec = 0 /\ p # s

DoneTaken(it) ==
    LET now == Remember(rsState, it, TRUE)
    IN  /\ Len(now.pending) = 0
        /\ \E told : DoneAt(now, Slot(rsState.output, it), told)

LEMMA ItemDoneKnown ==
    ASSUME RsTypeOK, StreamInv, Habits = {}, AllSent, NextItem,
           rsScript[rsWire.n].done # "omitted", rsWire.open,
           NEW text, text = IF rsScript[rsWire.n].done = "full" THEN Whole ELSE <<>>
    PROVE  DoneTaken(ItemOf(rsWire.n, text))
<1> DEFINE n == rsWire.n
           it == ItemOf(n, text)
           now == Remember(rsState, it, TRUE)
           output == rsState.output
           item == ItemOf(n, Whole)
<1>1. /\ Telling(rsWire, rsState, rsHistory) /\ Producing
      /\ n \in DOMAIN rsScript /\ n \in Nat /\ n <= Len(rsScript)
      /\ MaxPieces \in Nat /\ MaxPieces > 0
      /\ PendingInv(rsState.pending, rsWire) /\ OutputInv(output, rsWire)
  BY AtItem DEF AllSent, Told
<1>2. /\ rsWire'.n = n + 1
      /\ \A i \in DOMAIN rsScript : Entered(i, rsWire') => Entered(i, rsWire) \/ i = n
      /\ Finished(n, rsWire') = TRUE /\ Entered(n, rsWire')
      /\ PieceCount(n, rsWire') = MaxPieces
      /\ PieceCount(n, rsWire) = IF rsScript[n].deltas THEN MaxPieces ELSE 0
      /\ rsScript[n].announced
  BY <1>1, NextWire
<1>3. Len(rsState.pending) = 0
  BY <1>1, <1>2 DEF PendingInv, StreamedBy, Waiting
<1>4. /\ rsState \in ResponseState /\ output \in Seq(OutputState)
      /\ rsState.pending \in Seq(ResponseEvent)
  BY DEF RsTypeOK, ResponseState
<1>5. text \in Seq(Nat) /\ Whole \in Seq(Nat)
  BY WholeType
<1>6. it \in ResponseItem /\ item \in ResponseItem
  BY <1>1, <1>5, ItemOfType DEF RsTypeOK
<1>7. PICK q \in 1..Len(output) : output[q].item.call = n
  BY <1>1 DEF OutputInv, Entered
<1>8. /\ output[q].item = ItemOf(n, Pieces(PieceCount(n, rsWire)))
      /\ output[q].done = FALSE /\ output[q].rec = 0 /\ output[q] \in OutputState
  <2>1. /\ output[q].item = ItemOf(n, Pieces(PieceCount(n, rsWire)))
        /\ output[q].done = Finished(n, rsWire) /\ (output[q].rec = 0 <=> ~Finished(n, rsWire))
    BY <1>1, <1>7, Entries
  <2>2. Finished(n, rsWire) = FALSE
    BY <1>1 DEF Finished
  <2> QED BY <1>4, <2>1, <2>2
<1>9. ASSUME NEW p \in 1..Len(output)
      PROVE  /\ IsEntry(output[p]) /\ ~Confused(output[p], n)
             /\ output[p].item.call = n => p = q
             /\ p # q => EntryInv(output[p], rsWire')
  <2> DEFINE i == output[p].item.call
  <2>1. /\ IsEntry(output[p]) /\ i \in DOMAIN rsScript /\ i \in Nat /\ i <= n
        /\ output[p].done = Finished(i, rsWire) /\ EntryInv(output[p], rsWire)
    BY <1>1, Entries DEF OutputInv
  <2>2. i # n /\ rsScript[i].kind = rsScript[n].kind /\ ~rsScript[n].named =>
          rsScript[i].done # "omitted"
    BY <1>1, <2>1, ScriptRules DEF RsTypeOK
  <2>3. ~Confused(output[p], n)
    <3>1. i # n => i < n
      BY <1>1, <2>1
    <3> HIDE DEF n
    <3> QED BY <2>1, <2>2, <3>1 DEF Confused, Finished, n
  <2>4. i = n => p = q
    <3>1. p \in Nat /\ q \in Nat
      BY <1>4
    <3>2. p < q => i < n
      BY <1>1, <1>7 DEF OutputInv
    <3>3. q < p => n < i
      BY <1>1, <1>7 DEF OutputInv
    <3> QED BY <1>1, <2>1, <3>1, <3>2, <3>3
  <2>5. p # q => EntryInv(output[p], rsWire')
    <3>1. p # q => i < n
      <4>1. p # q => i # n
        <5>1. p \in Nat /\ q \in Nat
          BY <1>4
        <5>2. p < q => i < n
          BY <1>1, <1>7 DEF OutputInv
        <5>3. q < p => n < i
          BY <1>1, <1>7 DEF OutputInv
        <5> QED BY <1>1, <2>1, <5>1, <5>2, <5>3
      <4> QED BY <1>1, <2>1, <4>1
    <3> QED BY <1>1, <1>2, <2>1, <3>1, EarlierEntry
  <2> QED BY <2>1, <2>3, <2>4, <2>5
<1>10. Place(output, it) = q
  <2>1. OnlyEntry(output, n, q)
    BY <1>7, <1>8, <1>9 DEF OnlyEntry
  <2>2. rsScript \in Scripts
    BY DEF RsTypeOK
  <2> QED BY <1>1, <1>4, <1>5, <2>1, <2>2, PlaceKnown
<1>11. MergedItem(output[q].item, it) = item
  <2> DEFINE old == Pieces(PieceCount(n, rsWire))
  <2>1. MergedItem(ItemOf(n, old), it) = ItemOf(n, IF text = <<>> THEN old ELSE text)
    BY MergedFacts
  <2>2. Pieces(MaxPieces) = Whole /\ Whole # <<>>
    <3>1. Pieces(MaxPieces) = Whole /\ (Pieces(MaxPieces) = <<>> <=> MaxPieces = 0)
      BY <1>1, PiecesFacts
    <3> QED BY <1>1, <3>1
  <2>3. (IF text = <<>> THEN old ELSE text) = Whole
    <3>1. CASE rsScript[n].done = "full"
      BY <2>2, <3>1
    <3>2. CASE rsScript[n].done # "full"
      <4>1. rsScript[n].done = "partial" /\ rsScript[n].deltas
        BY <1>1, <3>2, ScriptRules DEF RsTypeOK
      <4> QED BY <1>2, <2>2, <3>2, <4>1
    <3> QED BY <3>1, <3>2
  <2> QED BY <1>8, <2>1, <2>3
<1>12. Replay(item, rsState.pending).item = item /\ Replay(item, rsState.pending).left = <<>>
  BY <1>3, <1>4, <1>6, ReplayNothing
<1> DEFINE new == [item |-> item, done |-> TRUE, rec |-> 0]
           kept == [item |-> item, done |-> TRUE, rec |-> 1]
           told == [output EXCEPT ![q] = kept]
<1> HIDE DEF it, item
<1>13. now.output = [output EXCEPT ![q] = new] /\ now.pending = <<>>
  <2>1. /\ now.output = [output EXCEPT ![q] = [item |-> Replay(item, rsState.pending).item,
                                               done |-> TRUE, rec |-> output[q].rec]]
        /\ now.pending = Replay(item, rsState.pending).left
    <3>1. q # 0 /\ ~output[q].done
      BY <1>4, <1>8
    <3> QED BY <1>4, <1>6, <1>10, <1>11, <3>1, RememberKnown
  <2> QED BY <1>8, <1>12, <2>1
<1>14. Slot(output, it) = q
  <2>1. q # 0
    BY <1>4
  <2> QED BY <1>10, <2>1 DEF Slot
<1>15. kept \in OutputState /\ kept.item.call = n /\ EntryInv(kept, rsWire')
  <2>1. kept.item = item /\ kept.done = TRUE /\ kept.rec = 1 /\ kept \in OutputState
    BY <1>6 DEF OutputState
  <2> HIDE DEF kept
  <2>2. item.call = n /\ item = ItemOf(n, Pieces(MaxPieces))
    BY <1>1, PiecesFacts, ItemOfFacts DEF item
  <2> HIDE DEF n
  <2>3. kept.item.call = n /\ kept.item = ItemOf(n, Pieces(PieceCount(n, rsWire')))
    BY <1>2, <2>1, <2>2
  <2>4. kept.done = Finished(n, rsWire')
    BY <1>2, <2>1
  <2>5. kept.rec = 0 <=> ~Finished(n, rsWire')
    BY <1>2, <2>1
  <2> QED BY <1>1, <1>2, <2>1, <2>3, <2>4, <2>5 DEF EntryInv
<1>16. OutputInv(told, rsWire')
  <2>1. \A i \in DOMAIN rsScript : Entered(i, rsWire') => Entered(i, rsWire)
    BY <1>1, <1>2 DEF AllSent, Told, Entered
  <2>2. \A p \in 1..Len(output) : p # q => EntryInv(output[p], rsWire')
    BY <1>9
  <2> HIDE DEF kept, n, output
  <2> QED BY <1>1, <1>4, <1>7, <1>15, <2>1, <2>2, ChangedOutput
<1>17. DoneAt(now, q, told)
  <2>1. /\ Len(told) = Len(output) /\ Len(now.output) = Len(output)
        /\ told[q] = kept /\ now.output[q] = new
        /\ \A p \in 1..Len(output) : p # q => told[p] = output[p] /\ now.output[p] = output[p]
    <3> HIDE DEF new, kept, output, now
    <3> QED BY <1>4, <1>13
  <2>2. new.item = item /\ new.rec = 0 /\ kept.item = item /\ kept.rec = 1
          /\ new.done = TRUE /\ kept.done = TRUE
    OBVIOUS
  <2> HIDE DEF told, now, new, kept, output
  <2>3. ASSUME NEW p \in 1..Len(told)
        PROVE  /\ told[p].item = now.output[p].item /\ told[p].done = now.output[p].done
               /\ told[p].rec = 0 <=> now.output[p].rec = 0 /\ p # q
    <3>1. CASE p = q
      <4>1. told[p] = kept /\ now.output[p] = new
        BY <2>1, <3>1
      <4>2. told[p].item = now.output[p].item /\ told[p].done = now.output[p].done
        BY <2>2, <4>1
      <4>3. told[p].rec # 0 /\ ~(p # q)
        BY <2>2, <3>1, <4>1
      <4> QED BY <4>2, <4>3
    <3>2. CASE p # q
      BY <2>1, <3>2
    <3> QED BY <3>1, <3>2
  <2> QED BY <1>16, <2>1, <2>2, <2>3 DEF DoneAt, item
<1> HIDE DEF now, told
<1> QED BY <1>13, <1>14, <1>17 DEF now, it, DoneTaken

LEMMA ItemDoneNew ==
    ASSUME RsTypeOK, StreamInv, Habits = {}, AllSent, NextItem,
           rsScript[rsWire.n].done # "omitted", ~rsWire.open,
           NEW text, text = IF rsScript[rsWire.n].done = "full" THEN Whole ELSE <<>>
    PROVE  DoneTaken(ItemOf(rsWire.n, text))
<1> DEFINE n == rsWire.n
           it == ItemOf(n, text)
           now == Remember(rsState, it, TRUE)
           output == rsState.output
           item == ItemOf(n, Whole)
           s == Len(output) + 1
<1>1. /\ Telling(rsWire, rsState, rsHistory) /\ Producing
      /\ n \in DOMAIN rsScript /\ n \in Nat /\ n <= Len(rsScript)
      /\ MaxPieces \in Nat /\ MaxPieces > 0
      /\ PendingInv(rsState.pending, rsWire) /\ OutputInv(output, rsWire)
  BY AtItem DEF AllSent, Told
<1>2. /\ rsWire'.n = n + 1
      /\ \A i \in DOMAIN rsScript : Entered(i, rsWire') => Entered(i, rsWire) \/ i = n
      /\ Finished(n, rsWire') = TRUE /\ Entered(n, rsWire')
      /\ PieceCount(n, rsWire') = MaxPieces
      /\ rsScript[n].deltas => rsWire.sent \in {MaxPieces, MaxPieces + 1}
      /\ ~rsScript[n].announced
  BY <1>1, NextWire
<1>3. /\ rsState \in ResponseState /\ output \in Seq(OutputState)
      /\ rsState.pending \in Seq(ResponseEvent)
  BY DEF RsTypeOK, ResponseState
<1>4. text \in Seq(Nat) /\ Whole \in Seq(Nat)
  BY WholeType
<1>5. it \in ResponseItem /\ item \in ResponseItem
  BY <1>1, <1>4, ItemOfType DEF RsTypeOK
<1>6. ASSUME NEW p \in 1..Len(output)
      PROVE  /\ IsEntry(output[p]) /\ ~Confused(output[p], n)
             /\ output[p].item.call # n /\ output[p].item.call < n
             /\ EntryInv(output[p], rsWire')
  <2> DEFINE i == output[p].item.call
  <2>1. /\ IsEntry(output[p]) /\ i \in DOMAIN rsScript /\ i \in Nat /\ i <= n /\ i # n
        /\ output[p].done = Finished(i, rsWire) /\ EntryInv(output[p], rsWire)
    BY <1>1, Entries DEF OutputInv
  <2>2. i < n
    BY <1>1, <2>1
  <2>3. rsScript[i].kind = rsScript[n].kind /\ ~rsScript[n].named => rsScript[i].done # "omitted"
    BY <1>1, <2>1, ScriptRules DEF RsTypeOK
  <2>4. ~Confused(output[p], n)
    BY <2>1, <2>2, <2>3 DEF Confused, Finished
  <2>5. EntryInv(output[p], rsWire')
    BY <1>1, <1>2, <2>1, <2>2, EarlierEntry
  <2> QED BY <2>1, <2>2, <2>4, <2>5
<1>7. Place(output, it) = 0
  BY <1>1, <1>3, <1>4, <1>6, PlaceNew DEF RsTypeOK
<1>8. Replay(it, rsState.pending).item = item /\ Replay(it, rsState.pending).left = <<>>
  <2>1. CASE Waiting(n)
    <3>1. rsScript[n].done = "partial" /\ rsScript[n].deltas
      BY <1>1, <2>1, ScriptRules DEF RsTypeOK, Waiting
    <3>2. StreamedBy(rsState.pending, n, rsWire.sent) /\ rsWire.sent \in {MaxPieces, MaxPieces + 1}
      BY <1>1, <1>2, <2>1, <3>1 DEF PendingInv
    <3>3. it = ItemOf(n, <<>>)
      BY <3>1
    <3>4. rsScript \in Scripts
      BY DEF RsTypeOK
    <3> DEFINE m == rsWire.sent
    <3>5. Replay(ItemOf(n, <<>>), rsState.pending) = [item |-> ItemOf(n, Whole), left |-> <<>>]
      <4>1. m \in {MaxPieces, MaxPieces + 1} /\ StreamedBy(rsState.pending, n, m)
        BY <3>2
      <4> HIDE DEF m, n
      <4> QED BY <1>1, <1>3, <3>4, <4>1, ReplayWaiting
    <3> HIDE DEF n
    <3> QED BY <3>3, <3>5
  <2>2. CASE ~Waiting(n)
    <3>1. rsScript[n].done = "full"
      BY <1>1, <1>2, <2>2, ScriptRules DEF RsTypeOK, Waiting
    <3>2. Len(rsState.pending) = 0
      BY <1>1, <2>2 DEF PendingInv, StreamedBy
    <3>3. it = item
      BY <3>1
    <3> QED BY <1>3, <1>5, <3>2, <3>3, ReplayNothing
  <2> QED BY <2>1, <2>2
<1> DEFINE new == [item |-> item, done |-> TRUE, rec |-> 0]
           kept == [item |-> item, done |-> TRUE, rec |-> 1]
           told == Append(output, kept)
<1> HIDE DEF it, item
<1>9. now.output = Append(output, new) /\ now.pending = <<>>
  <2>1. /\ now.output = Append(output, [item |-> Replay(it, rsState.pending).item,
                                        done |-> TRUE, rec |-> 0])
        /\ now.pending = Replay(it, rsState.pending).left
    BY <1>3, <1>5, <1>7, RememberNew
  <2> QED BY <1>8, <2>1
<1>10. Slot(output, it) = s
  BY <1>7 DEF Slot
<1>11. kept \in OutputState /\ kept.item.call = n /\ EntryInv(kept, rsWire')
  <2>1. kept.item = item /\ kept.done = TRUE /\ kept.rec = 1 /\ kept \in OutputState
    BY <1>5 DEF OutputState
  <2> HIDE DEF kept
  <2>2. item.call = n /\ item = ItemOf(n, Pieces(MaxPieces))
    BY <1>1, PiecesFacts, ItemOfFacts DEF item
  <2> HIDE DEF n
  <2>3. kept.item.call = n /\ kept.item = ItemOf(n, Pieces(PieceCount(n, rsWire')))
    BY <1>2, <2>1, <2>2
  <2>4. kept.done = Finished(n, rsWire')
    BY <1>2, <2>1
  <2>5. kept.rec = 0 <=> ~Finished(n, rsWire')
    BY <1>2, <2>1
  <2> QED BY <1>1, <1>2, <2>1, <2>3, <2>4, <2>5 DEF EntryInv
<1>12. OutputInv(told, rsWire')
  <2>1. \A p \in 1..Len(output) :
           EntryInv(output[p], rsWire') /\ output[p].item.call < kept.item.call
    BY <1>6, <1>11
  <2>2. \A i \in DOMAIN rsScript : Entered(i, rsWire') => Entered(i, rsWire) \/ i = kept.item.call
    BY <1>2, <1>11
  <2> HIDE DEF kept, n, output
  <2> QED BY <1>1, <1>3, <1>11, <2>1, <2>2, AppendedOutput
<1>13. DoneAt(now, s, told)
  <2>1. /\ Len(told) = s /\ Len(now.output) = s /\ s \in 1..s
        /\ told[s] = kept /\ now.output[s] = new
        /\ \A p \in 1..Len(output) : told[p] = output[p] /\ now.output[p] = output[p]
        /\ \A p \in 1..s : p # s => p \in 1..Len(output)
    <3> HIDE DEF new, kept, output, now
    <3> QED BY <1>3, <1>9
  <2>2. new.item = item /\ new.rec = 0 /\ kept.item = item /\ kept.rec = 1
          /\ new.done = TRUE /\ kept.done = TRUE
    OBVIOUS
  <2> HIDE DEF told, now, new, kept, output, s
  <2>3. ASSUME NEW p \in 1..Len(told)
        PROVE  /\ told[p].item = now.output[p].item /\ told[p].done = now.output[p].done
               /\ told[p].rec = 0 <=> now.output[p].rec = 0 /\ p # s
    <3>1. CASE p = s
      <4>1. told[p] = kept /\ now.output[p] = new
        BY <2>1, <3>1
      <4>2. told[p].item = now.output[p].item /\ told[p].done = now.output[p].done
        BY <2>2, <4>1
      <4>3. told[p].rec # 0 /\ ~(p # s)
        BY <2>2, <3>1, <4>1
      <4> QED BY <4>2, <4>3
    <3>2. CASE p # s
      BY <2>1, <3>2
    <3> QED BY <3>1, <3>2
  <2> QED BY <1>12, <2>1, <2>2, <2>3 DEF DoneAt, item
<1> HIDE DEF now, told
<1> QED BY <1>9, <1>10, <1>13 DEF now, it, DoneTaken

\* The invariant of the output looks at the items, whether they are done and
\* whether they have a record.
LEMMA SameOutput ==
    ASSUME NEW old, NEW new, NEW wire, OutputInv(old, wire), Len(new) = Len(old),
           \A p \in 1..Len(old) : /\ new[p].item = old[p].item /\ new[p].done = old[p].done
                                  /\ new[p].rec = 0 <=> old[p].rec = 0
    PROVE  OutputInv(new, wire)
<1>1. \A p \in 1..Len(new) : EntryInv(new[p], wire)
  <2> TAKE p \in 1..Len(new)
  <2>1. EntryInv(old[p], wire)
    BY DEF OutputInv
  <2>2. /\ new[p].item = old[p].item /\ new[p].done = old[p].done
        /\ new[p].rec = 0 <=> old[p].rec = 0
    OBVIOUS
  <2> QED BY <2>1, <2>2 DEF EntryInv
<1> QED BY <1>1 DEF OutputInv

\* New records of whole items leave records of whole items.
WholeAt(st, places) ==
    \A p \in places : /\ st.output[p].item.call \in DOMAIN rsScript
                      /\ st.output[p].item = ItemOf(st.output[p].item.call, Whole)

LEMMA HistoryAfter ==
    ASSUME rsHistory \in Seq(ResponseItem), WholeRecords(rsHistory), NEW st, NEW places, NEW acc,
           NEW o, RecordedTo(acc, o, st, places), WholeAt(st, places)
    PROVE  WholeRecords(acc.history)
<1>1. ASSUME NEW h \in 1..Len(acc.history)
      PROVE  /\ acc.history[h].call \in DOMAIN rsScript
             /\ acc.history[h] = ItemOf(acc.history[h].call, Whole)
  <2>1. CASE h <= Len(rsHistory)
    <3>1. h \in 1..Len(rsHistory)
      BY <2>1
    <3>2. acc.history[h] = rsHistory[h]
      BY <3>1 DEF RecordedTo
    <3> QED BY <3>1, <3>2 DEF WholeRecords
  <2>2. CASE ~(h <= Len(rsHistory))
    <3>1. PICK p \in places : acc.history[h] = st.output[p].item
      BY <2>2 DEF RecordedTo
    <3> QED BY <3>1 DEF WholeAt
  <2> QED BY <2>1, <2>2
<1>2. \A g, h \in 1..Len(acc.history) : acc.history[g].call = acc.history[h].call => g = h
  BY DEF RecordedTo
<1> QED BY <1>1, <1>2 DEF WholeRecords

LEMMA ItemDoneStep ==
    ASSUME RsTypeOK, StreamInv, Habits = {}, ItemDone
    PROVE  StreamInv'
<1> DEFINE n == rsWire.n
           text == IF rsScript[n].done = "full" THEN Whole ELSE <<>>
           it == ItemOf(n, text)
           now == Remember(rsState, it, TRUE)
           s == Slot(rsState.output, it)
           places == {s} \intersect Unrecorded(now)
           all == RecordAll(now, {s})
<1>1. /\ AllSent /\ NextItem /\ rsScript[n].done # "omitted" /\ UNCHANGED rsScript
      /\ Consume(now, places)
  BY Zenon DEF ItemDone, Upcoming
<1>2. /\ rsRequest.phase # "done" /\ Telling(rsWire, rsState, rsHistory)
      /\ n \in DOMAIN rsScript /\ n \in Nat /\ rsWire.open \in BOOLEAN
  BY <1>1, AtItem DEF AllSent, Told
<1>3. /\ rsState \in ResponseState /\ rsState.output \in Seq(OutputState)
      /\ rsHistory \in Seq(ResponseItem) /\ rsRequest.result = "none"
  BY <1>2 DEF RsTypeOK, ResponseState, StreamInv, StreamHolds
<1>4. Len(now.pending) = 0 /\ \E told : DoneAt(now, s, told)
  <2> DEFINE t == text
  <2>1. t = IF rsScript[rsWire.n].done = "full" THEN Whole ELSE <<>>
    OBVIOUS
  <2> HIDE DEF t
  <2>2. DoneTaken(ItemOf(rsWire.n, t))
    BY <1>1, <1>2, <2>1, ItemDoneKnown, ItemDoneNew
  <2> QED BY <2>2 DEF DoneTaken, t
<1>5. PICK told : DoneAt(now, s, told)
  BY <1>4
<1>6. it \in ResponseItem
  <2>1. text \in Seq(Nat)
    BY WholeType
  <2> HIDE DEF text
  <2> QED BY <1>2, <2>1, ItemOfType DEF RsTypeOK
<1>7. now \in ResponseState /\ now.completed = FALSE
  <2>1. now \in ResponseState /\ now.completed = rsState.completed
    BY <1>3, <1>6, RememberType
  <2>2. rsState.completed = FALSE
    BY <1>2, <1>3 DEF Telling, ResponseState
  <2> QED BY <2>1, <2>2
<1> HIDE DEF now, s
<1>8. /\ s \in 1..Len(now.output) /\ now.output[s].item = ItemOf(n, Whole)
      /\ now.output[s].rec = 0 /\ now.output[s].item.call = n
  BY <1>5, ItemOfFacts DEF DoneAt
<1>9. now.output \in Seq(OutputState) /\ Len(now.output) \in Nat /\ DOMAIN now.output = 1..Len(now.output)
  BY <1>7 DEF ResponseState
<1>10. Consume(now, {s})
  <2>1. places = {s}
    BY <1>8, <1>9 DEF Unrecorded
  <2> QED BY <1>1, <2>1
<1>11. /\ HistoryInv(rsHistory, rsWire) /\ WholeRecords(rsHistory)
       /\ \A h \in 1..Len(rsHistory) : rsHistory[h].call \in DOMAIN rsScript
            /\ Finished(rsHistory[h].call, rsWire) /\ rsHistory[h].call # n
  <2>1. HistoryInv(rsHistory, rsWire) /\ WholeRecords(rsHistory)
    BY <1>2 DEF Telling, HistoryInv
  <2>2. ~Finished(n, rsWire)
    BY <1>2 DEF Finished
  <2> QED BY <2>1, <2>2 DEF HistoryInv, WholeRecords
<1>12. FreshAt(now, {s})
  BY <1>8, <1>11 DEF FreshAt
<1>13. all \in RecordType(Len(now.output)) /\ RecordedTo(all, Len(now.output), now, {s})
  <2>1. {s} \in SUBSET (1..Len(now.output))
    BY <1>8
  <2>2. \A g, h \in 1..Len(rsHistory) : rsHistory[g].call = rsHistory[h].call => g = h
    BY <1>11 DEF WholeRecords
  <2> QED BY <1>3, <1>7, <1>12, <2>1, <2>2, RecordAllFresh
<1> HIDE DEF all
<1>14. \/ /\ rsRequest'.phase = "done" /\ rsRequest'.result # "ok"
          /\ rsHistory' \in {rsHistory, all.history}
       \/ rsHistory' = all.history /\ rsState' = all.st /\ rsRequest' = rsRequest
  BY <1>7, <1>10, Consumed DEF all
<1>15. /\ \A i \in DOMAIN rsScript :
             Finished(i, rsWire') = (Finished(i, rsWire) \/ (i = n /\ rsScript[i].done # "omitted"))
       /\ WireInv(rsWire')
  BY <1>1, NextWire
<1>16. OutputInv(all.st.output, rsWire')
  <2>1. Len(all.st.output) = Len(now.output)
    BY <1>13 DEF RecordType
  <2>2. OutputInv(told, rsWire') /\ Len(told) = Len(now.output)
    BY <1>5 DEF DoneAt
  <2>3. ASSUME NEW p \in 1..Len(told)
        PROVE  /\ all.st.output[p].item = told[p].item /\ all.st.output[p].done = told[p].done
               /\ all.st.output[p].rec = 0 <=> told[p].rec = 0
    <3>1. /\ all.st.output[p].item = now.output[p].item
          /\ all.st.output[p].done = now.output[p].done
          /\ all.st.output[p].rec = 0 <=> now.output[p].rec = 0 /\ (p \in {s} => p > Len(now.output))
      BY <1>13, <2>2 DEF RecordedTo
    <3>2. /\ told[p].item = now.output[p].item /\ told[p].done = now.output[p].done
          /\ told[p].rec = 0 <=> now.output[p].rec = 0 /\ p # s
      BY <1>5 DEF DoneAt
    <3>3. ~(p > Len(now.output))
      BY <1>9, <2>2
    <3> QED BY <3>1, <3>2, <3>3
  <2> QED BY <2>1, <2>2, <2>3, SameOutput
<1>17. PendingInv(all.st.pending, rsWire')
  <2>1. all.st.pending = now.pending
    BY <1>13 DEF RecordedTo
  <2> QED BY <1>1, <1>4, <2>1, PendingNext
<1>18. HistoryInv(all.history, rsWire')
  <2>1. WholeRecords(all.history)
    <3>1. WholeAt(now, {s})
      BY <1>2, <1>8 DEF WholeAt
    <3> QED BY <1>3, <1>11, <1>13, <3>1, HistoryAfter
  <2>2. ASSUME NEW h \in 1..Len(all.history) PROVE Finished(all.history[h].call, rsWire')
    <3>1. CASE h <= Len(rsHistory)
      <4>1. h \in 1..Len(rsHistory)
        BY <3>1
      <4>2. all.history[h] = rsHistory[h]
        BY <1>13, <4>1 DEF RecordedTo
      <4>3. rsHistory[h].call \in DOMAIN rsScript /\ Finished(rsHistory[h].call, rsWire)
        BY <1>11, <4>1
      <4> QED BY <1>15, <4>2, <4>3
    <3>2. CASE ~(h <= Len(rsHistory))
      <4>1. all.history[h] = now.output[s].item
        BY <1>13, <3>2 DEF RecordedTo
      <4>2. all.history[h].call = n
        BY <1>8, <4>1
      <4> QED BY <1>1, <1>2, <1>15, <4>2
    <3> QED BY <3>1, <3>2
  <2>3. ASSUME NEW i \in DOMAIN rsScript, Finished(i, rsWire')
        PROVE  \E h \in 1..Len(all.history) : all.history[h].call = i
    <3>1. CASE i = n
      <4>1. \E h \in 1..Len(all.history) : all.history[h] = now.output[s].item
        BY <1>8, <1>13 DEF RecordedTo
      <4> QED BY <1>8, <3>1, <4>1
    <3>2. CASE Finished(i, rsWire)
      <4>1. PICK h \in 1..Len(rsHistory) : rsHistory[h].call = i
        BY <1>11, <3>2 DEF HistoryInv
      <4>2. Len(all.history) >= Len(rsHistory) /\ all.history[h] = rsHistory[h]
        BY <1>13, <4>1 DEF RecordedTo
      <4>3. Len(all.history) \in Nat /\ Len(rsHistory) \in Nat
        BY <1>3, <1>13 DEF RecordType
      <4>4. h \in 1..Len(all.history)
        BY <4>1, <4>2, <4>3
      <4> QED BY <4>1, <4>2, <4>4
    <3> QED BY <1>15, <2>3, <3>1, <3>2
  <2> QED BY <2>1, <2>2, <2>3 DEF HistoryInv
<1>19. all.st.completed = FALSE
  BY <1>7, <1>13 DEF RecordedTo
<1>20. Telling(rsWire', all.st, all.history)
  BY <1>15, <1>16, <1>17, <1>18, <1>19 DEF Telling
<1>21. StreamHolds(rsRequest', rsWire', rsState', rsHistory')
  <2>1. WholeRecords(all.history) /\ WholeRecords(rsHistory)
    BY <1>11, <1>18 DEF HistoryInv
  <2> QED BY <1>3, <1>14, <1>20, <2>1 DEF StreamHolds
<1> QED BY <1>1, <1>21, ScriptKept

-----------------------------------------------------------------------------
(* The end of the response.                                                *)

\* The wire is past the last item.
AtEnd ==
    /\ RsTypeOK /\ Telling(rsWire, rsState, rsHistory) /\ Habits = {}
    /\ rsWire.n > Len(rsScript)

LEMMA EndFacts ==
    ASSUME AtEnd
    PROVE  /\ Len(rsScript) \in Nat /\ DOMAIN rsScript = 1..Len(rsScript)
           /\ rsScript \in Scripts
           /\ rsWire.n \in Nat /\ rsWire.n = Len(rsScript) + 1
           /\ rsState \in ResponseState /\ rsState.output \in Seq(OutputState)
           /\ rsState.pending \in Seq(ResponseEvent) /\ rsHistory \in Seq(ResponseItem)
           /\ OutputInv(rsState.output, rsWire) /\ PendingInv(rsState.pending, rsWire)
           /\ HistoryInv(rsHistory, rsWire)
           /\ \A i \in DOMAIN rsScript :
                 /\ i \in Nat /\ i > 0 /\ i < rsWire.n /\ i # rsWire.n
                 /\ Entered(i, rsWire) <=> rsScript[i].announced \/ rsScript[i].done # "omitted"
                 /\ Finished(i, rsWire) <=> rsScript[i].done # "omitted"
<1>1. Len(rsScript) \in 1..MaxRsItems /\ DOMAIN rsScript = 1..Len(rsScript)
  BY ScriptItems DEF RsTypeOK, AtEnd
<1>2. Len(rsScript) \in Nat
  BY <1>1, ResponseStreamAssumption
<1>3. /\ rsWire.n \in Nat /\ rsWire.n > Len(rsScript)
      /\ rsState \in ResponseState /\ rsState.output \in Seq(OutputState)
      /\ rsState.pending \in Seq(ResponseEvent) /\ rsHistory \in Seq(ResponseItem)
      /\ rsScript \in Scripts
  BY DEF AtEnd, RsTypeOK, ResponseState
<1>4. /\ OutputInv(rsState.output, rsWire) /\ PendingInv(rsState.pending, rsWire)
      /\ HistoryInv(rsHistory, rsWire) /\ rsWire.n <= Len(rsScript) + 1
  BY DEF AtEnd, Telling, WireInv
<1>5. rsWire.n = Len(rsScript) + 1
  BY <1>2, <1>3, <1>4
<1>6. ASSUME NEW i \in DOMAIN rsScript
      PROVE  /\ i \in Nat /\ i > 0 /\ i < rsWire.n /\ i # rsWire.n
             /\ Entered(i, rsWire) <=> rsScript[i].announced \/ rsScript[i].done # "omitted"
             /\ Finished(i, rsWire) <=> rsScript[i].done # "omitted"
  <2>1. i \in Nat /\ i > 0 /\ i < rsWire.n /\ i # rsWire.n
    BY <1>1, <1>2, <1>5
  <2> QED BY <2>1 DEF Entered, Finished
<1> QED BY <1>1, <1>2, <1>3, <1>4, <1>5, <1>6

\* An item that is done and has no id stands at its own place.
LEMMA AtItsPlace ==
    ASSUME AtEnd, NEW i \in DOMAIN rsScript, Finished(i, rsWire), ~rsScript[i].named
    PROVE  i \in 1..Len(rsState.output) /\ rsState.output[i].item.call = i
<1> DEFINE output == rsState.output
           T == {j \in 0..i : j = 0 \/ (j \in 1..Len(output) /\ output[j].item.call = j)}
<1>1. /\ i \in Nat /\ i > 0 /\ output \in Seq(OutputState) /\ Len(output) \in Nat
      /\ DOMAIN rsScript = 1..Len(rsScript) /\ Len(rsScript) \in Nat
      /\ rsScript \in Scripts
  BY EndFacts
<1>2. \A p \in 1..Len(output) : output[p].item.call \in Nat /\ output[p].item.call > 0
  BY Entries DEF AtEnd
<1>3. \A p, q \in 1..Len(output) : p < q => output[p].item.call < output[q].item.call
  BY EndFacts DEF OutputInv
<1>4. ASSUME NEW j \in 1..i PROVE \E p \in 1..Len(output) : output[p].item.call = j
  <2>1. j \in DOMAIN rsScript
    BY <1>1
  <2>2. j = i \/ (j \in Nat /\ j < i)
    BY <1>1
  <2>3. rsScript[j].announced \/ rsScript[j].done # "omitted"
    <3>1. rsScript[i].done # "omitted"
      BY DEF Finished
    <3>2. Habits = {}
      BY DEF AtEnd
    <3> QED BY <1>1, <2>1, <2>2, <3>1, <3>2, ScriptRules
  <2>4. Entered(j, rsWire)
    BY <2>1, <2>3, EndFacts
  <2> QED BY <2>1, <2>4, EndFacts DEF OutputInv
<1>5. ASSUME NEW j \in 0..(i - 1), j \in T PROVE j + 1 \in T
  <2>1. j + 1 \in 1..i /\ j \in Nat
    BY <1>1
  <2>2. PICK p \in 1..Len(output) : output[p].item.call = j + 1
    BY <1>4, <2>1
  <2>3. j < p
    <3>1. CASE j = 0
      BY <3>1
    <3>2. CASE j # 0
      <4>1. j \in 1..Len(output) /\ output[j].item.call = j
        BY <1>5, <3>2
      <4>2. p # j
        BY <2>1, <2>2, <4>1
      <4>3. ~(p < j)
        BY <1>2, <1>3, <2>1, <2>2, <4>1
      <4> QED BY <2>1, <4>2, <4>3
    <3> QED BY <3>1, <3>2
  <2>4. ~(j + 1 < p)
    <3> SUFFICES ASSUME j + 1 < p PROVE FALSE
      OBVIOUS
    <3>1. j + 1 \in 1..Len(output) /\ j < j + 1
      BY <1>1, <2>1
    <3>2. output[j + 1].item.call < j + 1 /\ output[j + 1].item.call \in Nat
      BY <1>2, <1>3, <2>2, <3>1
    <3>3. output[j + 1].item.call > j
      <4>1. CASE j = 0
        BY <1>2, <3>1, <4>1
      <4>2. CASE j # 0
        <5>1. j \in 1..Len(output) /\ output[j].item.call = j
          BY <1>5, <4>2
        <5>2. j < output[j + 1].item.call
          BY <1>3, <3>1, <5>1
        <5> QED BY <2>1, <3>2, <5>2
      <4> QED BY <4>1, <4>2
    <3> QED BY <2>1, <3>2, <3>3
  <2>5. p = j + 1
    BY <2>1, <2>3, <2>4
  <2> QED BY <1>1, <2>1, <2>2, <2>5
<1>6. \A j \in 0..i : j \in T
  <2>1. T \in SUBSET (0..i) /\ 0 \in T
    BY <1>1
  <2> HIDE DEF T
  <2> QED BY <1>1, <1>5, <2>1, CountsUp
<1>7. i \in 0..i
  BY <1>1
<1> QED BY <1>1, <1>6, <1>7

\* An entry while the list is gone through: the items of the first k places of
\* the list are done and whole.
ListEntry(entry, k) ==
    LET c == entry.item.call
    IN  /\ c \in DOMAIN rsScript /\ IsEntry(entry)
        /\ Entered(c, rsWire) \/ c <= k
        /\ entry.done <=> Finished(c, rsWire) \/ c <= k
        /\ entry.done => entry.item = ItemOf(c, Whole)
        /\ entry.rec = 0 <=> ~Finished(c, rsWire)

ListInv(st, k) ==
    /\ Len(st.pending) = 0
    /\ \A p \in 1..Len(st.output) : ListEntry(st.output[p], k)
    /\ \A p, q \in 1..Len(st.output) : st.output[p].item.call = st.output[q].item.call => p = q
    /\ \A i \in DOMAIN rsScript :
          Entered(i, rsWire) \/ i <= k => \E p \in 1..Len(st.output) : st.output[p].item.call = i
    /\ Len(st.output) >= Len(rsState.output)
    /\ \A p \in 1..Len(rsState.output) : st.output[p].item.call = rsState.output[p].item.call

LEMMA ListStarts ==
    ASSUME AtEnd, Listable(rsScript)
    PROVE  ListInv(rsState, 0)
<1> DEFINE output == rsState.output
<1>1. /\ rsScript \in Scripts /\ output \in Seq(OutputState) /\ MaxPieces \in Nat
      /\ OutputInv(output, rsWire) /\ PendingInv(rsState.pending, rsWire)
      /\ ~(rsWire.n <= Len(rsScript)) /\ Habits = {}
  BY EndFacts, WholeType DEF AtEnd
<1>2. Len(rsState.pending) = 0
  <2>1. \A i \in DOMAIN rsScript : ~(Waiting(i) /\ rsScript[i].done = "omitted")
    BY <1>1, ScriptRules
  <2> QED BY <1>1, <2>1 DEF PendingInv
<1>3. ASSUME NEW p \in 1..Len(output) PROVE ListEntry(output[p], 0)
  <2> DEFINE entry == output[p]  i == entry.item.call
  <2>1. /\ IsEntry(entry) /\ i \in DOMAIN rsScript /\ i \in Nat /\ i > 0
        /\ Entered(i, rsWire) /\ entry.item = ItemOf(i, Pieces(PieceCount(i, rsWire)))
        /\ entry.done = Finished(i, rsWire) /\ (entry.rec = 0 <=> ~Finished(i, rsWire))
    BY Entries DEF AtEnd
  <2>2. Finished(i, rsWire) => Pieces(PieceCount(i, rsWire)) = Whole
    <3>1. i # rsWire.n
      BY <2>1, EndFacts
    <3> QED BY <1>1, <3>1, PiecesFacts DEF PieceCount
  <2>3. ~(i <= 0)
    BY <2>1
  <2> HIDE DEF entry
  <2>4. entry.done <=> Finished(i, rsWire) \/ i <= 0
    BY <2>1, <2>3
  <2>5. entry.done => entry.item = ItemOf(i, Whole)
    BY <2>1, <2>2
  <2>6. Entered(i, rsWire) \/ i <= 0
    BY <2>1
  <2>7. i \in DOMAIN rsScript /\ IsEntry(entry) /\ (entry.rec = 0 <=> ~Finished(i, rsWire))
    BY <2>1
  <2>8. ListEntry(entry, 0)
    BY <2>4, <2>5, <2>6, <2>7 DEF ListEntry
  <2> QED BY <2>8 DEF entry
<1>4. ASSUME NEW p \in 1..Len(output), NEW q \in 1..Len(output),
             output[p].item.call = output[q].item.call
      PROVE  p = q
  <2>1. output[p].item.call \in Nat
    BY Entries DEF AtEnd
  <2>2. p \in Nat /\ q \in Nat
    BY <1>1
  <2>3. ~(p < q) /\ ~(q < p)
    BY <1>1, <1>4, <2>1 DEF OutputInv
  <2> QED BY <2>2, <2>3
<1>5. \A i \in DOMAIN rsScript : ~(i <= 0)
  BY EndFacts
<1> QED BY <1>1, <1>2, <1>3, <1>4, <1>5 DEF ListInv, OutputInv

\* A listed item is known exactly if it was done before.
LEMMA KnownIfDone ==
    ASSUME AtEnd, NEW st \in ResponseState, NEW k \in DOMAIN rsScript, ListInv(st, k - 1)
    PROVE  Known(st, k, ItemOf(k, Whole)) <=> Finished(k, rsWire)
<1> DEFINE output == st.output
           it == ItemOf(k, Whole)
<1>1. /\ k \in Nat /\ k > 0 /\ output \in Seq(OutputState) /\ Len(output) \in Nat
      /\ DOMAIN output = 1..Len(output) /\ ~(k <= k - 1) /\ k # 0
  BY EndFacts DEF ResponseState
<1>2. \A p \in 1..Len(output) : ListEntry(output[p], k - 1)
  BY DEF ListInv
<1>3. it.kind = rsScript[k].kind /\ it.id = (IF rsScript[k].named THEN k ELSE 0) /\ it.call = k
  BY ItemOfFacts
<1>4. \A p \in 1..Len(output) :
         LET c == output[p].item.call
         IN  output[p].item.id = IF rsScript[c].named THEN c ELSE 0
  <2> TAKE p \in 1..Len(output)
  <2> DEFINE c == output[p].item.call  t == output[p].item.text
  <2>1. output[p].item = ItemOf(c, t)
    BY <1>2 DEF ListEntry, IsEntry
  <2>2. ItemOf(c, t).id = IF rsScript[c].named THEN c ELSE 0
    BY ItemOfFacts
  <2> QED BY <2>1, <2>2
<1>5. ASSUME Known(st, k, it) PROVE Finished(k, rsWire)
  <2>1. \E p \in 1..Len(output) : output[p].done /\ output[p].item.call = k
    <3>1. CASE it.id # 0
      <4>1. PICK p \in 1..Len(output) : output[p].done /\ output[p].item.id = it.id
        BY <1>1, <1>5, <3>1 DEF Known
      <4> QED BY <1>3, <1>4, <3>1, <4>1
    <3>2. CASE it.id = 0
      <4>1. k \in 1..Len(output) /\ output[k].done /\ output[k].item = it
        BY <1>1, <1>5, <3>2 DEF Known
      <4> QED BY <1>3, <4>1
    <3> QED BY <3>1, <3>2
  <2>2. PICK p \in 1..Len(output) : output[p].done /\ output[p].item.call = k
    BY <2>1
  <2> QED BY <1>1, <1>2, <2>2 DEF ListEntry
<1>6. ASSUME Finished(k, rsWire) PROVE Known(st, k, it)
  <2>1. Entered(k, rsWire)
    BY <1>6, EndFacts
  <2>2. PICK p \in 1..Len(output) : output[p].item.call = k
    BY <2>1 DEF ListInv
  <2>3. output[p].done /\ output[p].item = it
    BY <1>2, <1>6, <2>2 DEF ListEntry
  <2>4. CASE rsScript[k].named
    BY <1>1, <1>3, <2>3, <2>4 DEF Known
  <2>5. CASE ~rsScript[k].named
    <3>1. k \in 1..Len(rsState.output) /\ rsState.output[k].item.call = k
      BY <1>6, <2>5, AtItsPlace
    <3>2. k \in 1..Len(output) /\ output[k].item.call = k
      <4>1. Len(output) >= Len(rsState.output) /\ output[k].item.call = rsState.output[k].item.call
        BY <3>1 DEF ListInv
      <4>2. Len(rsState.output) \in Nat
        BY EndFacts
      <4> QED BY <1>1, <3>1, <4>1, <4>2
    <3>3. k = p
      BY <2>2, <3>2 DEF ListInv
    <3> QED BY <1>1, <1>3, <2>3, <2>5, <3>2, <3>3 DEF Known
  <2> QED BY <2>4, <2>5
<1> QED BY <1>5, <1>6

\* An entry keeps what the list says of it, while it goes on to item k.
LEMMA ListEntryKept ==
    ASSUME AtEnd, NEW entry, NEW k \in DOMAIN rsScript, ListEntry(entry, k - 1),
           entry.item.call = k => Finished(k, rsWire)
    PROVE  ListEntry(entry, k)
<1> DEFINE c == entry.item.call
<1>1. c \in Nat /\ k \in Nat
  BY EndFacts DEF ListEntry
<1>2. c <= k <=> c <= k - 1 \/ c = k
  BY <1>1
<1> QED BY <1>2 DEF ListEntry

LEMMA ListStepKept ==
    ASSUME AtEnd, NEW st \in ResponseState, NEW k \in DOMAIN rsScript, ListInv(st, k - 1)
    PROVE  ListInv(ListStep(st, k, ItemOf(k, Whole)), k)
<1> DEFINE output == st.output
           it == ItemOf(k, Whole)
           now == Remember(st, it, TRUE)
<1>1. /\ k \in Nat /\ k > 0 /\ output \in Seq(OutputState) /\ Len(output) \in Nat
      /\ DOMAIN rsScript = 1..Len(rsScript) /\ rsScript \in Scripts /\ Habits = {}
      /\ st.pending \in Seq(ResponseEvent) /\ Len(st.pending) = 0
      /\ Len(rsState.output) \in Nat
  BY EndFacts DEF ResponseState, AtEnd, ListInv
<1>2. \A i \in DOMAIN rsScript : i <= k <=> i <= k - 1 \/ i = k
  BY <1>1
<1>3. \A p \in 1..Len(output) : ListEntry(output[p], k - 1)
  BY DEF ListInv
<1>4. Known(st, k, it) <=> Finished(k, rsWire)
  BY KnownIfDone
<1>5. CASE Finished(k, rsWire)
  <2>1. ListStep(st, k, it) = st
    BY <1>4, <1>5 DEF ListStep
  <2>2. \A p \in 1..Len(output) : ListEntry(output[p], k)
    BY <1>3, <1>5, ListEntryKept
  <2>3. Entered(k, rsWire)
    BY <1>5, EndFacts
  <2> QED BY <1>2, <2>1, <2>2, <2>3 DEF ListInv
<1>6. CASE ~Finished(k, rsWire)
  <2>1. ListStep(st, k, it) = now
    BY <1>4, <1>6 DEF ListStep
  <2>2. it \in ResponseItem /\ Whole \in Seq(Nat) /\ Whole # <<>>
    BY <1>1, ItemOfType, WholeType
  <2>3. ASSUME NEW p \in 1..Len(output)
        PROVE  IsEntry(output[p]) /\ ~Confused(output[p], k)
    <3> DEFINE c == output[p].item.call
    <3>1. c \in DOMAIN rsScript /\ IsEntry(output[p]) /\ (Finished(c, rsWire) => output[p].done)
      BY <1>3 DEF ListEntry
    <3>2. c # k /\ rsScript[c].kind = rsScript[k].kind /\ ~rsScript[k].named =>
            rsScript[c].done # "omitted"
      BY <1>1, <3>1, ScriptRules
    <3>3. rsScript[c].done # "omitted" => output[p].done
      BY <3>1, EndFacts
    <3> QED BY <3>1, <3>2, <3>3 DEF Confused
  <2>4. CASE Entered(k, rsWire)
    <3>1. PICK q \in 1..Len(output) : output[q].item.call = k
      BY <2>4 DEF ListInv
    <3> DEFINE new == [item |-> it, done |-> TRUE, rec |-> output[q].rec]
               out == [output EXCEPT ![q] = new]
    <3>2. /\ ~output[q].done /\ output[q].rec = 0 /\ IsEntry(output[q])
      BY <1>1, <1>3, <1>6, <3>1 DEF ListEntry
    <3>3. \A p \in 1..Len(output) : output[p].item.call = k => p = q
      BY <3>1 DEF ListInv
    <3>4. Place(output, it) = q
      <4>1. OnlyEntry(output, k, q)
        BY <2>3, <3>1, <3>2, <3>3 DEF OnlyEntry
      <4> QED BY <1>1, <2>2, <4>1, PlaceKnown
    <3>5. MergedItem(output[q].item, it) = it
      <4> DEFINE t == output[q].item.text
      <4>1. output[q].item = ItemOf(k, t)
        BY <3>1, <3>2 DEF IsEntry
      <4> HIDE DEF t
      <4> QED BY <2>2, <4>1, MergedFacts
    <3>6. Replay(it, st.pending).item = it /\ Replay(it, st.pending).left = <<>>
      BY <1>1, <2>2, ReplayNothing
    <3>7. it.call = k
      BY ItemOfFacts
    <3> HIDE DEF it
    <3>8. now.output = out /\ now.pending = <<>>
      <4>1. q # 0
        BY <1>1
      <4>2. /\ now.output = [output EXCEPT ![Place(output, it)] =
                    [item |-> Replay(MergedItem(output[Place(output, it)].item, it), st.pending).item,
                     done |-> TRUE, rec |-> output[Place(output, it)].rec]]
            /\ now.pending =
                 Replay(MergedItem(output[Place(output, it)].item, it), st.pending).left
        <5>1. Place(output, it) # 0 /\ ~output[Place(output, it)].done
          BY <3>2, <3>4, <4>1
        <5> QED BY <2>2, <5>1, RememberKnown
      <4> HIDE DEF now, output
      <4> QED BY <3>4, <3>5, <3>6, <4>2
    <3> HIDE DEF now
    <3>9. new.item = it /\ new.done = TRUE /\ new.rec = 0 /\ new.item.call = k
      BY <3>2, <3>7
    <3>10. IsEntry(new)
      <4> HIDE DEF new
      <4>1. new.item = ItemOf(k, Whole) /\ new.item.text = Whole
        BY <3>9, ItemOfFacts DEF it
      <4> QED BY <3>9, <4>1 DEF IsEntry
    <3> HIDE DEF new
    <3>11. ListEntry(new, k)
      <4>1. k <= k
        BY <1>1
      <4>2. new.item = ItemOf(k, Whole)
        BY <3>9 DEF it
      <4> QED BY <1>6, <3>9, <3>10, <4>1, <4>2 DEF ListEntry
    <3>12. Len(out) = Len(output) /\ out[q] = new
             /\ \A p \in 1..Len(output) : p # q => out[p] = output[p]
      <4> HIDE DEF output
      <4> QED BY <1>1
    <3> HIDE DEF out
    <3>13. \A p \in 1..Len(output) : out[p].item.call = output[p].item.call
      BY <3>1, <3>9, <3>12
    <3>14. \A p \in 1..Len(out) : ListEntry(out[p], k)
      <4>1. \A p \in 1..Len(output) : p # q => ListEntry(output[p], k)
        BY <1>3, <3>3, ListEntryKept
      <4> QED BY <3>11, <3>12, <4>1
    <3>15. \A p, r \in 1..Len(out) : out[p].item.call = out[r].item.call => p = r
      BY <3>12, <3>13 DEF ListInv
    <3>16. \A i \in DOMAIN rsScript :
              Entered(i, rsWire) \/ i <= k => \E p \in 1..Len(out) : out[p].item.call = i
      <4>1. \A i \in DOMAIN rsScript :
              Entered(i, rsWire) \/ i <= k - 1 => \E p \in 1..Len(output) : output[p].item.call = i
        BY DEF ListInv
      <4> QED BY <1>2, <2>4, <3>12, <3>13, <4>1
    <3>17. Len(out) >= Len(rsState.output)
             /\ \A p \in 1..Len(rsState.output) : out[p].item.call = rsState.output[p].item.call
      <4>1. Len(output) >= Len(rsState.output)
             /\ \A p \in 1..Len(rsState.output) : output[p].item.call = rsState.output[p].item.call
        BY DEF ListInv
      <4>2. \A p \in 1..Len(rsState.output) : p \in 1..Len(output)
        BY <1>1, <4>1
      <4> QED BY <3>12, <3>13, <4>1, <4>2
    <3>18. Len(now.pending) = 0
      BY <3>8
    <3> QED BY <2>1, <3>8, <3>14, <3>15, <3>16, <3>17, <3>18 DEF ListInv, it
  <2>5. CASE ~Entered(k, rsWire)
    <3> DEFINE new == [item |-> it, done |-> TRUE, rec |-> 0]
               out == Append(output, new)
    <3>1. \A p \in 1..Len(output) : output[p].item.call # k
      <4>1. ~(k <= k - 1)
        BY <1>1
      <4> QED BY <1>3, <2>5, <4>1 DEF ListEntry
    <3>2. Place(output, it) = 0
      BY <1>1, <2>2, <2>3, <3>1, PlaceNew
    <3>3. Replay(it, st.pending).item = it /\ Replay(it, st.pending).left = <<>>
      BY <1>1, <2>2, ReplayNothing
    <3>4. it.call = k
      BY ItemOfFacts
    <3> HIDE DEF it
    <3>5. now.output = out /\ now.pending = <<>>
      BY <2>2, <3>2, <3>3, RememberNew
    <3> HIDE DEF now
    <3>6. new.item = it /\ new.done = TRUE /\ new.rec = 0 /\ new.item.call = k
      BY <3>4
    <3> HIDE DEF new
    <3>7. IsEntry(new)
      <4>1. new.item = ItemOf(k, Whole) /\ new.item.text = Whole
        BY <3>6, ItemOfFacts DEF it
      <4> QED BY <3>6, <4>1 DEF IsEntry
    <3>8. ListEntry(new, k)
      <4>1. k <= k
        BY <1>1
      <4>2. new.item = ItemOf(k, Whole)
        BY <3>6 DEF it
      <4> QED BY <1>6, <3>6, <3>7, <4>1, <4>2 DEF ListEntry
    <3>9. /\ Len(out) = Len(output) + 1 /\ out[Len(output) + 1] = new
          /\ \A p \in 1..Len(output) : out[p] = output[p]
          /\ \A p \in 1..Len(out) : p \in 1..Len(output) \/ p = Len(output) + 1
      <4> HIDE DEF output
      <4> QED BY <1>1
    <3> HIDE DEF out
    <3>10. \A p \in 1..Len(out) : ListEntry(out[p], k)
      <4>1. \A p \in 1..Len(output) : ListEntry(output[p], k)
        BY <1>3, <3>1, ListEntryKept
      <4> QED BY <3>8, <3>9, <4>1
    <3>11. ASSUME NEW p \in 1..Len(out), NEW r \in 1..Len(out),
                  out[p].item.call = out[r].item.call
           PROVE  p = r
      <4>1. CASE p \in 1..Len(output) /\ r \in 1..Len(output)
        BY <3>9, <3>11, <4>1 DEF ListInv
      <4>2. CASE ~(p \in 1..Len(output) /\ r \in 1..Len(output))
        BY <3>1, <3>6, <3>9, <3>11, <4>2
      <4> QED BY <4>1, <4>2
    <3>12. ASSUME NEW i \in DOMAIN rsScript, Entered(i, rsWire) \/ i <= k
           PROVE  \E p \in 1..Len(out) : out[p].item.call = i
      <4>1. CASE i = k
        <5>1. Len(output) + 1 \in 1..Len(out)
          BY <1>1, <3>9
        <5> QED BY <3>6, <3>9, <4>1, <5>1
      <4>2. CASE i # k
        <5>1. PICK p \in 1..Len(output) : output[p].item.call = i
          BY <1>2, <3>12, <4>2 DEF ListInv
        <5>2. p \in 1..Len(out)
          BY <1>1, <3>9
        <5> QED BY <3>9, <5>1, <5>2
      <4> QED BY <4>1, <4>2
    <3>13. Len(out) >= Len(rsState.output)
             /\ \A p \in 1..Len(rsState.output) : out[p].item.call = rsState.output[p].item.call
      <4>1. Len(output) >= Len(rsState.output)
             /\ \A p \in 1..Len(rsState.output) : output[p].item.call = rsState.output[p].item.call
        BY DEF ListInv
      <4>2. \A p \in 1..Len(rsState.output) : p \in 1..Len(output)
        BY <1>1, <4>1
      <4>3. Len(out) >= Len(rsState.output)
        <5>1. Len(output) \in Nat /\ Len(rsState.output) \in Nat
          BY <1>1
        <5> QED BY <3>9, <4>1, <5>1
      <4>4. ASSUME NEW p \in 1..Len(rsState.output)
            PROVE  out[p].item.call = rsState.output[p].item.call
        BY <3>9, <4>1, <4>2
      <4> QED BY <4>3, <4>4
    <3>14. Len(now.pending) = 0
      BY <3>5
    <3> QED BY <2>1, <3>5, <3>10, <3>11, <3>12, <3>13, <3>14 DEF ListInv, it
  <2> QED BY <2>4, <2>5
<1> QED BY <1>5, <1>6

\* The output a response is completed with: every item once and whole, those
\* done before with their records.
FinalOutput(output) ==
    /\ \A p \in 1..Len(output) :
          LET c == output[p].item.call
          IN  /\ c \in DOMAIN rsScript /\ output[p].item = ItemOf(c, Whole)
              /\ output[p].rec = 0 <=> ~Finished(c, rsWire)
    /\ \A p, q \in 1..Len(output) : output[p].item.call = output[q].item.call => p = q
    /\ \A i \in DOMAIN rsScript : \E p \in 1..Len(output) : output[p].item.call = i

LEMMA NothingWaits ==
    ASSUME NEW st \in ResponseState, Len(st.pending) = 0
    PROVE  ToldOf(st) = st
<1>1. ~ \E e \in DOMAIN st.pending : st.pending[e].item.kind = "message"
  <2>1. st.pending \in Seq(ResponseEvent)
    BY DEF ResponseState
  <2>2. DOMAIN st.pending = {}
    BY <2>1
  <2> QED BY <2>2
<1> QED BY <1>1 DEF ToldOf

\* The list tells every item.
LEMMA ListTellsAll ==
    ASSUME AtEnd, Listable(rsScript)
    PROVE  FinalOutput(ToldOf(Listed(rsState, FullList)).output)
<1> DEFINE N == Len(rsScript)
           listed == Listed(rsState, FullList)
<1>1. /\ FullList \in Seq(ResponseItem) /\ Len(FullList) = N /\ N \in Nat
      /\ \A i \in 1..N : FullList[i] = ItemOf(i, Whole)
      /\ DOMAIN rsScript = 1..N /\ rsState \in ResponseState
  BY EndFacts, FullListType
<1> HIDE DEF N
<1>2. PICK after \in [0..N -> ResponseState] :
         /\ after[0] = rsState
         /\ \A i \in 1..N : after[i] = ListStep(after[i - 1], i, ItemOf(i, Whole))
         /\ listed = after[N]
  <2>1. PICK g \in [0..Len(FullList) -> ResponseState] :
           /\ g[0] = rsState
           /\ \A i \in 1..Len(FullList) : g[i] = ListStep(g[i - 1], i, FullList[i])
           /\ listed = g[Len(FullList)]
    BY <1>1, ListLoop
  <2> HIDE DEF listed
  <2> QED BY <1>1, <2>1
<1> HIDE DEF listed
<1> DEFINE T == {k \in 0..N : ListInv(after[k], k)}
<1>3. T \in SUBSET (0..N) /\ 0 \in T
  BY <1>1, <1>2, ListStarts
<1>4. ASSUME NEW k \in 0..(N - 1), k \in T PROVE k + 1 \in T
  <2> DEFINE j == k + 1
  <2>1. j \in 1..N /\ j - 1 = k /\ j \in 0..N /\ k \in 0..N
    BY <1>1
  <2>2. after[k] \in ResponseState /\ ListInv(after[k], j - 1)
    BY <1>2, <1>4, <2>1
  <2>3. after[j] = ListStep(after[k], j, ItemOf(j, Whole))
    BY <1>2, <2>1
  <2> HIDE DEF j
  <2>4. ListInv(after[j], j)
    BY <1>1, <2>1, <2>2, <2>3, ListStepKept
  <2> QED BY <2>1, <2>4 DEF j
<1>5. ListInv(listed, N) /\ listed \in ResponseState
  <2>1. \A k \in 0..N : k \in T
    <3> HIDE DEF T
    <3> QED BY <1>1, <1>3, <1>4, CountsUp
  <2>2. N \in 0..N
    BY <1>1
  <2> QED BY <1>2, <2>1, <2>2
<1>6. ToldOf(listed) = listed
  BY <1>5, NothingWaits DEF ListInv
<1>7. \A i \in DOMAIN rsScript : i <= N
  BY <1>1
<1>8. FinalOutput(listed.output)
  <2> DEFINE output == listed.output
  <2>1. ASSUME NEW p \in 1..Len(output)
        PROVE  /\ output[p].item.call \in DOMAIN rsScript
               /\ output[p].item = ItemOf(output[p].item.call, Whole)
               /\ output[p].rec = 0 <=> ~Finished(output[p].item.call, rsWire)
    <3>1. ListEntry(output[p], N)
      BY <1>5 DEF ListInv
    <3> QED BY <1>7, <3>1 DEF ListEntry
  <2> QED BY <1>5, <1>7, <2>1 DEF FinalOutput, ListInv
<1> QED BY <1>6, <1>8 DEF listed

\* Text that no item was told for is that of the message it is taken for.
LEMMA PiecesTellAll ==
    ASSUME AtEnd, NEW i \in DOMAIN rsScript, Waiting(i), rsScript[i].done = "omitted"
    PROVE  FinalOutput(ToldOf(rsState).output)
<1> DEFINE item == ItemOf(1, Whole)
           new == [item |-> item, done |-> FALSE, rec |-> 0]
<1>1. /\ rsScript \in Scripts /\ rsState \in ResponseState
      /\ rsState.output \in Seq(OutputState) /\ rsState.pending \in Seq(ResponseEvent)
      /\ OutputInv(rsState.output, rsWire) /\ PendingInv(rsState.pending, rsWire)
      /\ ~(rsWire.n <= Len(rsScript)) /\ Habits = {}
      /\ DOMAIN rsScript = 1..Len(rsScript) /\ Len(rsScript) \in Nat
  BY EndFacts DEF AtEnd
<1>2. /\ i = 1 /\ Len(rsScript) = 1 /\ rsScript[1].kind = "message" /\ ~rsScript[1].named
  BY <1>1, ScriptRules
<1>3. DOMAIN rsScript = {1}
  BY <1>1, <1>2
<1>4. ~Entered(1, rsWire) /\ ~Finished(1, rsWire)
  BY <1>2, <1>3, EndFacts DEF Waiting
<1>5. rsState.output = <<>>
  <2>1. ASSUME NEW p \in 1..Len(rsState.output) PROVE FALSE
    <3>1. EntryInv(rsState.output[p], rsWire)
      BY <1>1 DEF OutputInv
    <3>2. rsState.output[p].item.call \in DOMAIN rsScript
            /\ Entered(rsState.output[p].item.call, rsWire)
      BY <3>1 DEF EntryInv
    <3>3. rsState.output[p].item.call = 1
      BY <1>3, <3>2
    <3> QED BY <1>4, <3>2, <3>3
  <2> QED BY <1>1, <2>1
<1>6. PICK m \in {MaxPieces, MaxPieces + 1} : StreamedBy(rsState.pending, 1, m)
  BY <1>1 DEF PendingInv
<1>7. \E e \in DOMAIN rsState.pending : rsState.pending[e].item.kind = "message"
  <2>1. MaxPieces \in Nat /\ MaxPieces > 0
    BY WholeType
  <2>2. Len(rsState.pending) = m /\ 1 \in 1..m /\ 1 <= MaxPieces
    BY <1>6, <2>1 DEF StreamedBy
  <2>3. rsState.pending[1] = Update("delta", 1, <<1>>)
    BY <1>6, <2>2 DEF StreamedBy
  <2>4. Update("delta", 1, <<1>>).item.kind = "message"
    BY <1>2 DEF Update, ItemOf
  <2>5. 1 \in DOMAIN rsState.pending
    BY <1>1, <2>2
  <2> QED BY <2>3, <2>4, <2>5
<1>8. MessageOfPieces = ItemOf(1, <<>>)
  BY <1>2 DEF MessageOfPieces, ItemOf
<1>9. ToldOf(rsState) = Remember(rsState, ItemOf(1, <<>>), FALSE)
  BY <1>5, <1>7, <1>8 DEF ToldOf
<1>10. ItemOf(1, <<>>) \in ResponseItem /\ item \in ResponseItem
  <2>1. <<>> \in Seq(Nat) /\ Whole \in Seq(Nat) /\ 1 \in DOMAIN rsScript
    BY <1>3, WholeType
  <2> QED BY <1>1, <2>1, ItemOfType
<1>11. Place(rsState.output, ItemOf(1, <<>>)) = 0
  <2>1. Place(rsState.output, ItemOf(1, <<>>)) \in 0..Len(rsState.output)
    BY <1>1, <1>10, PlaceFound
  <2> QED BY <1>5, <2>1
<1>12. Replay(ItemOf(1, <<>>), rsState.pending).item = item
  <2>1. 1 \in DOMAIN rsScript
    BY <1>3
  <2>2. Replay(ItemOf(1, <<>>), rsState.pending) = [item |-> ItemOf(1, Whole), left |-> <<>>]
    BY <1>1, <1>6, <2>1, ReplayWaiting
  <2> QED BY <2>2
<1>13. ToldOf(rsState).output = Append(<<>>, new)
  <2>1. ToldOf(rsState).output =
          Append(rsState.output, [item |-> Replay(ItemOf(1, <<>>), rsState.pending).item,
                                  done |-> FALSE, rec |-> 0])
    BY <1>1, <1>9, <1>10, <1>11, RememberNew
  <2> HIDE DEF item
  <2> QED BY <1>5, <1>12, <2>1
<1>14. item.call = 1
  BY ItemOfFacts
<1> HIDE DEF item
<1>15. new.item = item /\ new.rec = 0
  OBVIOUS
<1> HIDE DEF new
<1> DEFINE output == ToldOf(rsState).output
<1>16. Len(output) = 1 /\ output[1] = new /\ \A p \in 1..Len(output) : p = 1
  BY <1>13
<1> HIDE DEF output
<1>17. \A p \in 1..Len(output) : output[p] = new
  BY <1>16
<1>18. ASSUME NEW p \in 1..Len(output)
       PROVE  /\ output[p].item.call \in DOMAIN rsScript
              /\ output[p].item = ItemOf(output[p].item.call, Whole)
              /\ output[p].rec = 0 <=> ~Finished(output[p].item.call, rsWire)
  <2>1. output[p].item.call = 1 /\ output[p].item = ItemOf(1, Whole) /\ output[p].rec = 0
    BY <1>14, <1>15, <1>17 DEF item
  <2> QED BY <1>3, <1>4, <2>1
<1>19. \A j \in DOMAIN rsScript : \E p \in 1..Len(output) : output[p].item.call = j
  BY <1>3, <1>14, <1>15, <1>16
<1>20. FinalOutput(output)
  BY <1>16, <1>18, <1>19 DEF FinalOutput
<1> QED BY <1>20 DEF output

\* A response that is told in full needs no list.
LEMMA ToldInFull ==
    ASSUME AtEnd, SelfContained(rsScript)
    PROVE  FinalOutput(ToldOf(Listed(rsState, <<>>)).output)
<1> DEFINE output == rsState.output
<1>1. Listed(rsState, <<>>) = rsState
  <2>1. rsState \in ResponseState /\ <<>> \in Seq(ResponseItem) /\ Len(<<>>) = 0
    BY EndFacts
  <2>2. PICK after \in [0..Len(<<>>) -> ResponseState] :
           after[0] = rsState /\ Listed(rsState, <<>>) = after[Len(<<>>)]
    BY <2>1, ListLoop
  <2> QED BY <2>1, <2>2
<1>2. CASE \E i \in DOMAIN rsScript : Waiting(i) /\ rsScript[i].done = "omitted"
  BY <1>1, <1>2, PiecesTellAll
<1>3. CASE ~ \E i \in DOMAIN rsScript : Waiting(i) /\ rsScript[i].done = "omitted"
  <2>1. /\ rsScript \in Scripts /\ output \in Seq(OutputState)
        /\ rsState.pending \in Seq(ResponseEvent)
        /\ OutputInv(output, rsWire) /\ PendingInv(rsState.pending, rsWire)
        /\ ~(rsWire.n <= Len(rsScript)) /\ Habits = {} /\ MaxPieces \in Nat
    BY EndFacts, WholeType DEF AtEnd
  <2>2. Len(rsState.pending) = 0
    BY <1>3, <2>1 DEF PendingInv
  <2>3. ToldOf(rsState) = rsState
    BY <2>2, EndFacts, NothingWaits
  <2>4. ASSUME NEW i \in DOMAIN rsScript
        PROVE  Entered(i, rsWire) /\ Pieces(PieceCount(i, rsWire)) = Whole
    <3>1. rsScript[i].done # "omitted" \/ rsScript[i].deltas
      BY <2>1, ScriptRules
    <3>2. rsScript[i].announced \/ rsScript[i].done # "omitted"
      BY <1>3, <3>1 DEF Waiting
    <3>3. Entered(i, rsWire) /\ i # rsWire.n /\ (Finished(i, rsWire) <=> rsScript[i].done # "omitted")
      BY <3>2, EndFacts
    <3>4. PieceCount(i, rsWire) = MaxPieces
      BY <3>1, <3>3 DEF PieceCount
    <3> QED BY <2>1, <3>3, <3>4, PiecesFacts
  <2>5. ASSUME NEW p \in 1..Len(output)
        PROVE  /\ output[p].item.call \in DOMAIN rsScript
               /\ output[p].item = ItemOf(output[p].item.call, Whole)
               /\ output[p].rec = 0 <=> ~Finished(output[p].item.call, rsWire)
    <3>1. EntryInv(output[p], rsWire)
      BY <2>1 DEF OutputInv
    <3> QED BY <2>4, <3>1 DEF EntryInv
  <2>6. ASSUME NEW p \in 1..Len(output), NEW q \in 1..Len(output),
               output[p].item.call = output[q].item.call
        PROVE  p = q
    <3>1. output[p].item.call \in Nat
      BY Entries DEF AtEnd
    <3>2. p \in Nat /\ q \in Nat
      BY <2>1
    <3>3. ~(p < q) /\ ~(q < p)
      BY <2>1, <2>6, <3>1 DEF OutputInv
    <3> QED BY <3>2, <3>3
  <2>7. \A i \in DOMAIN rsScript : \E p \in 1..Len(output) : output[p].item.call = i
    BY <2>1, <2>4 DEF OutputInv
  <2>8. FinalOutput(output)
    BY <2>5, <2>6, <2>7 DEF FinalOutput
  <2> QED BY <1>1, <2>3, <2>8
<1> QED BY <1>2, <1>3

LEMMA ResponseCompletedStep ==
    ASSUME RsTypeOK, StreamInv, Habits = {}, ResponseCompleted
    PROVE  StreamInv'
<1>1. /\ Reads /\ rsWire.n > Len(rsScript) /\ UNCHANGED rsScript
  BY CompletedBy
<1>2. AtEnd
  BY <1>1 DEF AtEnd, Reads, Streaming, StreamInv, StreamHolds
<1>3. PICK list \in Seq(ResponseItem) :
         /\ \/ SelfContained(rsScript) /\ list = <<>>
            \/ Listable(rsScript) /\ list = FullList
         /\ Consume(CompletedWith(rsState, list), Unrecorded(CompletedWith(rsState, list)))
  BY CompletedBy
<1> DEFINE told == ToldOf(Listed(rsState, list))
           st == CompletedWith(rsState, list)
           places == Unrecorded(st)
           all == RecordAll(st, places)
<1>4. FinalOutput(told.output)
  BY <1>2, <1>3, ListTellsAll, ToldInFull
<1>5. /\ rsState \in ResponseState /\ rsHistory \in Seq(ResponseItem) /\ Len(rsHistory) \in Nat
      /\ HistoryInv(rsHistory, rsWire) /\ WholeRecords(rsHistory)
  BY <1>2, EndFacts DEF HistoryInv
<1>6. told \in ResponseState /\ st \in ResponseState /\ st.completed = TRUE
        /\ st.output = AllDone(told.output)
  BY <1>5, ListedType, ToldType, CompletedType
<1> HIDE DEF told, st
<1>7. /\ told.output \in Seq(OutputState) /\ st.output \in Seq(OutputState)
      /\ Len(st.output) \in Nat
  BY <1>6 DEF ResponseState
<1>8. /\ Len(st.output) = Len(told.output)
      /\ \A p \in 1..Len(st.output) : /\ st.output[p].item = told.output[p].item
                                      /\ st.output[p].rec = told.output[p].rec
  <2>1. DOMAIN told.output = 1..Len(told.output) /\ Len(told.output) \in Nat
    BY <1>7
  <2>2. \A p \in 1..Len(told.output) : st.output[p] = [told.output[p] EXCEPT !.done = TRUE]
    BY <1>6, <2>1 DEF AllDone
  <2>3. Len(st.output) = Len(told.output)
    BY <1>6, <1>7, <2>1 DEF AllDone
  <2>4. \A p \in 1..Len(told.output) : told.output[p] \in OutputState
    BY <1>7
  <2>5. ASSUME NEW entry \in OutputState
        PROVE  /\ [entry EXCEPT !.done = TRUE].item = entry.item
               /\ [entry EXCEPT !.done = TRUE].rec = entry.rec
    BY DEF OutputState
  <2> QED BY <2>2, <2>3, <2>4, <2>5
<1>9. FinalOutput(st.output)
  <2>1. \A p \in 1..Len(told.output) : /\ st.output[p].item = told.output[p].item
                                       /\ st.output[p].rec = told.output[p].rec
    BY <1>8
  <2>2. ASSUME NEW p \in 1..Len(st.output)
        PROVE  /\ st.output[p].item.call \in DOMAIN rsScript
               /\ st.output[p].item = ItemOf(st.output[p].item.call, Whole)
               /\ st.output[p].rec = 0 <=> ~Finished(st.output[p].item.call, rsWire)
    <3>1. /\ told.output[p].item.call \in DOMAIN rsScript
          /\ told.output[p].item = ItemOf(told.output[p].item.call, Whole)
          /\ told.output[p].rec = 0 <=> ~Finished(told.output[p].item.call, rsWire)
      BY <1>4, <1>8 DEF FinalOutput
    <3>2. st.output[p].item = told.output[p].item /\ st.output[p].rec = told.output[p].rec
      BY <1>8
    <3> QED BY <3>1, <3>2
  <2>3. ASSUME NEW p \in 1..Len(st.output), NEW q \in 1..Len(st.output),
               st.output[p].item.call = st.output[q].item.call
        PROVE  p = q
    <3>1. told.output[p].item.call = told.output[q].item.call
      BY <1>8, <2>3
    <3> QED BY <1>4, <1>8, <3>1 DEF FinalOutput
  <2>4. ASSUME NEW i \in DOMAIN rsScript
        PROVE  \E p \in 1..Len(st.output) : st.output[p].item.call = i
    <3>1. PICK p \in 1..Len(told.output) : told.output[p].item.call = i
      BY <1>4 DEF FinalOutput
    <3>2. p \in 1..Len(st.output) /\ st.output[p].item = told.output[p].item
      BY <1>8
    <3> QED BY <3>1, <3>2
  <2> QED BY <2>2, <2>3, <2>4 DEF FinalOutput
<1>10. /\ places \in SUBSET (1..Len(st.output))
       /\ \A p \in 1..Len(st.output) : p \in places <=> st.output[p].rec = 0
  BY <1>7 DEF Unrecorded
<1>11. Consume(st, places)
  BY <1>3 DEF st
<1> HIDE DEF places
<1>12. FreshAt(st, places)
  <2>1. ASSUME NEW p \in places, NEW h \in 1..Len(rsHistory)
        PROVE  rsHistory[h].call # st.output[p].item.call
    <3>1. ~Finished(st.output[p].item.call, rsWire)
      BY <1>9, <1>10 DEF FinalOutput
    <3>2. Finished(rsHistory[h].call, rsWire)
      BY <1>5 DEF HistoryInv
    <3> QED BY <3>1, <3>2
  <2>2. \A p, q \in places : st.output[p].item.call = st.output[q].item.call => p = q
    BY <1>9, <1>10 DEF FinalOutput
  <2> QED BY <2>1, <2>2 DEF FreshAt
<1>13. all \in RecordType(Len(st.output)) /\ RecordedTo(all, Len(st.output), st, places)
  <2>1. \A g, h \in 1..Len(rsHistory) : rsHistory[g].call = rsHistory[h].call => g = h
    BY <1>5 DEF WholeRecords
  <2> QED BY <1>5, <1>6, <1>10, <1>12, <2>1, RecordAllFresh
<1> HIDE DEF all
<1>14. \/ /\ rsRequest'.phase = "done" /\ rsRequest'.result # "ok"
          /\ rsHistory' \in {rsHistory, all.history}
       \/ rsHistory' = all.history /\ rsRequest'.phase = "done"
  BY <1>2, <1>6, <1>11, Consumed DEF all, AtEnd
<1>15. AllRecorded(all.history)
  <2>1. WholeAt(st, places)
    BY <1>9, <1>10 DEF WholeAt, FinalOutput
  <2>2. WholeRecords(all.history)
    BY <1>5, <1>13, <2>1, HistoryAfter
  <2>3. ASSUME NEW i \in DOMAIN rsScript
        PROVE  \E h \in 1..Len(all.history) : all.history[h].call = i
    <3>1. PICK p \in 1..Len(st.output) : st.output[p].item.call = i
      BY <1>9 DEF FinalOutput
    <3>2. CASE p \in places
      <4>1. p <= Len(st.output)
        BY <1>7
      <4>2. \E h \in 1..Len(all.history) : all.history[h] = st.output[p].item
        BY <1>13, <3>2, <4>1 DEF RecordedTo
      <4> QED BY <3>1, <4>2
    <3>3. CASE p \notin places
      <4>1. Finished(i, rsWire)
        BY <1>9, <1>10, <3>1, <3>3 DEF FinalOutput
      <4>2. PICK h \in 1..Len(rsHistory) : rsHistory[h].call = i
        BY <1>5, <4>1 DEF HistoryInv
      <4>3. Len(all.history) >= Len(rsHistory) /\ all.history[h] = rsHistory[h]
        BY <1>13 DEF RecordedTo
      <4>4. Len(all.history) \in Nat
        BY <1>13 DEF RecordType
      <4>5. h \in 1..Len(all.history)
        BY <1>5, <4>3, <4>4
      <4> QED BY <4>2, <4>3, <4>5
    <3> QED BY <3>2, <3>3
  <2> QED BY <2>2, <2>3 DEF AllRecorded
<1>16. StreamHolds(rsRequest', rsWire', rsState', rsHistory')
  BY <1>5, <1>14, <1>15 DEF StreamHolds, AllRecorded
<1> QED BY <1>1, <1>16, ScriptKept

\* The steps that tell nothing.
LEMMA RequestSteps ==
    ASSUME RsTypeOK, StreamInv,
           \/ FieldRefused \/ RequestFails \/ RequestAnswered \/ StopRequested
           \/ ResponseFailed \/ StreamEnds \/ Flush \/ UNCHANGED rsVars
    PROVE  StreamInv'
<1>1. /\ UNCHANGED <<rsScript, rsWire, rsHistory>>
      /\ \/ UNCHANGED rsState
         \/ \E error \in UpstreamFailures : rsState' = [rsState EXCEPT !.error = error]
  BY Zenon DEF FieldRefused, RequestFails, RequestAnswered, StopRequested, ResponseFailed,
     StreamEnds, Flush, rsVars
<1>2. rsState \in ResponseState /\ rsRequest \in RequestStates
  BY RsTypes
<1>3. /\ rsState'.output = rsState.output /\ rsState'.pending = rsState.pending
      /\ rsState'.completed = rsState.completed
  BY <1>1, <1>2 DEF ResponseState
<1>4. Telling(rsWire, rsState, rsHistory) => Telling(rsWire', rsState', rsHistory')
  BY <1>1, <1>3 DEF Telling
<1>5. \/ /\ rsRequest'.phase # "done" => rsRequest.phase # "done"
         /\ rsRequest'.result = rsRequest.result
      \/ rsRequest'.phase = "done" /\ rsRequest'.result # "ok"
  <2>1. ASSUME NEW result, result # "ok", NEW audit, RsEnd(result, audit)
        PROVE  rsRequest'.phase = "done" /\ rsRequest'.result # "ok"
    <3>1. rsRequest' = [rsRequest EXCEPT !.phase = "done", !.result = result]
      BY <2>1 DEF RsEnd
    <3> QED BY <1>2, <2>1, <3>1 DEF RequestStates
  <2>2. CASE RequestFails
    <3>1. PICK result \in {"cancelled", "overflow", "transient", "unavailable"} :
             RsEnd(result, rsAudit)
      BY <2>2 DEF RequestFails
    <3> QED BY <2>1, <3>1
  <2>3. CASE StreamEnds
    <3>1. \E result, audit : result # "ok" /\ RsEnd(result, audit)
      <4>1. PICK error : LET api == ApiErrorOf(error)
                         IN  RsEnd(IF api = "overflow" /\ HasCall THEN "transient" ELSE api,
                                   SavedAudit([rsState EXCEPT !.error = error]))
        BY <2>3 DEF StreamEnds
      <4> DEFINE api == ApiErrorOf(error)
                 result == IF api = "overflow" /\ HasCall THEN "transient" ELSE api
      <4>2. api # "ok"
        BY DEF ApiErrorOf
      <4>3. result # "ok"
        BY <4>2
      <4> QED BY Zenon, <4>1, <4>3
    <3> QED BY <2>1, <3>1
  <2>4. CASE FieldRefused
    BY <1>2, <2>4 DEF FieldRefused, RequestStates
  <2>5. CASE RequestAnswered
    BY <1>2, <2>5 DEF RequestAnswered, RequestStates
  <2>6. CASE StopRequested
    BY <1>2, <2>6 DEF StopRequested, RequestStates
  <2>7. CASE UNCHANGED rsRequest
    BY <2>7
  <2> QED BY <2>2, <2>3, <2>4, <2>5, <2>6, <2>7 DEF ResponseFailed, Flush, rsVars
<1>6. StreamHolds(rsRequest', rsWire', rsState', rsHistory')
  BY <1>1, <1>4, <1>5 DEF StreamInv, StreamHolds
<1> QED BY <1>1, <1>6, ScriptKept

LEMMA StreamStarts ==
    ASSUME RsTypeOK, RsInit
    PROVE  StreamInv
<1>1. /\ rsWire.n = 1 /\ rsWire.open = FALSE /\ rsWire.sent = 0
      /\ rsState.output = <<>> /\ rsState.pending = <<>> /\ rsState.completed = FALSE
      /\ rsHistory = <<>> /\ rsRequest.phase = "send" /\ rsRequest.result = "none"
  BY DEF RsInit, NoState
<1>2. /\ Len(rsScript) \in Nat /\ Len(rsScript) >= 1
      /\ \A i \in DOMAIN rsScript : i \in Nat /\ i >= 1 /\ ~(i < 1)
  BY ScriptItems, ResponseStreamAssumption DEF RsTypeOK
<1>3. \A i \in DOMAIN rsScript : ~Entered(i, rsWire) /\ ~Finished(i, rsWire)
  BY <1>1, <1>2 DEF Entered, Finished
<1>4. WireInv(rsWire)
  BY <1>1, <1>2 DEF WireInv
<1>5. OutputInv(rsState.output, rsWire)
  BY <1>1, <1>3 DEF OutputInv
<1>6. PendingInv(rsState.pending, rsWire)
  BY <1>1, <1>2 DEF PendingInv, StreamedBy
<1>7. HistoryInv(rsHistory, rsWire)
  BY <1>1, <1>3 DEF HistoryInv, WholeRecords
<1> QED BY <1>1, <1>4, <1>5, <1>6, <1>7 DEF StreamInv, StreamHolds, Telling, HistoryInv

LEMMA StreamStep ==
    ASSUME RsTypeOK, StreamInv, Habits = {}, [RsNext]_rsVars
    PROVE  StreamInv'
<1>1. \/ FieldRefused \/ RequestFails \/ RequestAnswered \/ StopRequested
      \/ ResponseFailed \/ StreamEnds \/ Flush \/ UNCHANGED rsVars
      \/ ItemAdded \/ TextDelta \/ TextDone \/ ItemDone \/ ItemLeftOpen \/ ResponseCompleted
  BY Zenon DEF RsNext
<1> QED BY Zenon, <1>1, RequestSteps, ItemAddedStep, TextDeltaStep, TextDoneStep, ItemDoneStep,
           ItemLeftOpenStep, ResponseCompletedStep

\* Records of one call each, and one for each item, are as many as the items.
LEMMA AllRecordedCount ==
    ASSUME RsTypeOK, AllRecorded(rsHistory)
    PROVE  Len(rsHistory) = Len(rsScript)
<1> DEFINE H == Len(rsHistory)  N == Len(rsScript)
           call == [h \in 1..H |-> rsHistory[h].call]
<1>1. H \in Nat /\ N \in Nat /\ DOMAIN rsScript = 1..N
  <2>1. N \in 1..MaxRsItems /\ DOMAIN rsScript = 1..N
    BY ScriptItems DEF RsTypeOK
  <2> QED BY <2>1, ResponseStreamAssumption DEF RsTypeOK
<1>2. call \in [1..H -> 1..N]
  BY <1>1 DEF AllRecorded, WholeRecords
<1>3. \A g, h \in 1..H : call[g] = call[h] => g = h
  BY DEF AllRecorded, WholeRecords
<1>4. \A i \in 1..N : \E h \in 1..H : call[h] = i
  BY <1>1 DEF AllRecorded
<1> HIDE DEF H, N, call
<1>5. call \in Injection(1..H, 1..N) /\ call \in Surjection(1..H, 1..N)
  BY <1>2, <1>3, <1>4 DEF Injection, Surjection, IsInjective
<1>6. /\ IsFiniteSet(1..H) /\ Cardinality(1..H) = H
      /\ IsFiniteSet(1..N) /\ Cardinality(1..N) = N
  <2>1. \A m \in Nat : IsFiniteSet(1..m) /\ Cardinality(1..m) = m
    <3> TAKE m \in Nat
    <3>1. IsFiniteSet(1..m) /\ Cardinality(1..m) = IF 1 > m THEN 0 ELSE m - 1 + 1
      BY FS_Interval
    <3> QED BY <3>1
  <2> QED BY <1>1, <2>1
<1>7. Cardinality(1..H) = Cardinality(1..N)
  BY <1>5, <1>6, FS_Injection
<1> QED BY <1>6, <1>7 DEF H, N

LEMMA StreamTells ==
    ASSUME RsTypeOK, StreamInv
    PROVE  RecordsTellTheResponse
<1> SUFFICES ASSUME rsRequest.result = "ok" PROVE RecordsTellTheResponse
  BY DEF RecordsTellTheResponse
<1>1. AllRecorded(rsHistory)
  BY DEF StreamInv, StreamHolds
<1>2. Len(rsHistory) = Len(rsScript)
  BY <1>1, AllRecordedCount
<1>3. ASSUME NEW n \in DOMAIN rsScript
      PROVE  \E h \in DOMAIN rsHistory : rsHistory[h].call = n /\ rsHistory[h].text = Whole
  <2>1. PICK h \in 1..Len(rsHistory) : rsHistory[h].call = n
    BY <1>1 DEF AllRecorded
  <2>2. rsHistory[h] = ItemOf(n, Whole)
    BY <1>1, <2>1 DEF AllRecorded, WholeRecords
  <2>3. h \in DOMAIN rsHistory
    BY <2>1 DEF RsTypeOK
  <2>4. rsHistory[h].text = Whole
    BY <2>2, ItemOfFacts
  <2> QED BY <2>1, <2>3, <2>4
<1> QED BY <1>2, <1>3 DEF RecordsTellTheResponse

\* A completed response of a provider without the habits leaves every item of
\* it in the history once and whole, whichever way each of them is told.
THEOREM ResponsesAreTold ==
    (RsSpec /\ Habits = {}) => []RecordsTellTheResponse
<1> SUFFICES ASSUME Habits = {} PROVE RsSpec => []RecordsTellTheResponse
  OBVIOUS
<1>1. RsInit => RsTypeOK /\ StreamInv
  BY ResponseTypesInit, StreamStarts
<1>2. RsTypeOK /\ StreamInv /\ [RsNext]_rsVars => (RsTypeOK /\ StreamInv)'
  BY ResponseTypesStep, StreamStep
<1>3. RsTypeOK /\ StreamInv => RecordsTellTheResponse
  BY StreamTells
<1> QED BY <1>1, <1>2, <1>3, PTL DEF RsSpec

\* Whatever becomes of the request (answered, refused, cancelled, failed in the
\* middle), its records are of whole items, one of each at most.
THEOREM RecordsAreWhole ==
    (RsSpec /\ Habits = {}) => []WholeRecords(rsHistory)
<1> SUFFICES ASSUME Habits = {} PROVE RsSpec => []WholeRecords(rsHistory)
  OBVIOUS
<1>1. RsInit => RsTypeOK /\ StreamInv
  BY ResponseTypesInit, StreamStarts
<1>2. RsTypeOK /\ StreamInv /\ [RsNext]_rsVars => (RsTypeOK /\ StreamInv)'
  BY ResponseTypesStep, StreamStep
<1>3. RsTypeOK /\ StreamInv => WholeRecords(rsHistory)
  BY DEF StreamInv, StreamHolds
<1> QED BY <1>1, <1>2, <1>3, PTL DEF RsSpec

=============================================================================
