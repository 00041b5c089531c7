--------------------------- MODULE WorkersProofs ---------------------------
(***************************************************************************)
(* Theorems about WorkerUpgrade, for any number of calls, upgrades, events *)
(* in flight and faults; and about SharedCalls, for any number of calls,   *)
(* grant changes, inputs and faults.                                       *)
(***************************************************************************)
EXTENDS WorkerUpgrade, SharedCalls, TLAPS

-----------------------------------------------------------------------------
(* What a running upgrade relies on.                                       *)

UpRow == [boot : Nat, version : Nat, id : Nat,
          status : {"none", "completed", "failed"} \cup Upgrading]
UpDev == [proc : Nat, version : Nat, running : SUBSET UpCalls,
          phase : {"serving", "preparing", "installing"}, tried : SUBSET Nat]
Report == [boot : Nat, id : Nat, status : {"none", "installing", "failed"}]
Frame == [upgrade : Nat] \cup [call : UpCalls]
CallStates == {"none", "queued", "delivered", "settled", "lost"}

\* The types the argument needs; MaxUpgrades and MaxUpFaults do not matter.
UpForms ==
    /\ upWorker \in UpRow
    /\ upCall \in [UpCalls -> CallStates]
    /\ upStream \in [boot : Nat, frames : Seq(Frame)]
    /\ upDevice \in UpDev
    /\ upPost \in Report /\ upLate \subseteq Report

\* The stream is that of the registered process, which is the one on the device;
\* the row may still be that of an earlier one.
StreamInv ==
    /\ upWorker.boot <= upDevice.proc
    /\ upDevice.proc # 0
    /\ upStream.boot # 0 => upStream.boot = upDevice.proc /\ upStream.boot = upWorker.boot
    /\ upStream.boot = 0 => upStream.frames = <<>>

\* What register left of a process that is the recommended release already.
VersionInv ==
    /\ upWorker.boot = upDevice.proc =>
          /\ upWorker.version = upDevice.version
          /\ upWorker.version = Target => upWorker.status \in {"none", "completed"}
    /\ upWorker.id = 0 => upWorker.status = "none"

\* An event the device will act on is that of the running upgrade, and the Worker
\* was drained when it was sent: nothing was claimed since.
InStream(frame, frames) == \E i \in DOMAIN frames : frames[i] = frame
EventInv ==
    \A id \in Nat :
        InStream([upgrade |-> id], upStream.frames) /\ id \notin upDevice.tried =>
            id = upWorker.id /\ UpActive /\ UpDelivered = {}

\* Attempts of this process are at upgrades that were requested.
TriedInv == \A id \in upDevice.tried : upWorker.boot = upDevice.proc /\ id <= upWorker.id

\* The reports that may still arrive.
UpPosts == upLate \cup {upPost}

\* What is posted was attempted: of the upgrade at work nothing but that it began.
PostInv(post) ==
    post # NoPost =>
        /\ post.boot <= upDevice.proc
        /\ post.boot = upDevice.proc =>
              /\ post.id \in upDevice.tried
              /\ upDevice.phase # "serving" /\ post.id = upWorker.id =>
                    post.status = "installing" /\ upDevice.phase = "installing"

\* The upgrade at work is the one of the row, and it keeps calls away.
WorkInv ==
    upDevice.phase # "serving" =>
        /\ upWorker.boot = upDevice.proc
        /\ upWorker.id \in upDevice.tried
        /\ UpActive
        /\ UpDelivered = {}

UpgradeInv ==
    /\ UpForms
    /\ StreamInv
    /\ VersionInv
    /\ EventInv
    /\ TriedInv
    /\ \A post \in UpPosts : PostInv(post)
    /\ WorkInv

-----------------------------------------------------------------------------
(* Records and the stream, field by field.                                 *)

LEMMA Frames ==
  ASSUME NEW S, NEW q \in Seq(S), NEW f
  PROVE  /\ \A x \in S : /\ Append(q, x) \in Seq(S)
                         /\ InStream(f, Append(q, x)) => f = x \/ InStream(f, q)
         /\ q # <<>> => /\ Tail(q) \in Seq(S) /\ Head(q) \in S
                        /\ InStream(Head(q), q)
                        /\ InStream(f, Tail(q)) => InStream(f, q)
         /\ <<>> \in Seq(S) /\ ~InStream(f, <<>>)
  <1>1. ASSUME NEW x \in S, InStream(f, Append(q, x)) PROVE f = x \/ InStream(f, q)
    <2>1. PICK i \in DOMAIN Append(q, x) : Append(q, x)[i] = f
      BY <1>1 DEF InStream
    <2>2. i \in 1..(Len(q) + 1)
      OBVIOUS
    <2>3. CASE i = Len(q) + 1
      BY <2>1, <2>3
    <2>4. CASE i \in 1..Len(q)
      BY <2>1, <2>4 DEF InStream
    <2> QED BY <2>2, <2>3, <2>4
  <1>2. ASSUME q # <<>> PROVE Tail(q) \in Seq(S) /\ Head(q) \in S
    BY <1>2
  <1>3. ASSUME q # <<>> PROVE InStream(Head(q), q)
    <2>1. 1 \in DOMAIN q /\ q[1] = Head(q)
      BY <1>3
    <2> QED BY <2>1 DEF InStream
  <1>4. ASSUME q # <<>>, InStream(f, Tail(q)) PROVE InStream(f, q)
    <2>1. PICK i \in DOMAIN Tail(q) : Tail(q)[i] = f
      BY <1>4 DEF InStream
    <2>2. i + 1 \in DOMAIN q /\ q[i + 1] = f
      BY <1>4, <2>1
    <2> QED BY <2>2 DEF InStream
  <1>5. <<>> \in Seq(S) /\ ~InStream(f, <<>>)
    BY DEF InStream
  <1>6. \A x \in S : Append(q, x) \in Seq(S)
    OBVIOUS
  <1> QED BY <1>1, <1>2, <1>3, <1>4, <1>5, <1>6

LEMMA FrameKinds ==
  /\ \A id \in Nat : [upgrade |-> id] \in Frame
  /\ \A c \in UpCalls : [call |-> c] \in Frame
  /\ \A c, id : [call |-> c] # [upgrade |-> id]
  /\ \A f \in Frame : \/ \E id \in Nat : f = [upgrade |-> id]
                      \/ \E c \in UpCalls : f = [call |-> c]
  /\ \A id : DOMAIN [upgrade |-> id] = {"upgrade"} /\ [upgrade |-> id].upgrade = id
  /\ \A c : DOMAIN [call |-> c] = {"call"} /\ [call |-> c].call = c
  <1>1. \A c, id : [call |-> c] # [upgrade |-> id]
    <2> SUFFICES ASSUME NEW c, NEW id, [call |-> c] = [upgrade |-> id] PROVE FALSE
      OBVIOUS
    <2>1. DOMAIN [call |-> c] = {"call"} /\ DOMAIN [upgrade |-> id] = {"upgrade"}
      OBVIOUS
    <2> QED BY <2>1
  <1>2. ASSUME NEW f \in [upgrade : Nat] PROVE \E id \in Nat : f = [upgrade |-> id]
    <2>1. f.upgrade \in Nat /\ f = [upgrade |-> f.upgrade]
      OBVIOUS
    <2> QED BY <2>1
  <1>3. ASSUME NEW f \in [call : UpCalls] PROVE \E c \in UpCalls : f = [call |-> c]
    <2>1. f.call \in UpCalls /\ f = [call |-> f.call]
      OBVIOUS
    <2> QED BY <2>1
  <1>4. \A f \in Frame : \/ \E id \in Nat : f = [upgrade |-> id]
                         \/ \E c \in UpCalls : f = [call |-> c]
    BY <1>2, <1>3 DEF Frame
  <1>5. /\ \A id \in Nat : [upgrade |-> id] \in Frame
        /\ \A c \in UpCalls : [call |-> c] \in Frame
    BY DEF Frame
  <1>6. /\ \A id : DOMAIN [upgrade |-> id] = {"upgrade"} /\ [upgrade |-> id].upgrade = id
        /\ \A c : DOMAIN [call |-> c] = {"call"} /\ [call |-> c].call = c
    OBVIOUS
  <1> QED BY <1>1, <1>4, <1>5, <1>6

LEMMA UpRows ==
  ASSUME NEW r \in UpRow
  PROVE  /\ r.boot \in Nat /\ r.version \in Nat /\ r.id \in Nat
         /\ r.status \in {"none", "completed", "failed"} \cup Upgrading
         /\ \A s \in {"none", "completed", "failed"} \cup Upgrading :
               LET q == [r EXCEPT !.status = s]
               IN  q \in UpRow /\ q.boot = r.boot /\ q.version = r.version
                     /\ q.id = r.id /\ q.status = s
         /\ \A b \in Nat :
               LET q == [r EXCEPT !.boot = b]
               IN  q \in UpRow /\ q.boot = b /\ q.version = r.version
                     /\ q.id = r.id /\ q.status = r.status
         /\ \A b \in Nat :
               LET q == [r EXCEPT !.version = b]
               IN  q \in UpRow /\ q.boot = r.boot /\ q.version = b
                     /\ q.id = r.id /\ q.status = r.status
         /\ \A b \in Nat :
               LET q == [r EXCEPT !.id = b]
               IN  q \in UpRow /\ q.boot = r.boot /\ q.version = r.version
                     /\ q.id = b /\ q.status = r.status
  BY DEF UpRow, Upgrading

LEMMA UpDevices ==
  ASSUME NEW d \in UpDev
  PROVE  /\ d.proc \in Nat /\ d.version \in Nat /\ d.tried \subseteq Nat
         /\ d.phase \in {"serving", "preparing", "installing"}
         /\ \A p \in {"serving", "preparing", "installing"} :
               LET e == [d EXCEPT !.phase = p]
               IN  e \in UpDev /\ e.proc = d.proc /\ e.version = d.version
                     /\ e.tried = d.tried /\ e.phase = p
         /\ \A t \in SUBSET Nat :
               LET e == [d EXCEPT !.tried = t]
               IN  e \in UpDev /\ e.proc = d.proc /\ e.version = d.version
                     /\ e.tried = t /\ e.phase = d.phase
         /\ \A t \in SUBSET UpCalls :
               LET e == [d EXCEPT !.running = t]
               IN  e \in UpDev /\ e.proc = d.proc /\ e.version = d.version
                     /\ e.tried = d.tried /\ e.phase = d.phase
         /\ d.running \subseteq UpCalls
  BY DEF UpDev

LEMMA Streams ==
  ASSUME NEW s \in [boot : Nat, frames : Seq(Frame)]
  PROVE  /\ s.boot \in Nat /\ s.frames \in Seq(Frame)
         /\ \A q \in Seq(Frame) :
               LET t == [s EXCEPT !.frames = q]
               IN  t \in [boot : Nat, frames : Seq(Frame)] /\ t.boot = s.boot /\ t.frames = q
         /\ \A b \in Nat :
               LET t == [boot |-> b, frames |-> <<>>]
               IN  t \in [boot : Nat, frames : Seq(Frame)] /\ t.boot = b /\ t.frames = <<>>
  OBVIOUS

-----------------------------------------------------------------------------
(* The invariant.                                                          *)

LEMMA UpInitInv == UpInit => UpgradeInv
  <1> SUFFICES ASSUME UpInit PROVE UpgradeInv
    OBVIOUS
  <1>1. UpForms
    BY DEF UpInit, UpForms, UpRow, UpDev, Report, Upgrading, CallStates, NoPost
  <1>2. StreamInv /\ VersionInv /\ TriedInv /\ WorkInv
    BY DEF UpInit, StreamInv, VersionInv, TriedInv, WorkInv, Target
  <1>3. EventInv
    BY DEF UpInit, EventInv, InStream
  <1>4. \A post \in UpPosts : PostInv(post)
    BY DEF UpInit, UpPosts, PostInv
  <1> QED BY <1>1, <1>2, <1>3, <1>4 DEF UpgradeInv

\* The claims about the fields that the steps below keep.
UpClaims == /\ StreamInv /\ VersionInv /\ EventInv /\ TriedInv /\ WorkInv
            /\ \A post \in UpPosts : PostInv(post)

\* Many steps leave the row and the device's part in the upgrade alone: they
\* settle calls, answer or lose reports, and take from the stream or close it.
Calm ==
    /\ upWorker' = upWorker
    /\ upDevice'.proc = upDevice.proc /\ upDevice'.version = upDevice.version
    /\ upDevice'.tried = upDevice.tried /\ upDevice'.phase = upDevice.phase
    /\ UpPosts' \subseteq UpPosts \cup {NoPost}
    /\ UpDelivered' \subseteq UpDelivered
    /\ upStream'.boot \in {0, upStream.boot}
    /\ upStream'.boot = 0 => upStream'.frames = <<>>
    /\ \A id \in Nat : InStream([upgrade |-> id], upStream'.frames)
                          => InStream([upgrade |-> id], upStream.frames)

LEMMA CalmStep == ASSUME UpForms, UpClaims, Calm PROVE UpClaims'
  <1>1. StreamInv'
    BY DEF UpClaims, Calm, StreamInv
  <1>2. VersionInv'
    BY DEF UpClaims, Calm, VersionInv
  <1>3. UpActive' = UpActive
    BY DEF Calm, UpActive
  <1>4. UpDelivered = {} => UpDelivered' = {}
    BY DEF Calm
  <1>5. EventInv'
    BY <1>3, <1>4 DEF UpClaims, Calm, EventInv
  <1>6. TriedInv' /\ WorkInv'
    BY <1>3, <1>4 DEF UpClaims, Calm, TriedInv, WorkInv
  <1>7. ASSUME NEW post \in UpPosts' PROVE PostInv(post)'
    BY <1>7 DEF UpClaims, Calm, PostInv
  <1> QED BY <1>1, <1>2, <1>5, <1>6, <1>7 DEF UpClaims

-----------------------------------------------------------------------------
(* The steps.                                                              *)

\* What every step lemma starts from.
LEMMA Known ==
  ASSUME UpForms
  PROVE  /\ upWorker \in UpRow /\ upDevice \in UpDev
         /\ upStream \in [boot : Nat, frames : Seq(Frame)]
         /\ upStream.frames \in Seq(Frame) /\ upStream.boot \in Nat
         /\ upDevice.proc \in Nat /\ upWorker.id \in Nat /\ upDevice.tried \subseteq Nat
         /\ upDevice.phase \in {"serving", "preparing", "installing"}
         /\ upCall \in [UpCalls -> CallStates] /\ upDevice.running \subseteq UpCalls
  BY Streams, UpDevices, UpRows DEF UpForms

LEMMA Deliveries ==
  ASSUME UpForms, NEW c \in UpCalls, NEW s \in CallStates,
         upCall' = [upCall EXCEPT ![c] = s]
  PROVE  /\ upCall' \in [UpCalls -> CallStates]
         /\ s # "delivered" \/ upCall[c] = "delivered" => UpDelivered' \subseteq UpDelivered
  BY DEF UpForms, UpDelivered

\* An event appended to the stream, when there is one.
LEMMA Emitted ==
  ASSUME UpForms, Serving, NEW f \in Frame, UpEmit(f)
  PROVE  /\ upStream' \in [boot : Nat, frames : Seq(Frame)]
         /\ upStream'.boot = upStream.boot /\ upStream'.boot # 0
         /\ \A id : InStream([upgrade |-> id], upStream'.frames)
                       => \/ f = [upgrade |-> id]
                          \/ InStream([upgrade |-> id], upStream.frames)
  <1>1. upStream' = [upStream EXCEPT !.frames = Append(upStream.frames, f)]
    BY DEF UpEmit
  <1>2. Append(upStream.frames, f) \in Seq(Frame)
    BY Known, Frames
  <1>3. /\ upStream' \in [boot : Nat, frames : Seq(Frame)]
        /\ upStream'.boot = upStream.boot
        /\ upStream'.frames = Append(upStream.frames, f)
    BY <1>1, <1>2, Known, Streams, Zenon
  <1>4. upStream.boot # 0
    BY DEF Serving
  <1> QED BY <1>3, <1>4, Known, Frames

\* Calls and diagnostics that are queued, answered or forgotten.
LEMMA QuietStep ==
  ASSUME UpForms, UpClaims,
         \/ \E c \in UpCalls : UpQueueCall(c) \/ UpFinish(c)
         \/ StartCheck \/ CheckAges \/ FinishCheck \/ ClaimCheck \/ UNCHANGED upVars
  PROVE  UpForms' /\ UpClaims'
  <1>1. UNCHANGED <<upWorker, upStream, upPost, upLate>>
    BY DEF UpQueueCall, UpFinish, StartCheck, CheckAges, FinishCheck, ClaimCheck, upVars
  <1>2. /\ upDevice' \in UpDev
        /\ upDevice'.proc = upDevice.proc /\ upDevice'.version = upDevice.version
        /\ upDevice'.tried = upDevice.tried /\ upDevice'.phase = upDevice.phase
    <2>1. CASE UNCHANGED upDevice
      BY <2>1, Known
    <2>2. ASSUME NEW c \in UpCalls,
                 upDevice' = [upDevice EXCEPT !.running = upDevice.running \ {c}]
          PROVE  /\ upDevice' \in UpDev
                 /\ upDevice'.proc = upDevice.proc /\ upDevice'.version = upDevice.version
                 /\ upDevice'.tried = upDevice.tried /\ upDevice'.phase = upDevice.phase
      <3> DEFINE t == upDevice.running \ {c}
      <3>1. t \in SUBSET UpCalls /\ upDevice \in UpDev
        BY Known
      <3>2. upDevice' = [upDevice EXCEPT !.running = t]
        BY <2>2
      <3> HIDE DEF t
      <3> QED BY <3>1, <3>2 DEF UpDev
    <2>3. \/ UNCHANGED upDevice
          \/ \E c \in UpCalls :
                upDevice' = [upDevice EXCEPT !.running = upDevice.running \ {c}]
      BY Zenon DEF UpQueueCall, UpFinish, StartCheck, CheckAges, FinishCheck, ClaimCheck, upVars
    <2> QED BY <2>1, <2>2, <2>3
  <1>3. upCall' \in [UpCalls -> CallStates] /\ UpDelivered' \subseteq UpDelivered
    <2>1. CASE UNCHANGED upCall
      BY <2>1, Known DEF UpDelivered
    <2>2. ASSUME NEW c \in UpCalls, UpQueueCall(c)
          PROVE  upCall' \in [UpCalls -> CallStates] /\ UpDelivered' \subseteq UpDelivered
      BY <2>2, Deliveries DEF UpQueueCall, CallStates
    <2>3. ASSUME NEW c \in UpCalls, UpFinish(c)
          PROVE  upCall' \in [UpCalls -> CallStates] /\ UpDelivered' \subseteq UpDelivered
      <3> DEFINE s == IF upCall[c] = "delivered" THEN "settled" ELSE upCall[c]
      <3>1. upCall' = [upCall EXCEPT ![c] = s]
        BY <2>3 DEF UpFinish
      <3>2. s \in CallStates /\ (s # "delivered" \/ upCall[c] = "delivered")
        BY Known DEF CallStates
      <3> HIDE DEF s
      <3> QED BY <3>1, <3>2, Deliveries
    <2>4. UNCHANGED upCall \/ \E c \in UpCalls : UpQueueCall(c) \/ UpFinish(c)
      BY DEF StartCheck, CheckAges, FinishCheck, ClaimCheck, upVars
    <2> QED BY <2>1, <2>2, <2>3, <2>4
  <1>4. UpForms'
    BY <1>1, <1>2, <1>3 DEF UpForms
  <1>5. Calm
    BY <1>1, <1>2, <1>3 DEF Calm, UpPosts, UpClaims, StreamInv
  <1> QED BY <1>4, <1>5, CalmStep

LEMMA ReplayStep ==
  ASSUME UpForms, UpClaims, NEW c \in UpCalls, UpReplay(c)
  PROVE  UpForms' /\ UpClaims'
  <1>1. UNCHANGED <<upWorker, upCall, upDevice, upPost, upLate>>
    BY DEF UpReplay
  <1>2. Serving /\ UpEmit([call |-> c]) /\ [call |-> c] \in Frame
    BY FrameKinds DEF UpReplay
  <1>3. UpForms'
    BY <1>1, <1>2, Emitted DEF UpForms
  <1>4. Calm
    BY <1>1, <1>2, Emitted, FrameKinds DEF Calm, UpPosts, UpDelivered
  <1> QED BY <1>3, <1>4, CalmStep

\* The stream breaks, or the device gives up a report.
LEMMA DropStep ==
  ASSUME UpForms, UpClaims, UpDrop \/ Abandon
  PROVE  UpForms' /\ UpClaims'
  <1>1. CASE UpDrop
    <2>1. /\ UNCHANGED <<upWorker, upCall, upDevice, upPost, upLate>>
          /\ upStream' = [boot |-> 0, frames |-> <<>>]
      BY <1>1 DEF UpDrop
    <2>2. upStream' \in [boot : Nat, frames : Seq(Frame)] /\ upStream'.boot = 0 /\ upStream'.frames = <<>>
      BY <2>1
    <2>3. UpForms'
      BY <2>1, <2>2 DEF UpForms
    <2>4. Calm
      BY <2>1, <2>2 DEF Calm, UpPosts, UpDelivered, InStream
    <2> QED BY <2>3, <2>4, CalmStep
  <1>2. CASE Abandon
    <2>1. /\ UNCHANGED <<upWorker, upCall, upDevice, upStream>>
          /\ upLate' = upLate \cup {upPost} /\ upPost' = NoPost
      BY <1>2 DEF Abandon
    <2>2. UpForms'
      BY <2>1 DEF UpForms, Report, NoPost
    <2>3. Calm
      BY <2>1 DEF Calm, UpPosts, UpDelivered, UpClaims, StreamInv
    <2> QED BY <2>2, <2>3, CalmStep
  <1> QED BY <1>1, <1>2

\* ready_upgrade sends when the Worker is drained.
LEMMA SendStep ==
  ASSUME UpForms, UpClaims, SendUpgrade
  PROVE  UpForms' /\ UpClaims'
  <1> DEFINE f == [upgrade |-> upWorker.id]
  <1>1. UNCHANGED <<upWorker, upCall, upDevice, upPost, upLate>>
    BY DEF SendUpgrade
  <1>2. f \in Frame
    BY Known, FrameKinds
  <1>3. Serving /\ UpEmit(f) /\ UpActive /\ UpDelivered = {}
    BY DEF SendUpgrade, Drained
  <1>f. \A id : f = [upgrade |-> id] => id = upWorker.id
    BY FrameKinds
  <1> HIDE DEF f
  <1>4. UpForms'
    BY <1>1, <1>2, <1>3, Emitted DEF UpForms
  <1>5. StreamInv'
    BY <1>1, <1>2, <1>3, Emitted DEF UpClaims, StreamInv
  <1>6. EventInv'
    <2> SUFFICES ASSUME NEW id \in Nat, InStream([upgrade |-> id], upStream'.frames),
                        id \notin upDevice'.tried
                 PROVE  (id = upWorker.id /\ UpActive /\ UpDelivered = {})'
      BY DEF EventInv
    <2>1. f = [upgrade |-> id] \/ InStream([upgrade |-> id], upStream.frames)
      BY <1>2, <1>3, Emitted
    <2>2. id = upWorker.id
      BY <2>1, <1>f, <1>1 DEF UpClaims, EventInv
    <2> QED BY <2>2, <1>1, <1>3 DEF UpActive, UpDelivered
  <1>7. VersionInv' /\ TriedInv' /\ WorkInv'
    BY <1>1 DEF UpClaims, VersionInv, TriedInv, WorkInv, UpActive, UpDelivered
  <1>8. ASSUME NEW post \in UpPosts' PROVE PostInv(post)'
    BY <1>1, <1>8 DEF UpClaims, UpPosts, PostInv
  <1> QED BY <1>4, <1>5, <1>6, <1>7, <1>8 DEF UpClaims

\* claim hands out a call: no upgrade is active, so the device is at none and will
\* act on no event that is under way.
LEMMA ClaimStep ==
  ASSUME UpForms, UpClaims, NEW c \in UpCalls, UpClaim(c)
  PROVE  UpForms' /\ UpClaims'
  <1>1. UNCHANGED <<upWorker, upDevice, upPost, upLate>>
    BY DEF UpClaim
  <1>2. Serving /\ UpEmit([call |-> c]) /\ [call |-> c] \in Frame /\ ~UpActive
    BY FrameKinds DEF UpClaim
  <1>3. upCall' \in [UpCalls -> CallStates]
    BY Known DEF UpClaim, CallStates
  <1>4. UpForms'
    BY <1>1, <1>2, <1>3, Emitted DEF UpForms
  <1>5. StreamInv'
    BY <1>1, <1>2, Emitted DEF UpClaims, StreamInv
  <1>6. EventInv'
    <2> SUFFICES ASSUME NEW id \in Nat, InStream([upgrade |-> id], upStream'.frames),
                        id \notin upDevice'.tried
                 PROVE  FALSE
      BY DEF EventInv
    <2>1. InStream([upgrade |-> id], upStream.frames)
      BY <1>2, Emitted, FrameKinds
    <2> QED BY <2>1, <1>1, <1>2 DEF UpClaims, EventInv
  <1>7. upDevice.phase = "serving"
    BY <1>2 DEF UpClaims, WorkInv
  <1>8. VersionInv' /\ TriedInv' /\ WorkInv'
    BY <1>1, <1>7 DEF UpClaims, VersionInv, TriedInv, WorkInv
  <1>9. ASSUME NEW post \in UpPosts' PROVE PostInv(post)'
    BY <1>1, <1>9 DEF UpClaims, UpPosts, PostInv
  <1> QED BY <1>4, <1>5, <1>6, <1>8, <1>9 DEF UpClaims

\* The owner asks for an upgrade, again after one that ended.
LEMMA QueueStep ==
  ASSUME UpForms, UpClaims, QueueUpgrade
  PROVE  UpForms' /\ UpClaims'
  <1>1. UNCHANGED <<upCall, upStream, upDevice, upPost, upLate>> /\ ~UpActive
    BY DEF QueueUpgrade
  <1>2. /\ upWorker' \in UpRow
        /\ upWorker'.boot = upWorker.boot /\ upWorker'.version = upWorker.version
        /\ upWorker'.id = upWorker.id + 1 /\ upWorker'.version # Target
    <2> DEFINE r == [upWorker EXCEPT !.id = upWorker.id + 1]
    <2>1. upWorker' = [r EXCEPT !.status = "queued"]
      BY DEF QueueUpgrade
    <2>2. upWorker \in UpRow /\ upWorker.id + 1 \in Nat
      BY Known
    <2>3. /\ r \in UpRow /\ r.boot = upWorker.boot /\ r.version = upWorker.version
          /\ r.id = upWorker.id + 1
      BY <2>2, UpRows
    <2>4. upWorker.version # Target
      BY DEF QueueUpgrade, Target
    <2> HIDE DEF r
    <2> QED BY <2>1, <2>3, <2>4, UpRows DEF Upgrading
  <1>3. UpForms'
    BY <1>1, <1>2 DEF UpForms
  <1>4. StreamInv'
    BY <1>1, <1>2 DEF UpClaims, StreamInv
  <1>5. VersionInv'
    BY <1>1, <1>2, Known DEF UpClaims, VersionInv
  <1>6. upDevice.phase = "serving"
    BY <1>1 DEF UpClaims, WorkInv
  <1>7. EventInv' /\ WorkInv'
    BY <1>1, <1>6 DEF UpClaims, EventInv, WorkInv
  <1>8. TriedInv'
    BY <1>1, <1>2, Known DEF UpClaims, TriedInv
  <1>9. ASSUME NEW post \in UpPosts' PROVE PostInv(post)'
    BY <1>1, <1>6, <1>9 DEF UpClaims, UpPosts, PostInv
  <1> QED BY <1>3, <1>4, <1>5, <1>7, <1>8, <1>9 DEF UpClaims

\* register, of the process that is on the device.
LEMMA RegisterStep ==
  ASSUME UpForms, UpClaims, UpRegister
  PROVE  UpForms' /\ UpClaims'
  <1> DEFINE new == upWorker.boot # upDevice.proc
             s == IF new /\ upWorker.status = "installing" /\ upDevice.version # Target
                  THEN "failed" ELSE upWorker.status
             r1 == [upWorker EXCEPT !.boot = upDevice.proc]
             r2 == [r1 EXCEPT !.status = s]
             r3 == [r2 EXCEPT !.version = upDevice.version]
             t == IF upWorker.id # 0 /\ upDevice.version = Target THEN "completed" ELSE s
  <1>1. /\ UNCHANGED <<upDevice, upPost, upLate>> /\ upStream.boot = 0
        /\ upStream' = [boot |-> upDevice.proc, frames |-> <<>>]
    BY DEF UpRegister
  <1>2. /\ upStream' \in [boot : Nat, frames : Seq(Frame)]
        /\ upStream'.boot = upDevice.proc /\ upStream'.frames = <<>>
    BY <1>1, Known
  <1>3. /\ upCall' \in [UpCalls -> CallStates] /\ UpDelivered' \subseteq UpDelivered
    BY Known DEF UpRegister, CallStates, UpDelivered
  <1>4. /\ upWorker' \in UpRow
        /\ upWorker'.boot = upDevice.proc /\ upWorker'.version = upDevice.version
        /\ upWorker'.id = upWorker.id /\ upWorker'.status = t
    <2>k. /\ upWorker \in UpRow /\ upDevice.proc \in Nat /\ upDevice.version \in Nat
          /\ s \in {"none", "completed", "failed"} \cup Upgrading
          /\ t \in {"none", "completed", "failed"} \cup Upgrading
      BY Known, UpRows, UpDevices
    <2>1. upWorker' = WithVersion(r2, upDevice.version)
      BY DEF UpRegister
    <2>2. r1 \in UpRow /\ r1.boot = upDevice.proc /\ r1.id = upWorker.id /\ r1.status = upWorker.status
      BY <2>k, UpRows
    <2> HIDE DEF r1, s
    <2>3. r2 \in UpRow /\ r2.boot = upDevice.proc /\ r2.id = upWorker.id /\ r2.status = s
      BY <2>k, <2>2, UpRows
    <2>4. upWorker' = [r3 EXCEPT !.status = IF r2.id # 0 /\ upDevice.version = Target
                                            THEN "completed" ELSE r2.status]
      <3> HIDE DEF r2
      <3> QED BY <2>1, <2>3 DEF WithVersion, UpRow
    <2> HIDE DEF r2
    <2>5. /\ r3 \in UpRow /\ r3.boot = upDevice.proc /\ r3.id = upWorker.id
          /\ r3.version = upDevice.version
      BY <2>k, <2>3, UpRows
    <2> HIDE DEF r3
    <2>6. upWorker' = [r3 EXCEPT !.status = t]
      BY <2>3, <2>4
    <2> HIDE DEF t
    <2> QED BY <2>k, <2>5, <2>6, UpRows
  <1>5. UpForms'
    BY <1>1, <1>2, <1>3, <1>4 DEF UpForms
  <1>6. StreamInv'
    BY <1>1, <1>2, <1>4, Known DEF UpClaims, StreamInv
  <1>7. EventInv'
    BY <1>2 DEF EventInv, InStream
  <1>8. VersionInv'
    BY <1>1, <1>4 DEF UpClaims, VersionInv
  <1>9. new => upDevice.phase = "serving" /\ upDevice.tried = {}
    BY DEF UpClaims, WorkInv, TriedInv
  <1>10. TriedInv'
    BY <1>1, <1>4, <1>9 DEF UpClaims, TriedInv
  <1>11. WorkInv'
    <2> SUFFICES ASSUME upDevice.phase # "serving" PROVE WorkInv'
      BY <1>1 DEF WorkInv
    <2>1. ~new /\ UpActive /\ UpDelivered = {} /\ upWorker.id \in upDevice.tried
      BY <1>9 DEF UpClaims, WorkInv
    <2>2. upDevice.version # Target
      BY <2>1 DEF UpClaims, VersionInv, UpActive, Upgrading
    <2>3. t = upWorker.status
      BY <2>1, <2>2
    <2> HIDE DEF t, new
    <2> QED BY <2>1, <2>3, <1>1, <1>3, <1>4 DEF WorkInv, UpActive
  <1>12. ASSUME NEW post \in UpPosts' PROVE PostInv(post)'
    BY <1>1, <1>4, <1>12 DEF UpClaims, UpPosts, PostInv
  <1> QED BY <1>5, <1>6, <1>7, <1>8, <1>10, <1>11, <1>12 DEF UpClaims

\* upgrade_result: only a report of the registered process about the upgrade of the
\* row changes it; of the upgrade at work such a report says that it began.
LEMMA ReportStep ==
  ASSUME UpForms, UpClaims, UpgradeResult \/ LateResult
  PROVE  UpForms' /\ UpClaims'
  <1>1. /\ UNCHANGED <<upCall, upStream, upDevice, upLate>>
        /\ UpPosts' \subseteq UpPosts \cup {NoPost} /\ upPost' \in Report
    BY DEF UpgradeResult, LateResult, UpPosts, UpForms, Report, NoPost
  <1>2. PICK post \in UpPosts : upWorker' = Reported(upWorker, post)
    BY DEF UpgradeResult, LateResult, UpPosts
  <1>3. post \in Report
    BY DEF UpPosts, UpForms
  <1>4. CASE upWorker' = upWorker
    <2>1. UpForms'
      BY <1>1, <1>4 DEF UpForms
    <2>2. Calm
      BY <1>1, <1>4 DEF Calm, UpDelivered, UpClaims, StreamInv
    <2> QED BY <2>1, <2>2, CalmStep
  <1>5. CASE upWorker' # upWorker
    <2>1. /\ post.boot = upWorker.boot /\ post.id = upWorker.id
          /\ upWorker.status \in Upgrading \cup {"failed"}
          /\ upWorker' = [upWorker EXCEPT !.status = post.status]
      BY <1>2, <1>5 DEF Reported
    <2>2. upWorker \in UpRow /\ post.status \in {"none", "completed", "failed"} \cup Upgrading
      BY <1>3, Known DEF Report, Upgrading
    <2>3. /\ upWorker' \in UpRow
          /\ upWorker'.boot = upWorker.boot /\ upWorker'.version = upWorker.version
          /\ upWorker'.id = upWorker.id /\ upWorker'.status = post.status
      BY <2>1, <2>2, UpRows
    <2>4. upWorker.id # 0 /\ post # NoPost
      BY <2>1 DEF UpClaims, VersionInv, Upgrading, NoPost
    <2>5. PostInv(post)
      BY DEF UpClaims
    <2>6. UpForms'
      BY <1>1, <2>3 DEF UpForms
    <2>7. StreamInv'
      BY <1>1, <2>3 DEF UpClaims, StreamInv
    <2>8. VersionInv'
      BY <1>1, <2>1, <2>3, <2>4 DEF UpClaims, VersionInv, Upgrading
    <2>9. EventInv'
      <3> SUFFICES ASSUME NEW id \in Nat, InStream([upgrade |-> id], upStream.frames),
                          id \notin upDevice.tried
                   PROVE  FALSE
        BY <1>1 DEF EventInv
      <3>1. upStream.boot # 0
        BY Known, Frames DEF UpClaims, StreamInv
      <3>2. post.boot = upDevice.proc
        BY <3>1, <2>1 DEF UpClaims, StreamInv
      <3>3. id = upWorker.id /\ post.id \in upDevice.tried
        BY <3>2, <2>4, <2>5 DEF UpClaims, EventInv, PostInv
      <3> QED BY <3>3, <2>1
    <2>10. TriedInv'
      BY <1>1, <2>3 DEF UpClaims, TriedInv
    <2>11. WorkInv'
      <3> SUFFICES ASSUME upDevice.phase # "serving" PROVE WorkInv'
        BY <1>1 DEF WorkInv
      <3>1. upWorker.boot = upDevice.proc /\ UpDelivered = {} /\ upWorker.id \in upDevice.tried
        BY DEF UpClaims, WorkInv
      <3>2. post.status = "installing"
        BY <3>1, <2>1, <2>4, <2>5 DEF PostInv
      <3> QED BY <3>1, <3>2, <1>1, <2>3 DEF WorkInv, UpActive, Upgrading, UpDelivered
    <2>12. ASSUME NEW p \in UpPosts' PROVE PostInv(p)'
      BY <1>1, <2>3, <2>12 DEF UpClaims, PostInv
    <2> QED BY <2>6, <2>7, <2>8, <2>9, <2>10, <2>11, <2>12 DEF UpClaims
  <1> QED BY <1>4, <1>5

\* The device takes an event: it begins the upgrade unless it tried it before, and
\* executes a call.
LEMMA TakeStep ==
  ASSUME UpForms, UpClaims, UpTake
  PROVE  UpForms' /\ UpClaims'
  <1> DEFINE frame == Head(upStream.frames)
  <1>1. /\ UNCHANGED <<upWorker, upCall, upPost, upLate>> /\ upStream.frames # <<>>
        /\ upStream' = [upStream EXCEPT !.frames = Tail(upStream.frames)]
        /\ upStream.boot = upDevice.proc
    BY DEF UpTake
  <1>2. /\ frame \in Frame /\ InStream(frame, upStream.frames)
        /\ Tail(upStream.frames) \in Seq(Frame)
        /\ \A id : InStream([upgrade |-> id], Tail(upStream.frames))
                      => InStream([upgrade |-> id], upStream.frames)
    BY <1>1, Known, Frames
  <1>3. /\ upStream' \in [boot : Nat, frames : Seq(Frame)]
        /\ upStream'.boot = upStream.boot /\ upStream'.frames = Tail(upStream.frames)
    BY <1>1, <1>2, Known, Streams, Zenon
  <1>4. upStream.boot # 0 /\ upWorker.boot = upDevice.proc
    BY <1>1 DEF UpClaims, StreamInv
  <1>5. CASE /\ upDevice'.proc = upDevice.proc /\ upDevice'.version = upDevice.version
             /\ upDevice'.tried = upDevice.tried /\ upDevice'.phase = upDevice.phase
             /\ upDevice' \in UpDev
    <2>1. UpForms'
      BY <1>1, <1>3, <1>5 DEF UpForms
    <2>2. Calm
      BY <1>1, <1>2, <1>3, <1>4, <1>5 DEF Calm, UpPosts, UpDelivered
    <2> QED BY <2>1, <2>2, CalmStep
  <1>6. ASSUME NEW id \in Nat, frame = [upgrade |-> id], id \notin upDevice.tried,
               upDevice' = [upDevice EXCEPT !.tried = upDevice.tried \cup {id},
                                            !.phase = "preparing"]
        PROVE  UpForms' /\ UpClaims'
    <2>1. id = upWorker.id /\ UpActive /\ UpDelivered = {}
      BY <1>2, <1>6 DEF UpClaims, EventInv
    <2>2. /\ upDevice' \in UpDev /\ upDevice'.proc = upDevice.proc
          /\ upDevice'.version = upDevice.version
          /\ upDevice'.tried = upDevice.tried \cup {id} /\ upDevice'.phase = "preparing"
      <3> DEFINE t == upDevice.tried \cup {id}
                 e == [upDevice EXCEPT !.tried = t]
      <3>1. t \in SUBSET Nat /\ upDevice \in UpDev
        BY Known
      <3>2. upDevice' = [e EXCEPT !.phase = "preparing"]
        BY <1>6
      <3> HIDE DEF t
      <3>3. e \in UpDev /\ e.proc = upDevice.proc /\ e.version = upDevice.version /\ e.tried = t
        BY <3>1 DEF UpDev
      <3> HIDE DEF e
      <3>4. /\ upDevice' \in UpDev /\ upDevice'.proc = upDevice.proc
            /\ upDevice'.version = upDevice.version
            /\ upDevice'.tried = t /\ upDevice'.phase = "preparing"
        BY <3>2, <3>3, UpDevices
      <3> QED BY <3>4 DEF t
    <2>3. UpForms'
      BY <1>1, <1>3, <2>2 DEF UpForms
    <2>4. StreamInv' /\ VersionInv'
      BY <1>1, <1>3, <1>4, <2>2 DEF UpClaims, StreamInv, VersionInv
    <2>5. EventInv'
      BY <1>1, <1>2, <1>3, <2>1, <2>2 DEF UpClaims, EventInv, UpActive, UpDelivered
    <2>6. TriedInv' /\ WorkInv'
      BY <1>1, <1>4, <2>1, <2>2, Known DEF UpClaims, TriedInv, WorkInv, UpActive, UpDelivered
    <2>7. ASSUME NEW post \in UpPosts' PROVE PostInv(post)'
      BY <1>1, <1>6, <2>1, <2>2, <2>7 DEF UpClaims, UpPosts, PostInv
    <2> QED BY <2>3, <2>4, <2>5, <2>6, <2>7 DEF UpClaims
  <1>7. CASE \E id \in Nat : frame = [upgrade |-> id]
    <2>1. PICK id \in Nat : frame = [upgrade |-> id]
      BY <1>7
    <2>2. "call" \notin DOMAIN frame /\ frame.upgrade = id
      BY <2>1, FrameKinds
    <2>3. upDevice' = IF frame.upgrade \in upDevice.tried THEN upDevice
                      ELSE [upDevice EXCEPT !.tried = @ \cup {frame.upgrade},
                                            !.phase = "preparing"]
      BY <2>2, Zenon DEF UpTake
    <2> HIDE DEF frame
    <2>4. CASE id \in upDevice.tried
      BY <2>2, <2>3, <2>4, <1>5, Known
    <2>5. CASE id \notin upDevice.tried
      <3>1. upDevice' = [upDevice EXCEPT !.tried = upDevice.tried \cup {id},
                                         !.phase = "preparing"]
        BY <2>2, <2>3, <2>5
      <3> QED BY <2>1, <2>5, <3>1, <1>6
    <2> QED BY <2>4, <2>5
  <1>8. CASE \E c \in UpCalls : frame = [call |-> c]
    <2>1. PICK c \in UpCalls : frame = [call |-> c]
      BY <1>8
    <2>2. "upgrade" \notin DOMAIN frame /\ frame.call = c
      BY <2>1, FrameKinds
    <2>3. upDevice' = [upDevice EXCEPT !.running = @ \cup {frame.call}]
      BY <2>2, Zenon DEF UpTake
    <2> DEFINE t == upDevice.running \cup {c}
    <2>4. upDevice' = [upDevice EXCEPT !.running = t]
      BY <2>2, <2>3
    <2>5. t \in SUBSET UpCalls /\ upDevice \in UpDev
      BY Known
    <2> HIDE DEF t
    <2>6. /\ upDevice' \in UpDev
          /\ upDevice'.proc = upDevice.proc /\ upDevice'.version = upDevice.version
          /\ upDevice'.tried = upDevice.tried /\ upDevice'.phase = upDevice.phase
      BY <2>4, <2>5 DEF UpDev
    <2> QED BY <2>6, <1>5
  <1> QED BY <1>2, <1>7, <1>8, FrameKinds

\* The attempt is the latest one, that of the row.
LEMMA AttemptIsCurrent ==
  ASSUME UpForms, UpClaims, upDevice.phase # "serving"
  PROVE  UpAttempt = upWorker.id
  <1>1. upWorker.id \in upDevice.tried /\ \A id \in upDevice.tried : id <= upWorker.id
    BY DEF UpClaims, WorkInv, TriedInv
  <1>2. UpAttempt \in upDevice.tried /\ \A other \in upDevice.tried : other <= UpAttempt
    BY <1>1 DEF UpAttempt
  <1>3. UpAttempt <= upWorker.id /\ upWorker.id <= UpAttempt
    BY <1>1, <1>2
  <1> QED BY <1>2, <1>3, Known

\* The device posts that it installs and goes on, or that it failed and serves.
LEMMA PrepareStep ==
  ASSUME UpForms, UpClaims, Prepare
  PROVE  UpForms' /\ UpClaims'
  <1>1. /\ UNCHANGED <<upWorker, upCall, upStream, upLate>> /\ upDevice.phase = "preparing"
        /\ upPost = NoPost
    BY DEF Prepare, UpPosting
  <1>2. UpAttempt = upWorker.id
    BY <1>1, AttemptIsCurrent
  <1>3. PICK s \in {"installing", "failed"} :
           /\ upPost' = [boot |-> upDevice.proc, id |-> upWorker.id, status |-> s]
           /\ upDevice' = [upDevice EXCEPT !.phase = IF s = "installing" THEN "installing"
                                                     ELSE "serving"]
    BY <1>2, SMT DEF Prepare, UpPosting
  <1>4. /\ upDevice' \in UpDev /\ upDevice'.proc = upDevice.proc
        /\ upDevice'.version = upDevice.version /\ upDevice'.tried = upDevice.tried
        /\ upDevice'.phase = IF s = "installing" THEN "installing" ELSE "serving"
    <2> DEFINE p == IF s = "installing" THEN "installing" ELSE "serving"
    <2>1. p \in {"serving", "preparing", "installing"} /\ upDevice \in UpDev
      BY Known
    <2>2. upDevice' = [upDevice EXCEPT !.phase = p]
      BY <1>3
    <2> HIDE DEF p
    <2>3. /\ upDevice' \in UpDev /\ upDevice'.proc = upDevice.proc
          /\ upDevice'.version = upDevice.version /\ upDevice'.tried = upDevice.tried
          /\ upDevice'.phase = p
      BY <2>1, <2>2 DEF UpDev
    <2> QED BY <2>3 DEF p
  <1>5. upPost' \in Report
    BY <1>3, Known DEF Report
  <1>6. UpForms'
    BY <1>1, <1>4, <1>5 DEF UpForms
  <1>7. StreamInv' /\ VersionInv' /\ TriedInv'
    BY <1>1, <1>4 DEF UpClaims, StreamInv, VersionInv, TriedInv
  <1>8. EventInv' /\ WorkInv'
    BY <1>1, <1>4 DEF UpClaims, EventInv, WorkInv, UpActive, UpDelivered
  <1>9. ASSUME NEW post \in UpPosts' PROVE PostInv(post)'
    <2>1. CASE post \in upLate
      BY <2>1, <1>1, <1>4 DEF UpClaims, UpPosts, PostInv
    <2>2. CASE post = upPost'
      <3>1. post.boot = upDevice.proc /\ post.id = upWorker.id /\ post.status = s
        BY <2>2, <1>3
      <3>2. upWorker.id \in upDevice.tried
        BY <1>1 DEF UpClaims, WorkInv
      <3> QED BY <3>1, <3>2, <1>1, <1>4, Known DEF PostInv
    <2> QED BY <1>1, <1>9, <2>1, <2>2 DEF UpPosts
  <1> QED BY <1>6, <1>7, <1>8, <1>9 DEF UpClaims

\* Another process: it has tried nothing and is not registered yet.
LEMMA RestartStep ==
  ASSUME UpForms, UpClaims, Replace \/ UpCrash
  PROVE  UpForms' /\ UpClaims'
  <1>1. /\ UNCHANGED <<upWorker, upCall, upLate>> /\ upPost' = NoPost
        /\ upStream' = [boot |-> 0, frames |-> <<>>]
        /\ \E version \in Nat :
              upDevice' = [proc |-> upDevice.proc + 1, version |-> version, running |-> {},
                           phase |-> "serving", tried |-> {}]
    <2>1. /\ UNCHANGED <<upWorker, upCall, upLate>>
          /\ \/ \E version \in {1, Target} : Restarted(version)
             \/ Restarted(upDevice.version)
      BY DEF Replace, UpCrash
    <2>2. 1 \in Nat /\ Target \in Nat /\ upDevice.version \in Nat
      BY Known, UpDevices DEF Target
    <2>3. \E version \in Nat : Restarted(version)
      BY <2>1, <2>2
    <2> QED BY <2>1, <2>3 DEF Restarted
  <1>2. /\ upDevice' \in UpDev /\ upDevice'.proc = upDevice.proc + 1
        /\ upDevice'.phase = "serving" /\ upDevice'.tried = {}
    BY <1>1, Known DEF UpDev
  <1>3. UpForms'
    BY <1>1, <1>2 DEF UpForms, Report, NoPost
  <1>4. upWorker.boot <= upDevice.proc /\ upWorker.boot \in Nat
    BY Known, UpRows DEF UpClaims, StreamInv
  <1>5. StreamInv' /\ TriedInv' /\ WorkInv'
    BY <1>1, <1>2, <1>4, Known DEF StreamInv, TriedInv, WorkInv
  <1>6. VersionInv'
    BY <1>1, <1>2, <1>4, Known DEF UpClaims, VersionInv
  <1>7. EventInv'
    BY <1>1 DEF EventInv, InStream
  <1>8. ASSUME NEW post \in UpPosts' PROVE PostInv(post)'
    <2>1. CASE post = NoPost
      BY <2>1 DEF PostInv
    <2>2. CASE post \in upLate /\ post # NoPost
      <3>1. post.boot <= upDevice.proc /\ post.boot \in Nat
        BY <2>2 DEF UpClaims, UpPosts, PostInv, UpForms, Report
      <3> QED BY <3>1, <1>2, Known DEF PostInv
    <2> QED BY <1>1, <1>8, <2>1, <2>2 DEF UpPosts
  <1> QED BY <1>3, <1>5, <1>6, <1>7, <1>8 DEF UpClaims

-----------------------------------------------------------------------------
(* The theorem.                                                            *)

LEMMA UpgradeStep == UpgradeInv /\ [UpNext]_upVars => UpgradeInv'
  <1> SUFFICES ASSUME UpForms, UpClaims, [UpNext]_upVars PROVE UpForms' /\ UpClaims'
    BY DEF UpgradeInv, UpClaims
  <1> QED
    BY QuietStep, ReplayStep, DropStep, SendStep, ClaimStep, QueueStep, RegisterStep,
       ReportStep, TakeStep, PrepareStep, RestartStep
    DEF UpNext

\* The drain of ready_upgrade and the guard of claim wait for each other: from the
\* event that the device acts on until it serves again, no call is delivered,
\* whatever is requested again, lost, replayed or reported late.
THEOREM UpgradeLosesNoCall == UpSpec => []UpgradeLosesNothing
  <1>1. UpgradeInv => UpgradeLosesNothing
    BY DEF UpgradeInv, WorkInv, UpgradeLosesNothing
  <1> QED BY <1>1, UpInitInv, UpgradeStep, PTL DEF UpSpec

-----------------------------------------------------------------------------
(* The types with their bounds, which the argument above did without.      *)

UpRowB == [boot : UpBoots, version : 0..Target, id : UpIds,
           status : {"none", "completed", "failed"} \cup Upgrading]
UpDevB == [proc : UpBoots, version : 1..Target, running : SUBSET UpCalls,
           phase : {"serving", "preparing", "installing"}, tried : SUBSET UpIds]
UpCheckB == [status : {"none", "queued", "delivered", "completed"}, fresh : BOOLEAN]
UpStreamB == [boot : UpBoots, frames : Seq(UpFrame)]

LEMMA UpBoundForms ==
  /\ 0 \in UpBoots /\ 1 \in UpBoots /\ 0 \in UpIds
  /\ \A id \in UpIds : id < MaxUpgrades => id + 1 \in UpIds
  /\ \A n \in 0..MaxUpFaults : n < MaxUpFaults => n + 1 \in 0..MaxUpFaults
  /\ NoPost \in UpReport
  /\ 1 \in 1..Target /\ Target \in 1..Target /\ 1..Target \subseteq 0..Target
  BY WorkerUpgradeAssumption DEF UpBoots, UpIds, NoPost, UpReport, Target

\* The changes steps make to the row, the device and the check.
LEMMA UpRowsB ==
  ASSUME NEW r \in UpRowB
  PROVE  /\ r.boot \in UpBoots /\ r.id \in UpIds
         /\ \A s \in {"none", "completed", "failed"} \cup Upgrading :
               [r EXCEPT !.status = s] \in UpRowB
         /\ \A b \in UpBoots : [r EXCEPT !.boot = b] \in UpRowB
         /\ \A v \in 0..Target : [r EXCEPT !.version = v] \in UpRowB
         /\ \A id \in UpIds : [r EXCEPT !.id = id] \in UpRowB
  BY DEF UpRowB

LEMMA UpDevicesB ==
  ASSUME NEW d \in UpDevB
  PROVE  /\ d.proc \in UpBoots /\ d.version \in 1..Target /\ d.version \in 0..Target
         /\ d.running \subseteq UpCalls /\ d.tried \subseteq UpIds
         /\ \A p \in {"serving", "preparing", "installing"} :
               [d EXCEPT !.phase = p] \in UpDevB
         /\ \A t \in SUBSET UpIds : [d EXCEPT !.tried = t] \in UpDevB
         /\ \A t \in SUBSET UpCalls : [d EXCEPT !.running = t] \in UpDevB
  BY UpBoundForms DEF UpDevB

LEMMA UpChecksB ==
  /\ [status |-> "queued", fresh |-> TRUE] \in UpCheckB
  /\ \A k \in UpCheckB : /\ [k EXCEPT !.fresh = FALSE] \in UpCheckB
                        /\ [k EXCEPT !.status = "completed"] \in UpCheckB
                        /\ [k EXCEPT !.status = "delivered"] \in UpCheckB
  BY DEF UpCheckB

LEMMA UpTypeKnown ==
  ASSUME UpTypeOK
  PROVE  /\ upWorker \in UpRowB /\ upDevice \in UpDevB /\ upCheck \in UpCheckB
         /\ upStream \in UpStreamB /\ upStream.boot \in UpBoots /\ upStream.frames \in Seq(UpFrame)
         /\ upCall \in [UpCalls -> CallStates]
         /\ upPost \in UpReport /\ upLate \subseteq UpReport /\ upFaults \in 0..MaxUpFaults
  BY DEF UpTypeOK, UpRowB, UpDevB, UpCheckB, UpStreamB, CallStates

LEMMA UpTypeShown ==
  (/\ upWorker \in UpRowB /\ upDevice \in UpDevB /\ upCheck \in UpCheckB
   /\ upStream \in UpStreamB /\ upCall \in [UpCalls -> CallStates]
   /\ upPost \in UpReport /\ upLate \subseteq UpReport
   /\ upFaults \in 0..MaxUpFaults)
  => UpTypeOK
  BY DEF UpTypeOK, UpRowB, UpDevB, UpCheckB, UpStreamB, CallStates

LEMMA UpTypeInit == UpInit => UpTypeOK
  <1> SUFFICES ASSUME UpInit PROVE UpTypeOK
    OBVIOUS
  <1>1. upWorker \in UpRowB /\ upDevice \in UpDevB
    BY UpBoundForms DEF UpInit, UpRowB, UpDevB
  <1>2. upCheck \in UpCheckB /\ upCall \in [UpCalls -> CallStates]
    BY DEF UpInit, UpCheckB, CallStates
  <1>3. upStream \in UpStreamB
    BY UpBoundForms DEF UpInit, UpStreamB
  <1>4. upPost \in UpReport /\ upLate \subseteq UpReport /\ upFaults \in 0..MaxUpFaults
    BY UpBoundForms, WorkerUpgradeAssumption DEF UpInit
  <1> QED BY <1>1, <1>2, <1>3, <1>4, UpTypeShown

LEMMA UpTypeStep ==
  ASSUME UpTypeOK, UpgradeInv, [UpNext]_upVars
  PROVE  UpTypeOK'
  <1> DEFINE W == upWorker' \in UpRowB
             D == upDevice' \in UpDevB
             K == upCheck' \in UpCheckB
             S == upStream' \in UpStreamB
             C == upCall' \in [UpCalls -> CallStates]
             P == upPost' \in UpReport /\ upLate' \subseteq UpReport
             F == upFaults' \in 0..MaxUpFaults
  <1>0. /\ upWorker' = upWorker => W
        /\ upDevice' = upDevice => D
        /\ upCheck' = upCheck => K
        /\ upStream' = upStream => S
        /\ upCall' = upCall => C
        /\ upPost' = upPost /\ upLate' = upLate => P
        /\ upFaults' = upFaults => F
        /\ UpFault => F
    BY UpTypeKnown, UpBoundForms DEF UpFault
  <1>a. ASSUME W, D, K, S, C, P, F PROVE UpTypeOK'
    <2>1. (/\ upWorker \in UpRowB /\ upDevice \in UpDevB /\ upCheck \in UpCheckB
           /\ upStream \in UpStreamB /\ upCall \in [UpCalls -> CallStates]
           /\ upPost \in UpReport /\ upLate \subseteq UpReport
           /\ upFaults \in 0..MaxUpFaults)'
      BY <1>a
    <2> QED BY <2>1, UpTypeShown, PTL
  <1>f. ASSUME NEW f \in UpFrame, UpEmit(f) PROVE S
    <2>1. upStream.frames \in Seq(UpFrame) /\ upStream \in UpStreamB
      BY UpTypeKnown
    <2>2. Append(upStream.frames, f) \in Seq(UpFrame)
      BY <2>1
    <2>3. upStream' = [upStream EXCEPT !.frames = Append(upStream.frames, f)]
      BY <1>f DEF UpEmit
    <2> QED BY <2>1, <2>2, <2>3 DEF UpStreamB
  <1>b. \A b \in UpBoots : [boot |-> b, frames |-> <<>>] \in UpStreamB
    BY DEF UpStreamB
  <1>c. \A c \in UpCalls, s \in CallStates : [upCall EXCEPT ![c] = s] \in [UpCalls -> CallStates]
    BY UpTypeKnown
  <1> HIDE DEF W, D, K, S, C, P, F
  <1>1. CASE UNCHANGED upVars
    BY <1>0, <1>1, <1>a DEF upVars
  <1>2. ASSUME NEW c \in UpCalls, UpQueueCall(c) PROVE UpTypeOK'
    <2>1. C
      BY <1>2, <1>c DEF UpQueueCall, CallStates, C
    <2> QED BY <1>0, <1>2, <1>a, <2>1 DEF UpQueueCall
  <1>3. ASSUME NEW c \in UpCalls, UpClaim(c) PROVE UpTypeOK'
    <2>1. C
      BY <1>3, <1>c DEF UpClaim, CallStates, C
    <2>2. [call |-> c] \in UpFrame
      BY DEF UpFrame
    <2>3. S
      BY <1>3, <1>f, <2>2 DEF UpClaim
    <2> QED BY <1>0, <1>3, <1>a, <2>1, <2>3 DEF UpClaim
  <1>4. ASSUME NEW c \in UpCalls, UpReplay(c) PROVE UpTypeOK'
    <2>1. [call |-> c] \in UpFrame
      BY DEF UpFrame
    <2>2. S
      BY <1>4, <1>f, <2>1 DEF UpReplay
    <2> QED BY <1>0, <1>4, <1>a, <2>2 DEF UpReplay
  <1>5. ASSUME NEW c \in UpCalls, UpFinish(c) PROVE UpTypeOK'
    <2>1. C
      <3>1. upCall[c] \in CallStates
        BY UpTypeKnown
      <3>2. (IF upCall[c] = "delivered" THEN "settled" ELSE upCall[c]) \in CallStates
        BY <3>1 DEF CallStates
      <3> QED BY <1>5, <1>c, <3>2 DEF UpFinish, C
    <2>2. D
      <3>1. upDevice.running \ {c} \in SUBSET UpCalls
        BY UpTypeKnown, UpDevicesB
      <3> QED BY <1>5, <3>1, UpTypeKnown, UpDevicesB DEF UpFinish, D
    <2> QED BY <1>0, <1>5, <1>a, <2>1, <2>2 DEF UpFinish
  <1>6. CASE QueueUpgrade
    <2>1. W
      <3> DEFINE r == [upWorker EXCEPT !.id = upWorker.id + 1]
      <3>1. upWorker.id + 1 \in UpIds
        BY <1>6, UpTypeKnown, UpRowsB, UpBoundForms DEF QueueUpgrade
      <3>2. r \in UpRowB
        BY <3>1, UpTypeKnown, UpRowsB
      <3>3. [r EXCEPT !.status = "queued"] \in UpRowB
        <4> HIDE DEF r
        <4> QED BY <3>2, UpRowsB DEF Upgrading
      <3>4. upWorker' = [r EXCEPT !.status = "queued"]
        BY <1>6 DEF QueueUpgrade
      <3> QED BY <3>3, <3>4 DEF W
    <2> QED BY <1>0, <1>6, <1>a, <2>1 DEF QueueUpgrade
  <1>7. CASE UpRegister
    <2>1. W
      <3> DEFINE s == IF /\ upWorker.boot # upDevice.proc
                         /\ upWorker.status = "installing" /\ upDevice.version # Target
                      THEN "failed" ELSE upWorker.status
                 a == [upWorker EXCEPT !.boot = upDevice.proc]
                 b == [a EXCEPT !.status = s]
                 d == [b EXCEPT !.version = upDevice.version]
                 z == IF b.id # 0 /\ upDevice.version = Target THEN "completed" ELSE b.status
      <3>1. /\ upDevice.proc \in UpBoots /\ upDevice.version \in 0..Target /\ upWorker \in UpRowB
        BY UpTypeKnown, UpDevicesB
      <3>2. s \in {"none", "completed", "failed"} \cup Upgrading
        BY <3>1 DEF UpRowB
      <3>3. a \in UpRowB
        BY <3>1, UpRowsB
      <3>4. upWorker' = WithVersion(b, upDevice.version)
        BY <1>7 DEF UpRegister
      <3> HIDE DEF s, a
      <3>5. b \in UpRowB
        BY <3>2, <3>3, UpRowsB
      <3> HIDE DEF b
      <3>6. d \in UpRowB /\ z \in {"none", "completed", "failed"} \cup Upgrading
        BY <3>1, <3>5, UpRowsB DEF UpRowB
      <3>7. upWorker' = [d EXCEPT !.status = z]
        BY <3>4, <3>5 DEF WithVersion, UpRowB
      <3> HIDE DEF d, z
      <3> QED BY <3>6, <3>7, UpRowsB DEF W
    <2>2. C
      BY <1>7, UpTypeKnown DEF UpRegister, CallStates, C
    <2>3. S
      BY <1>7, <1>b, UpTypeKnown, UpDevicesB DEF UpRegister, S
    <2> QED BY <1>0, <1>7, <1>a, <2>1, <2>2, <2>3 DEF UpRegister
  <1>8. CASE StartCheck \/ CheckAges \/ FinishCheck \/ ClaimCheck
    <2>1. \/ upCheck' = [status |-> "queued", fresh |-> TRUE]
          \/ upCheck' = [upCheck EXCEPT !.fresh = FALSE]
          \/ upCheck' = [upCheck EXCEPT !.status = "completed"]
          \/ upCheck' = [upCheck EXCEPT !.status = "delivered"]
      BY <1>8 DEF StartCheck, CheckAges, FinishCheck, ClaimCheck
    <2>2. upCheck \in UpCheckB
      BY UpTypeKnown
    <2>3. K
      BY <2>1, <2>2, UpChecksB DEF K
    <2> QED BY <1>0, <1>8, <1>a, <2>3 DEF StartCheck, CheckAges, FinishCheck, ClaimCheck
  <1>9. CASE SendUpgrade
    <2>1. [upgrade |-> upWorker.id] \in UpFrame
      BY UpTypeKnown, UpRowsB DEF UpFrame
    <2>2. S
      BY <1>9, <1>f, <2>1 DEF SendUpgrade
    <2> QED BY <1>0, <1>9, <1>a, <2>2 DEF SendUpgrade
  <1>10. CASE UpgradeResult \/ LateResult
    <2>1. ASSUME NEW post \in UpReport, post # NoPost \/ upWorker' # upWorker,
                 upWorker' = Reported(upWorker, post)
          PROVE  W
      <3>1. post.status \in {"none", "installing", "failed"} /\ upWorker \in UpRowB
        BY UpTypeKnown DEF UpReport
      <3>2. [upWorker EXCEPT !.status = post.status] \in UpRowB
        BY <3>1, UpRowsB DEF Upgrading
      <3> QED BY <2>1, <3>1, <3>2 DEF Reported, W
    <2>2. W
      BY <1>10, <2>1, UpTypeKnown DEF UpgradeResult, LateResult
    <2>3. P
      BY <1>10, UpTypeKnown, UpBoundForms DEF UpgradeResult, LateResult, P
    <2> QED BY <1>0, <1>10, <1>a, <2>2, <2>3 DEF UpgradeResult, LateResult
  <1>11. CASE UpTake
    <2>1. upStream.frames \in Seq(UpFrame) /\ upStream.frames # <<>> /\ upStream \in UpStreamB
      BY <1>11, UpTypeKnown DEF UpTake
    <2>2. Tail(upStream.frames) \in Seq(UpFrame) /\ Head(upStream.frames) \in UpFrame
      BY <2>1
    <2>3. S
      BY <1>11, <2>1, <2>2 DEF UpTake, S, UpStreamB
    <2>4. D
      <3> DEFINE frame == Head(upStream.frames)
      <3>1. frame \in UpFrame
        BY <2>2
      <3>2. \/ /\ "upgrade" \in DOMAIN frame
               /\ upDevice' = IF frame.upgrade \in upDevice.tried THEN upDevice
                              ELSE [upDevice EXCEPT !.tried = @ \cup {frame.upgrade},
                                                    !.phase = "preparing"]
            \/ /\ "call" \in DOMAIN frame
               /\ upDevice' = [upDevice EXCEPT !.running = @ \cup {frame.call}]
        BY <1>11 DEF UpTake
      <3> HIDE DEF frame
      <3>3. /\ "upgrade" \in DOMAIN frame => frame.upgrade \in UpIds
            /\ "call" \in DOMAIN frame => frame.call \in UpCalls
        BY <3>1 DEF UpFrame
      <3>4. CASE /\ "upgrade" \in DOMAIN frame
                 /\ upDevice' = IF frame.upgrade \in upDevice.tried THEN upDevice
                                ELSE [upDevice EXCEPT !.tried = @ \cup {frame.upgrade},
                                                      !.phase = "preparing"]
        <4> DEFINE e == [upDevice EXCEPT !.tried = upDevice.tried \cup {frame.upgrade}]
        <4>1. upDevice.tried \cup {frame.upgrade} \in SUBSET UpIds /\ upDevice \in UpDevB
          BY <3>3, <3>4, UpTypeKnown, UpDevicesB
        <4>2. e \in UpDevB
          BY <4>1, UpDevicesB
        <4>3. upDevice' = upDevice \/ upDevice' = [e EXCEPT !.phase = "preparing"]
          BY <3>4
        <4> HIDE DEF e
        <4> QED BY <4>1, <4>2, <4>3, UpDevicesB DEF D
      <3>5. CASE /\ "call" \in DOMAIN frame
                 /\ upDevice' = [upDevice EXCEPT !.running = @ \cup {frame.call}]
        <4>1. upDevice.running \cup {frame.call} \in SUBSET UpCalls /\ upDevice \in UpDevB
          BY <3>3, <3>5, UpTypeKnown, UpDevicesB
        <4> QED BY <3>5, <4>1, UpDevicesB DEF D
      <3> QED BY <3>2, <3>4, <3>5
    <2> QED BY <1>0, <1>11, <1>a, <2>3, <2>4 DEF UpTake
  <1>12. CASE Prepare
    <2>1. UpAttempt = upWorker.id
      BY <1>12, AttemptIsCurrent DEF Prepare, UpgradeInv, UpClaims
    <2>2. \E s \in {"installing", "failed"} :
             upPost' = [boot |-> upDevice.proc, id |-> upWorker.id, status |-> s]
      BY <1>12, <2>1 DEF Prepare, UpPosting
    <2>3. P
      <3>1. upDevice.proc \in UpBoots /\ upWorker.id \in UpIds /\ upLate' = upLate
        BY <1>12, UpTypeKnown, UpDevicesB, UpRowsB DEF Prepare
      <3> QED BY <2>2, <3>1, UpTypeKnown DEF UpReport, P
    <2>4. D
      BY <1>12, UpTypeKnown, UpDevicesB DEF Prepare, D
    <2> QED BY <1>0, <1>12, <1>a, <2>3, <2>4 DEF Prepare
  <1>13. ASSUME NEW v \in 1..Target, Restarted(v), upDevice.proc + 1 \in UpBoots,
                upLate' = upLate
         PROVE  D /\ S /\ P
    <2>1. D
      BY <1>13 DEF Restarted, UpDevB, D
    <2>2. S
      BY <1>13, <1>b, UpBoundForms DEF Restarted, S
    <2>3. P
      BY <1>13, UpBoundForms, UpTypeKnown DEF Restarted, P
    <2> QED BY <2>1, <2>2, <2>3
  <1>14. CASE Replace \/ UpCrash
    <2>1. \E v \in 1..Target : Restarted(v)
      BY <1>14, UpBoundForms, UpTypeKnown, UpDevicesB DEF Replace, UpCrash
    <2>2. D /\ S /\ P
      BY <1>13, <1>14, <2>1 DEF Replace, UpCrash
    <2> QED BY <1>0, <1>14, <1>a, <2>2 DEF Replace, UpCrash
  <1>15. CASE UpDrop
    <2>1. S
      BY <1>15, <1>b, UpBoundForms DEF UpDrop, S
    <2> QED BY <1>0, <1>15, <1>a, <2>1 DEF UpDrop
  <1>16. CASE Abandon
    <2>1. P
      BY <1>16, UpTypeKnown, UpBoundForms DEF Abandon, P
    <2> QED BY <1>0, <1>16, <1>a, <2>1 DEF Abandon
  <1> QED BY <1>1, <1>2, <1>3, <1>4, <1>5, <1>6, <1>7, <1>8, <1>9, <1>10, <1>11, <1>12, <1>14,
             <1>15, <1>16 DEF UpNext

-----------------------------------------------------------------------------
(* SharedCalls.                                                            *)

\* A row of the owner's ledger, and what the caller's history holds of a call.
Outs == {"none", "record", "discarded"}
LedgerRow == [status : {"none"} \cup ShPending \cup ShSettled,
              started : BOOLEAN, received : BOOLEAN, result : BOOLEAN, late : BOOLEAN,
              out : [Phases -> Outs]]
Answers == [Phases -> 0..1]

Tables ==
    /\ shLedger \in [ShCalls -> LedgerRow]
    /\ shHistory \in [ShCalls -> Answers]
    /\ shThread \in [status : {"running", "idle", "deleted"}, input : Nat]

\* What the owner's ledger says of a phase of a call is so in the caller's
\* database.
Acknowledged(c, phase) ==
    /\ shLedger[c].out[phase] = "record" => Recorded(c, phase)
    /\ shLedger[c].out[phase] = "discarded" => shThread.status = "deleted"

\* A late result comes after the answer it is late for.
LateAfterAnswer(c) == Recorded(c, "late") => Recorded(c, "primary")

\* OneAnswerPerPhase, and what the two databases say of each other.
HistoryInv ==
    /\ Tables
    /\ \A c \in ShCalls :
          /\ \A phase \in Phases : Acknowledged(c, phase)
          /\ LateAfterAnswer(c)

-----------------------------------------------------------------------------
(* The ledger.  Most steps change a row but neither what starts the call   *)
(* nor what was projected of it.                                           *)

Alike(r, q) == q \in LedgerRow /\ q.started = r.started /\ q.out = r.out

LEMMA AlikeSelf == \A r \in LedgerRow : Alike(r, r)
  BY DEF Alike

LEMMA AlikeTwice == ASSUME NEW r, NEW q, NEW s, Alike(r, q), Alike(q, s) PROVE Alike(r, s)
  BY DEF Alike

\* One field of a row.
LEMMA RowUpdates ==
  ASSUME NEW r \in LedgerRow
  PROVE  /\ \A status \in {"none"} \cup ShPending \cup ShSettled :
               Alike(r, [r EXCEPT !.status = status])
         /\ Alike(r, [r EXCEPT !.received = TRUE])
         /\ Alike(r, [r EXCEPT !.result = TRUE])
         /\ Alike(r, [r EXCEPT !.late = TRUE])
         /\ [r EXCEPT !.started = TRUE] \in LedgerRow
         /\ [r EXCEPT !.started = TRUE].out = r.out
  BY DEF LedgerRow, Alike, ShPending, ShSettled

\* Several fields of a row.
LEMMA ResultUpdates ==
  ASSUME NEW r \in LedgerRow, NEW status \in ShSettled
  PROVE  /\ Alike(r, [r EXCEPT !.status = status, !.result = TRUE, !.received = TRUE])
         /\ Alike(r, [r EXCEPT !.result = TRUE, !.late = TRUE, !.received = TRUE])
  <1>1. Alike(r, [r EXCEPT !.status = status, !.result = TRUE, !.received = TRUE])
    <2> DEFINE q == [r EXCEPT !.status = status]
    <2> DEFINE s == [q EXCEPT !.result = TRUE]
    <2>1. Alike(r, q) /\ q \in LedgerRow
      BY RowUpdates DEF Alike
    <2> HIDE DEF q
    <2>2. Alike(q, s) /\ s \in LedgerRow
      BY <2>1, RowUpdates DEF Alike
    <2> HIDE DEF s
    <2>3. Alike(s, [s EXCEPT !.received = TRUE])
      BY <2>2, RowUpdates
    <2>4. Alike(r, [s EXCEPT !.received = TRUE])
      BY <2>1, <2>2, <2>3, AlikeTwice
    <2> QED BY <2>4 DEF q, s
  <1>2. Alike(r, [r EXCEPT !.result = TRUE, !.late = TRUE, !.received = TRUE])
    <2> DEFINE q == [r EXCEPT !.result = TRUE]
    <2> DEFINE s == [q EXCEPT !.late = TRUE]
    <2>1. Alike(r, q) /\ q \in LedgerRow
      BY RowUpdates DEF Alike
    <2> HIDE DEF q
    <2>2. Alike(q, s) /\ s \in LedgerRow
      BY <2>1, RowUpdates DEF Alike
    <2> HIDE DEF s
    <2>3. Alike(s, [s EXCEPT !.received = TRUE])
      BY <2>2, RowUpdates
    <2>4. Alike(r, [s EXCEPT !.received = TRUE])
      BY <2>1, <2>2, <2>3, AlikeTwice
    <2> QED BY <2>4 DEF q, s
  <1> QED BY <1>1, <1>2

AllAlike == \A c \in ShCalls : Alike(shLedger[c], shLedger'[c])

\* A step that changes the row of one call.
LEMMA OneRow ==
  ASSUME Tables, NEW c \in ShCalls, NEW q, Alike(shLedger[c], q),
         shLedger' = [shLedger EXCEPT ![c] = q]
  PROVE  shLedger' \in [ShCalls -> LedgerRow] /\ AllAlike
  BY AlikeSelf DEF Tables, Alike, AllAlike

LEMMA SameLedger ==
  ASSUME Tables, UNCHANGED shLedger
  PROVE  shLedger' \in [ShCalls -> LedgerRow] /\ AllAlike
  BY AlikeSelf DEF Tables, AllAlike

\* delete_worker, a revocation and another device process change many rows.
LEMMA SweptLedger ==
  ASSUME Tables, Revoke \/ DeleteWorker \/ ShNewBoot
  PROVE  shLedger' \in [ShCalls -> LedgerRow] /\ AllAlike
  <1>1. \A c \in ShCalls :
           Alike(shLedger[c], [shLedger[c] EXCEPT !.status = "cancelled"]) /\
           Alike(shLedger[c], [shLedger[c] EXCEPT !.status = "failed"]) /\
           Alike(shLedger[c], shLedger[c])
    BY RowUpdates, AlikeSelf DEF Tables, ShSettled
  <1>2. CASE Revoke \/ DeleteWorker
    <2>1. shLedger' = CancelQueued
      BY <1>2 DEF Revoke, DeleteWorker
    <2>2. \A c \in ShCalls : Alike(shLedger[c], CancelQueued[c])
      BY <1>1 DEF CancelQueued
    <2> QED BY <2>1, <2>2, Zenon DEF CancelQueued, AllAlike, Alike
  <1>3. CASE ShNewBoot
    <2>1. shLedger' = [c \in ShCalls |-> IF shLedger[c].status = "delivered"
                                         THEN [shLedger[c] EXCEPT !.status = "failed"]
                                         ELSE shLedger[c]]
      BY <1>3 DEF ShNewBoot
    <2>2. \A c \in ShCalls : Alike(shLedger[c], shLedger'[c])
      BY <1>1, <2>1
    <2> QED BY <2>1, <2>2, Zenon DEF AllAlike, Alike
  <1> QED BY <1>2, <1>3

\* The steps of one call that leave what starts it and what was told of it.
LEMMA QuietLedger ==
  ASSUME Tables, NEW c \in ShCalls,
         \/ EnqueueIntent(c) \/ ShGiveUp(c) \/ ShCancelCall(c) \/ ShRefuse(c)
         \/ ShReceipt(c) \/ ShResult(c)
  PROVE  shLedger' \in [ShCalls -> LedgerRow] /\ AllAlike
  <1>r. shLedger[c] \in LedgerRow
    BY DEF Tables
  <1>u. \A status \in {"none"} \cup ShPending \cup ShSettled :
           Alike(shLedger[c], [shLedger[c] EXCEPT !.status = status])
    BY <1>r, RowUpdates
  <1>1. CASE EnqueueIntent(c)
    <2>1. \/ UNCHANGED shLedger
          \/ shLedger' = [shLedger EXCEPT ![c] = [shLedger[c] EXCEPT !.status = "queued"]]
      BY <1>1 DEF EnqueueIntent
    <2> QED BY <2>1, <1>u, OneRow, SameLedger DEF ShPending
  <1>2. CASE ShGiveUp(c)
    <2>1. shLedger' = [shLedger EXCEPT ![c] = [shLedger[c] EXCEPT !.status = "failed"]]
      BY <1>2 DEF ShGiveUp
    <2> QED BY <2>1, <1>u, OneRow DEF ShSettled
  <1>3. CASE ShCancelCall(c) \/ ShRefuse(c)
    <2>1. \/ UNCHANGED shLedger
          \/ shLedger' = [shLedger EXCEPT ![c] = [shLedger[c] EXCEPT !.status = "cancelled"]]
      BY <1>3 DEF ShCancelCall, ShRefuse
    <2> QED BY <2>1, <1>u, OneRow, SameLedger DEF ShSettled
  <1>4. CASE ShReceipt(c)
    <2>1. shLedger' = [shLedger EXCEPT ![c] = [shLedger[c] EXCEPT !.received = TRUE]]
      BY <1>4 DEF ShReceipt
    <2> QED BY <2>1, <1>r, RowUpdates, OneRow
  <1>5. CASE ShResult(c)
    <2>1. CASE shLedger[c].status = "delivered"
      <3>1. PICK status \in {"completed", "failed"} :
               shLedger' = [shLedger EXCEPT ![c].status = status, ![c].result = TRUE,
                                            ![c].received = TRUE]
        BY <1>5, <2>1, Zenon DEF ShResult
      <3>2. shLedger' = [shLedger EXCEPT ![c] =
               [shLedger[c] EXCEPT !.status = status, !.result = TRUE, !.received = TRUE]]
        BY <3>1 DEF Tables
      <3>3. Alike(shLedger[c], [shLedger[c] EXCEPT !.status = status, !.result = TRUE,
                                                   !.received = TRUE])
        BY <1>r, ResultUpdates DEF ShSettled
      <3> QED BY <3>2, <3>3, OneRow
    <2>2. CASE shLedger[c].status # "delivered"
      <3>1. shLedger' = [shLedger EXCEPT ![c].result = TRUE, ![c].late = TRUE,
                                         ![c].received = TRUE]
        BY <1>5, <2>2, Zenon DEF ShResult
      <3>2. shLedger' = [shLedger EXCEPT ![c] =
               [shLedger[c] EXCEPT !.result = TRUE, !.late = TRUE, !.received = TRUE]]
        BY <3>1 DEF Tables
      <3>3. Alike(shLedger[c], [shLedger[c] EXCEPT !.result = TRUE, !.late = TRUE,
                                                   !.received = TRUE])
        BY <1>r, ResultUpdates DEF ShSettled
      <3> QED BY <3>2, <3>3, OneRow
    <2> QED BY <2>1, <2>2
  <1> QED BY <1>1, <1>2, <1>3, <1>4, <1>5


\* claim starts a call.
LEMMA ClaimedLedger ==
  ASSUME Tables, NEW c \in ShCalls, ShClaim(c)
  PROVE  /\ shLedger' \in [ShCalls -> LedgerRow]
         /\ \A d \in ShCalls : shLedger'[d].out = shLedger[d].out
         /\ \A d \in ShCalls \ {c} : shLedger'[d] = shLedger[d]
  <1> DEFINE q == [shLedger[c] EXCEPT !.status = "delivered"]
  <1> DEFINE s == [q EXCEPT !.started = TRUE]
  <1>r. shLedger[c] \in LedgerRow
    BY DEF Tables
  <1>1. shLedger' = [shLedger EXCEPT ![c] = s]
    BY DEF ShClaim, Tables
  <1>2. q \in LedgerRow /\ q.out = shLedger[c].out
    BY <1>r, RowUpdates DEF Alike, ShPending
  <1> HIDE DEF q
  <1>3. s \in LedgerRow /\ s.out = shLedger[c].out
    BY <1>2, RowUpdates
  <1> HIDE DEF s
  <1> QED BY <1>1, <1>3 DEF Tables

\* project_output, the acknowledgement: one phase of one call is told.
Told(c, phase) ==
    /\ shLedger'[c].out[phase] =
          IF shThread.status = "deleted" THEN "discarded" ELSE "record"
    /\ \A p \in Phases \ {phase} : shLedger'[c].out[p] = shLedger[c].out[p]

LEMMA ProjectedLedger ==
  ASSUME Tables, NEW c \in ShCalls, NEW phase \in Phases, Project(c, phase)
  PROVE  /\ shLedger' \in [ShCalls -> LedgerRow]
         /\ \A d \in ShCalls : shLedger'[d].started = shLedger[d].started
         /\ \A d \in ShCalls \ {c} : shLedger'[d] = shLedger[d]
         /\ shLedger'[c] = shLedger[c] \/ Told(c, phase)
  <1> DEFINE word == IF shThread.status = "deleted" THEN "discarded" ELSE "record"
  <1> DEFINE q == [shLedger[c] EXCEPT !.out[phase] = word]
  <1>r. shLedger[c] \in LedgerRow /\ word \in Outs
    BY DEF Tables, Outs
  <1>1. UNCHANGED shLedger \/ shLedger' = [shLedger EXCEPT ![c] = q]
    BY DEF Project
  <1> HIDE DEF word
  <1>2. /\ q \in LedgerRow /\ q.started = shLedger[c].started
        /\ q.out[phase] = word
        /\ \A p \in Phases \ {phase} : q.out[p] = shLedger[c].out[p]
    BY <1>r DEF LedgerRow
  <1> HIDE DEF q
  <1>3. CASE UNCHANGED shLedger
    BY <1>3 DEF Tables
  <1>4. CASE shLedger' = [shLedger EXCEPT ![c] = q]
    <2>1. /\ shLedger'[c] = q
          /\ \A d \in ShCalls \ {c} : shLedger'[d] = shLedger[d]
          /\ shLedger' \in [ShCalls -> LedgerRow]
      BY <1>4, <1>2 DEF Tables
    <2> QED BY <2>1, <1>2 DEF Told, word
  <1> QED BY <1>1, <1>3, <1>4

-----------------------------------------------------------------------------
(* The caller's history.                                                   *)

\* Only a turn that answers and the projection of a result write it, and only
\* where nothing is recorded.
LEMMA OneRecord ==
  ASSUME Tables, NEW c \in ShCalls, NEW phase \in Phases, ~Recorded(c, phase),
         Record(c, phase)
  PROVE  /\ shHistory' \in [ShCalls -> Answers]
         /\ shHistory'[c][phase] = 1
         /\ \A d \in ShCalls : \A p \in Phases :
               (d = c /\ p = phase) \/ shHistory'[d][p] = shHistory[d][p]
  <1>1. shHistory[c] \in Answers /\ shHistory[c][phase] = 0
    BY DEF Tables, Answers, Recorded
  <1> DEFINE a == [shHistory[c] EXCEPT ![phase] = 1]
  <1>2. shHistory' = [shHistory EXCEPT ![c] = a]
    BY <1>1 DEF Record, Tables, Answers
  <1>3. a \in Answers /\ a[phase] = 1 /\ \A p \in Phases \ {phase} : a[p] = shHistory[c][p]
    BY <1>1 DEF Answers
  <1> HIDE DEF a
  <1> QED BY <1>2, <1>3 DEF Tables

\* The Thread keeps its form, and stays deleted.
LEMMA ThreadStep ==
  ASSUME Tables, [ShNext]_shVars
  PROVE  /\ shThread' \in [status : {"running", "idle", "deleted"}, input : Nat]
         /\ shThread.status = "deleted" => shThread'.status = "deleted"
  <1>1. CASE NewInput
    BY <1>1 DEF NewInput, Tables
  <1>2. CASE EndRequest
    BY <1>2 DEF EndRequest, Tables
  <1>3. CASE DeleteThread
    BY <1>3 DEF DeleteThread, Tables
  <1>4. CASE UNCHANGED shThread
    BY <1>4 DEF Tables
  <1>5. NewInput \/ EndRequest \/ DeleteThread \/ UNCHANGED shThread
    <2>1. CASE ShareWorker \/ Revoke \/ Rename \/ DeleteWorker \/ RecoverGrant \/ ShNewBoot
      BY <2>1 DEF ShareWorker, Revoke, Rename, DeleteWorker, RecoverGrant, ShNewBoot, callerDb
    <2>2. ASSUME NEW c \in ShCalls,
                 \/ BindIntent(c) \/ EnqueueIntent(c) \/ RefuseIntent(c) \/ LeaveTurn(c)
                 \/ ShObserve(c) \/ ShGiveUp(c) \/ ShCancelCall(c) \/ ShAnswer(c)
                 \/ ShTurnDies(c)
          PROVE  UNCHANGED shThread
      BY <2>2 DEF BindIntent, EnqueueIntent, RefuseIntent, LeaveTurn, ShObserve, ShGiveUp,
                  ShCancelCall, ShAnswer, ShTurnDies, callerDb
    <2>3. ASSUME NEW c \in ShCalls,
                 \/ ShClaim(c) \/ ShRefuse(c) \/ ShReceipt(c) \/ ShResult(c)
                 \/ \E phase \in Phases : Project(c, phase)
          PROVE  UNCHANGED shThread
      BY <2>3 DEF ShClaim, ShRefuse, ShReceipt, ShResult, Project, callerDb
    <2> QED BY <2>1, <2>2, <2>3 DEF ShNext, shVars
  <1> QED BY <1>1, <1>2, <1>3, <1>4, <1>5

-----------------------------------------------------------------------------
(* Every step.                                                             *)

\* A call starts by a claim; its result is told by a projection.
LEMMA LedgerSteps ==
  ASSUME Tables, [ShNext]_shVars
  PROVE  /\ shLedger' \in [ShCalls -> LedgerRow]
         /\ \A c \in ShCalls : shLedger'[c].started # shLedger[c].started => ShClaim(c)
         /\ \A c \in ShCalls : \A phase \in Phases :
               \/ shLedger'[c].out[phase] = shLedger[c].out[phase]
               \/ Project(c, phase) /\ Told(c, phase)
  <1> DEFINE Goal ==
         /\ shLedger' \in [ShCalls -> LedgerRow]
         /\ \A c \in ShCalls : shLedger'[c].started # shLedger[c].started => ShClaim(c)
         /\ \A c \in ShCalls : \A phase \in Phases :
               \/ shLedger'[c].out[phase] = shLedger[c].out[phase]
               \/ Project(c, phase) /\ Told(c, phase)
  <1> SUFFICES Goal
    OBVIOUS
  <1>a. ASSUME shLedger' \in [ShCalls -> LedgerRow], AllAlike PROVE Goal
    <2>1. \A c \in ShCalls : /\ shLedger'[c].started = shLedger[c].started
                             /\ shLedger'[c].out = shLedger[c].out
      BY <1>a, Zenon DEF AllAlike, Alike
    <2> QED BY <1>a, <2>1
  <1>1. CASE \/ ShareWorker \/ Rename \/ RecoverGrant \/ NewInput \/ EndRequest
             \/ DeleteThread \/ UNCHANGED shVars
    <2>1. UNCHANGED shLedger
      BY <1>1 DEF ShareWorker, Rename, RecoverGrant, NewInput, EndRequest, DeleteThread, shVars
    <2> QED BY <2>1, <1>a, SameLedger
  <1>2. CASE Revoke \/ DeleteWorker \/ ShNewBoot
    BY <1>2, <1>a, SweptLedger
  <1>3. ASSUME NEW c \in ShCalls,
               \/ BindIntent(c) \/ RefuseIntent(c) \/ LeaveTurn(c) \/ ShObserve(c)
               \/ ShAnswer(c) \/ ShTurnDies(c)
        PROVE  Goal
    <2>1. UNCHANGED shLedger
      BY <1>3 DEF BindIntent, RefuseIntent, LeaveTurn, ShObserve, ShAnswer, ShTurnDies
    <2> QED BY <2>1, <1>a, SameLedger
  <1>4. ASSUME NEW c \in ShCalls,
               \/ EnqueueIntent(c) \/ ShGiveUp(c) \/ ShCancelCall(c) \/ ShRefuse(c)
               \/ ShReceipt(c) \/ ShResult(c)
        PROVE  Goal
    <2>1. shLedger' \in [ShCalls -> LedgerRow] /\ AllAlike
      BY <1>4, QuietLedger
    <2> QED BY <2>1, <1>a
  <1>5. ASSUME NEW c \in ShCalls, ShClaim(c) PROVE Goal
    BY <1>5, ClaimedLedger
  <1>6. ASSUME NEW c \in ShCalls, NEW phase \in Phases, Project(c, phase) PROVE Goal
    BY <1>6, ProjectedLedger DEF Told
  <1> HIDE DEF Goal
  <1> QED
    <2>1. ASSUME NEW c \in ShCalls,
                 \/ BindIntent(c) \/ EnqueueIntent(c) \/ RefuseIntent(c) \/ LeaveTurn(c)
                 \/ ShObserve(c) \/ ShGiveUp(c) \/ ShCancelCall(c) \/ ShAnswer(c)
                 \/ ShTurnDies(c)
                 \/ ShClaim(c) \/ ShRefuse(c) \/ ShReceipt(c) \/ ShResult(c)
                 \/ \E phase \in Phases : Project(c, phase)
          PROVE  Goal
      BY <2>1, <1>3, <1>4, <1>5, <1>6
    <2> QED BY <1>1, <1>2, <2>1 DEF ShNext

\* Where a record comes from.
Writes(c, phase) ==
    /\ ~Recorded(c, phase)
    /\ shThread.status # "deleted"
    /\ \/ phase = "primary" /\ ShAnswer(c)
       \/ Project(c, phase)

LEMMA HistorySteps ==
  ASSUME Tables, [ShNext]_shVars
  PROVE  /\ shHistory' \in [ShCalls -> Answers]
         /\ \A c \in ShCalls : \A phase \in Phases :
               \/ shHistory'[c][phase] = shHistory[c][phase]
               \/ shHistory'[c][phase] = 1 /\ Writes(c, phase)
  <1> DEFINE Goal ==
         /\ shHistory' \in [ShCalls -> Answers]
         /\ \A c \in ShCalls : \A phase \in Phases :
               \/ shHistory'[c][phase] = shHistory[c][phase]
               \/ shHistory'[c][phase] = 1 /\ Writes(c, phase)
  <1> SUFFICES Goal
    OBVIOUS
  <1>a. ASSUME UNCHANGED shHistory PROVE Goal
    BY <1>a DEF Tables
  <1>b. ASSUME NEW c \in ShCalls, NEW phase \in Phases,
               Writes(c, phase), Record(c, phase)
        PROVE  Goal
    BY <1>b, OneRecord DEF Writes
  <1>1. CASE \/ ShareWorker \/ Revoke \/ Rename \/ DeleteWorker \/ RecoverGrant
             \/ NewInput \/ EndRequest \/ DeleteThread \/ ShNewBoot \/ UNCHANGED shVars
    <2>1. UNCHANGED shHistory
      BY <1>1 DEF ShareWorker, Revoke, Rename, DeleteWorker, RecoverGrant, NewInput,
                  EndRequest, DeleteThread, ShNewBoot, shVars
    <2> QED BY <2>1, <1>a
  <1>2. ASSUME NEW c \in ShCalls,
               \/ BindIntent(c) \/ EnqueueIntent(c) \/ RefuseIntent(c) \/ LeaveTurn(c)
               \/ ShObserve(c) \/ ShGiveUp(c) \/ ShCancelCall(c) \/ ShTurnDies(c)
               \/ ShClaim(c) \/ ShRefuse(c) \/ ShReceipt(c) \/ ShResult(c)
        PROVE  Goal
    <2>1. UNCHANGED shHistory
      BY <1>2 DEF BindIntent, EnqueueIntent, RefuseIntent, LeaveTurn, ShObserve, ShGiveUp,
                  ShCancelCall, ShTurnDies, ShClaim, ShRefuse, ShReceipt, ShResult
    <2> QED BY <2>1, <1>a
  <1>3. ASSUME NEW c \in ShCalls, ShAnswer(c) PROVE Goal
    <2>1. UNCHANGED shHistory \/ (Record(c, "primary") /\ Writes(c, "primary"))
      <3>1. CASE Recorded(c, "primary") \/ shThread.status = "deleted"
        BY <1>3, <3>1, Zenon DEF ShAnswer
      <3>2. CASE ~(Recorded(c, "primary") \/ shThread.status = "deleted")
        BY <1>3, <3>2, Zenon DEF ShAnswer, Writes
      <3> QED BY <3>1, <3>2
    <2>2. "primary" \in Phases
      BY DEF Phases
    <2> HIDE DEF Goal
    <2> QED BY <2>1, <2>2, <1>a, <1>b
  <1>4. ASSUME NEW c \in ShCalls, NEW phase \in Phases, Project(c, phase) PROVE Goal
    <2>1. UNCHANGED shHistory \/ (Record(c, phase) /\ Writes(c, phase))
      <3>1. CASE shThread.status = "deleted" \/ Recorded(c, phase)
        BY <1>4, <3>1, Zenon DEF Project
      <3>2. CASE ~(shThread.status = "deleted" \/ Recorded(c, phase))
        BY <1>4, <3>2, Zenon DEF Project, Writes
      <3> QED BY <3>1, <3>2
    <2> HIDE DEF Goal
    <2> QED BY <2>1, <1>a, <1>b
  <1> HIDE DEF Goal
  <1> QED
    <2>1. ASSUME NEW c \in ShCalls,
                 \/ BindIntent(c) \/ EnqueueIntent(c) \/ RefuseIntent(c) \/ LeaveTurn(c)
                 \/ ShObserve(c) \/ ShGiveUp(c) \/ ShCancelCall(c) \/ ShAnswer(c)
                 \/ ShTurnDies(c)
                 \/ ShClaim(c) \/ ShRefuse(c) \/ ShReceipt(c) \/ ShResult(c)
                 \/ \E phase \in Phases : Project(c, phase)
          PROVE  Goal
      BY <2>1, <1>2, <1>3, <1>4
    <2> QED BY <1>1, <2>1 DEF ShNext

-----------------------------------------------------------------------------
(* The invariant.                                                          *)

LEMMA HistoryInit == ShInit => HistoryInv
  BY DEF ShInit, HistoryInv, Tables, LedgerRow, Answers, Outs, Acknowledged,
         LateAfterAnswer, Recorded, Phases

\* A record is not taken back.
LEMMA RecordsStay ==
  ASSUME Tables, [ShNext]_shVars, NEW c \in ShCalls, NEW phase \in Phases,
         Recorded(c, phase)
  PROVE  Recorded(c, phase)'
  <1>1. \/ shHistory'[c][phase] = shHistory[c][phase]
        \/ shHistory'[c][phase] = 1
    BY HistorySteps
  <1>2. shHistory[c][phase] > 0
    BY DEF Recorded
  <1> QED BY <1>1, <1>2 DEF Recorded

\* The caller's record is there before the owner's ledger says so, and a Thread
\* that made a record superfluous does not come back.
LEMMA AcknowledgedStep ==
  ASSUME Tables, [ShNext]_shVars, NEW c \in ShCalls, NEW phase \in Phases,
         Acknowledged(c, phase)
  PROVE  Acknowledged(c, phase)'
  <1>1. CASE shLedger'[c].out[phase] = shLedger[c].out[phase]
    BY <1>1, RecordsStay, ThreadStep DEF Acknowledged
  <1>2. CASE Project(c, phase) /\ Told(c, phase)
    <2>1. CASE shThread.status = "deleted"
      <3>1. shLedger'[c].out[phase] = "discarded"
        BY <1>2, <2>1 DEF Told
      <3> QED BY <2>1, <3>1, ThreadStep DEF Acknowledged
    <2>2. CASE shThread.status # "deleted"
      <3>1. shLedger'[c].out[phase] = "record"
        BY <1>2, <2>2 DEF Told
      <3>2. Recorded(c, phase)'
        <4>1. CASE Recorded(c, phase)
          BY <4>1, RecordsStay
        <4>2. CASE ~Recorded(c, phase)
          <5>1. Record(c, phase)
            BY <1>2, <2>2, <4>2 DEF Project
          <5>2. shHistory'[c][phase] = 1
            BY <5>1, <4>2, OneRecord
          <5> QED BY <5>2 DEF Recorded
        <4> QED BY <4>1, <4>2
      <3> QED BY <3>1, <3>2 DEF Acknowledged
    <2> QED BY <2>1, <2>2
  <1> QED BY <1>1, <1>2, LedgerSteps

\* A late result is projected once the ledger says the answer was told, which
\* for a Thread that is there means it is in the history.
LEMMA LateStep ==
  ASSUME Tables, [ShNext]_shVars, NEW c \in ShCalls, LateAfterAnswer(c),
         Acknowledged(c, "primary")
  PROVE  LateAfterAnswer(c)'
  <1>p. "primary" \in Phases /\ "late" \in Phases
    BY DEF Phases
  <1> SUFFICES ASSUME ~Recorded(c, "primary") PROVE LateAfterAnswer(c)'
    BY <1>p, RecordsStay DEF LateAfterAnswer
  <1>1. CASE shHistory'[c]["late"] = shHistory[c]["late"]
    BY <1>1 DEF LateAfterAnswer, Recorded
  <1>2. CASE Writes(c, "late")
    <2>1. Project(c, "late") /\ shThread.status # "deleted"
      BY <1>2 DEF Writes
    <2>2. shLedger[c].out["primary"] # "none"
      BY <2>1 DEF Project, Undelivered
    <2>3. shLedger[c].out["primary"] \in Outs
      BY <1>p DEF Tables, LedgerRow
    <2> QED BY <2>1, <2>2, <2>3 DEF Acknowledged, Outs
  <1> QED BY <1>1, <1>2, <1>p, HistorySteps

LEMMA HistoryStep == HistoryInv /\ [ShNext]_shVars => HistoryInv'
  <1> SUFFICES ASSUME HistoryInv, [ShNext]_shVars PROVE HistoryInv'
    OBVIOUS
  <1>1. Tables
    BY DEF HistoryInv
  <1>2. Tables'
    BY <1>1, LedgerSteps, HistorySteps, ThreadStep DEF Tables
  <1>3. ASSUME NEW c \in ShCalls, NEW phase \in Phases PROVE Acknowledged(c, phase)'
    BY <1>1, AcknowledgedStep DEF HistoryInv
  <1>4. ASSUME NEW c \in ShCalls PROVE LateAfterAnswer(c)'
    BY <1>1, LateStep DEF HistoryInv, Phases
  <1> QED BY <1>2, <1>3, <1>4 DEF HistoryInv

-----------------------------------------------------------------------------
(* Theorems.                                                               *)

\* The turn, the result handler and recovery together give a call of the caller's
\* history one answer and at most one late result.
THEOREM OneAnswer == ShSpec => []OneAnswerPerPhase
  <1>1. HistoryInv => OneAnswerPerPhase
    BY DEF HistoryInv, Tables, Answers, OneAnswerPerPhase
  <1> QED BY <1>1, HistoryInit, HistoryStep, PTL DEF ShSpec

\* What the owner's ledger says was told is in the caller's history, and it says
\* so in vain only of a Thread that is gone; a late result never stands there
\* without the answer it is late for (project_output writes the other database
\* first, and deliver looks for the primary phase before the late one).
THEOREM LedgersAgree ==
  ShSpec => [](\A c \in ShCalls :
                  /\ \A phase \in Phases : Acknowledged(c, phase)
                  /\ LateAfterAnswer(c))
  <1>1. HistoryInv => \A c \in ShCalls :
                         /\ \A phase \in Phases : Acknowledged(c, phase)
                         /\ LateAfterAnswer(c)
    BY DEF HistoryInv
  <1> QED BY <1>1, HistoryInit, HistoryStep, PTL DEF ShSpec

\* A call starts only under the cycle of the grant it was made under, for the
\* request its Thread runs, on a Worker that is there: claim is the only step
\* that starts one and reads all of that in the transaction that delivers.
THEOREM StartsAreGranted == ShSpec => StartsUnderItsGrant
  <1> DEFINE Granted ==
        \A c \in ShCalls :
          shLedger'[c].started /\ ~shLedger[c].started
              => /\ ~shGrant.revoked /\ shGrant.cycle = shIntent[c].cycle
                 /\ shThread.status = "running" /\ shThread.input = shIntent[c].input
                 /\ shWorker = "live"
  <1>1. HistoryInv /\ [ShNext]_shVars => [Granted]_shVars
    <2> SUFFICES ASSUME HistoryInv, [ShNext]_shVars, NEW c \in ShCalls,
                        shLedger'[c].started /\ ~shLedger[c].started
                 PROVE  /\ ~shGrant.revoked /\ shGrant.cycle = shIntent[c].cycle
                        /\ shThread.status = "running"
                        /\ shThread.input = shIntent[c].input
                        /\ shWorker = "live"
      OBVIOUS
    <2>1. Tables
      BY DEF HistoryInv
    <2>2. ShClaim(c)
      BY <2>1, LedgerSteps
    <2> QED BY <2>2 DEF ShClaim, GateOpen, GrantActive, ShCurrent
  <1> QED BY <1>1, HistoryInit, HistoryStep, PTL DEF ShSpec, StartsUnderItsGrant

-----------------------------------------------------------------------------
(* The types with their bounds, which the argument above did without.      *)

ShGrantRow == [cycle : Revisions, revoked : BOOLEAN, revision : Revisions, synced : Revisions]
ShSeenRow == [cycle : Revisions, revoked : BOOLEAN, revision : Revisions]
ShIntentRow == [bound : {"none", "refused", "shared"}, cycle : Revisions, input : ShInputs]
ShThreadRow == [status : {"running", "idle", "deleted"}, input : ShInputs]
TurnStates == {"off", "enqueue", "wait", "answer"}

\* A cycle begins with a revision of its own, so that the bound of the
\* revisions is one of the cycles.
CycleInv == shGrant.cycle <= shGrant.revision

ShBounded ==
    /\ shGrant \in ShGrantRow /\ CycleInv
    /\ shWorker \in {"live", "deleted"}
    /\ shSeen \in ShSeenRow
    /\ shThread \in ShThreadRow
    /\ shIntent \in [ShCalls -> ShIntentRow]
    /\ shTurn \in [ShCalls -> TurnStates]
    /\ shFaults \in 0..MaxShFaults

ShTypeInv == HistoryInv /\ ShBounded

\* The rows a step can leave.
LEMMA ShRows ==
  /\ 0 \in Revisions /\ 0 \in ShInputs
  /\ \A n \in Revisions : n < MaxRevisions => n + 1 \in Revisions
  /\ \A n \in ShInputs : n < MaxInputs => n + 1 \in ShInputs
  /\ \A n \in 0..MaxShFaults : n < MaxShFaults => n + 1 \in 0..MaxShFaults
  BY SharedCallsAssumption DEF Revisions, ShInputs

LEMMA ShBoundedInit == ShInit => ShBounded
  BY ShRows, SharedCallsAssumption
  DEF ShInit, ShBounded, ShGrantRow, ShSeenRow, ShThreadRow, ShIntentRow, TurnStates,
      CycleInv, Revisions

\* sync_grants leaves a row of the grant and of the caller's view.
LEMMA SyncTypes ==
  ASSUME NEW g \in ShGrantRow, g.cycle <= g.revision, shSeen \in ShSeenRow, SyncGrant(g)
  PROVE  shGrant' \in ShGrantRow /\ CycleInv' /\ shSeen' \in ShSeenRow
  <1>1. Projected(shSeen, g) \in ShSeenRow
    BY DEF Projected, ShGrantRow, ShSeenRow
  <1>2. shSeen' \in ShSeenRow
    BY <1>1 DEF SyncGrant
  <1>3. shGrant' = g \/ shGrant' = [g EXCEPT !.synced = g.revision]
    BY DEF SyncGrant
  <1>4. shGrant' \in ShGrantRow /\ shGrant'.cycle = g.cycle /\ shGrant'.revision = g.revision
    BY <1>3 DEF ShGrantRow
  <1> QED BY <1>2, <1>4 DEF CycleInv

\* The grants the steps of the owner sync.
LEMMA GrantRows ==
  ASSUME NEW g \in ShGrantRow, g.cycle <= g.revision, g.revision < MaxRevisions
  PROVE  /\ [g EXCEPT !.cycle = @ + 1, !.revoked = FALSE, !.revision = @ + 1] \in ShGrantRow
         /\ [g EXCEPT !.cycle = @ + 1, !.revoked = FALSE, !.revision = @ + 1].cycle
              <= [g EXCEPT !.cycle = @ + 1, !.revoked = FALSE, !.revision = @ + 1].revision
         /\ [g EXCEPT !.revoked = TRUE, !.revision = @ + 1] \in ShGrantRow
         /\ [g EXCEPT !.revoked = TRUE, !.revision = @ + 1].cycle
              <= [g EXCEPT !.revoked = TRUE, !.revision = @ + 1].revision
         /\ [g EXCEPT !.revision = @ + 1] \in ShGrantRow
         /\ [g EXCEPT !.revision = @ + 1].cycle <= [g EXCEPT !.revision = @ + 1].revision
  <1> DEFINE n == g.cycle + 1
             m == g.revision + 1
             shared == [g EXCEPT !.cycle = n, !.revoked = FALSE, !.revision = m]
             revoked == [g EXCEPT !.revoked = TRUE, !.revision = m]
             renamed == [g EXCEPT !.revision = m]
  <1>1. /\ n \in Revisions /\ m \in Revisions /\ n <= m /\ g.cycle <= m
    BY SharedCallsAssumption DEF ShGrantRow, Revisions
  <1> HIDE DEF n, m
  <1>2. shared \in ShGrantRow /\ shared.cycle = n /\ shared.revision = m
    BY <1>1 DEF ShGrantRow
  <1>3. revoked \in ShGrantRow /\ revoked.cycle = g.cycle /\ revoked.revision = m
    BY <1>1 DEF ShGrantRow
  <1>4. renamed \in ShGrantRow /\ renamed.cycle = g.cycle /\ renamed.revision = m
    BY <1>1 DEF ShGrantRow
  <1>5. shared.cycle <= shared.revision /\ revoked.cycle <= revoked.revision
        /\ renamed.cycle <= renamed.revision
    BY <1>1, <1>2, <1>3, <1>4
  <1> QED BY <1>2, <1>3, <1>4, <1>5 DEF n, m

\* The owner's half.
LEMMA OwnerTypes ==
  ASSUME ShBounded, [ShNext]_shVars
  PROVE  /\ shGrant' \in ShGrantRow /\ CycleInv'
         /\ shWorker' \in {"live", "deleted"}
         /\ shSeen' \in ShSeenRow
  <1>g. /\ shGrant \in ShGrantRow /\ shGrant.cycle <= shGrant.revision
        /\ shSeen \in ShSeenRow /\ shWorker \in {"live", "deleted"}
    BY DEF ShBounded, CycleInv
  <1>1. CASE ShareWorker
    BY <1>g, <1>1, SyncTypes, GrantRows DEF ShareWorker
  <1>2. CASE Revoke
    BY <1>g, <1>2, SyncTypes, GrantRows DEF Revoke
  <1>3. CASE Rename
    <2>1. shGrant.revision < MaxRevisions
      BY <1>3, SharedCallsAssumption DEF Rename
    <2> QED BY <1>g, <1>3, <2>1, SyncTypes, GrantRows DEF Rename
  <1>4. CASE DeleteWorker
    <2>1. shGrant.revision < MaxRevisions
      BY <1>4, SharedCallsAssumption DEF DeleteWorker
    <2> QED BY <1>g, <1>4, <2>1, SyncTypes, GrantRows DEF DeleteWorker
  <1>5. CASE RecoverGrant
    BY <1>g, <1>5, SyncTypes DEF RecoverGrant
  <1>6. CASE UNCHANGED <<owner, shSeen>>
    BY <1>g, <1>6 DEF owner, CycleInv
  <1>7. CASE NewInput \/ EndRequest \/ DeleteThread \/ ShNewBoot
    BY <1>6, <1>7 DEF NewInput, EndRequest, DeleteThread, ShNewBoot
  <1>8. ASSUME NEW c \in ShCalls,
               \/ BindIntent(c) \/ EnqueueIntent(c) \/ RefuseIntent(c) \/ LeaveTurn(c)
               \/ ShObserve(c) \/ ShGiveUp(c) \/ ShCancelCall(c) \/ ShAnswer(c)
               \/ ShTurnDies(c)
               \/ ShClaim(c) \/ ShRefuse(c) \/ ShReceipt(c) \/ ShResult(c)
               \/ \E phase \in Phases : Project(c, phase)
        PROVE  UNCHANGED <<owner, shSeen>>
    BY <1>8 DEF BindIntent, EnqueueIntent, RefuseIntent, LeaveTurn, ShObserve, ShGiveUp,
                ShCancelCall, ShAnswer, ShTurnDies, ShClaim, ShRefuse, ShReceipt, ShResult,
                Project
  <1>9. UNCHANGED shVars => UNCHANGED <<owner, shSeen>>
    BY DEF shVars, owner
  <1> QED BY <1>1, <1>2, <1>3, <1>4, <1>5, <1>6, <1>7, <1>8, <1>9, Zenon DEF ShNext

\* The caller's half.
LEMMA CallerTypes ==
  ASSUME ShBounded, [ShNext]_shVars
  PROVE  /\ shThread' \in ShThreadRow
         /\ shIntent' \in [ShCalls -> ShIntentRow]
         /\ shTurn' \in [ShCalls -> TurnStates]
         /\ shFaults' \in 0..MaxShFaults
  <1> DEFINE T == shThread' \in ShThreadRow
             I == shIntent' \in [ShCalls -> ShIntentRow]
             U == shTurn' \in [ShCalls -> TurnStates]
             F == shFaults' \in 0..MaxShFaults
  <1>t. /\ shThread' = shThread => T
        /\ shIntent' = shIntent => I
        /\ shTurn' = shTurn => U
        /\ shFaults' = shFaults => F
        /\ ShFault => F
    BY ShRows DEF ShBounded, ShFault
  <1>u. \A c \in ShCalls, s \in TurnStates : [shTurn EXCEPT ![c] = s] \in [ShCalls -> TurnStates]
    BY DEF ShBounded
  <1>0. shThread \in ShThreadRow /\ shThread.input \in ShInputs
    BY DEF ShBounded, ShThreadRow
  <1>1. CASE NewInput
    <2>1. T
      BY <1>0, <1>1, ShRows DEF NewInput, ShThreadRow
    <2> QED BY <1>1, <1>t, <2>1 DEF NewInput
  <1>2. CASE EndRequest \/ DeleteThread
    <2>1. T
      BY <1>0, <1>2 DEF EndRequest, DeleteThread, ShThreadRow
    <2> QED BY <1>2, <1>t, <2>1 DEF EndRequest, DeleteThread
  <1>3. CASE ShNewBoot
    BY <1>3, <1>t DEF ShNewBoot, callerDb
  <1>4. ASSUME NEW c \in ShCalls, BindIntent(c) PROVE T /\ I /\ U /\ F
    <2>1. \A row \in ShIntentRow : [shIntent EXCEPT ![c] = row] \in [ShCalls -> ShIntentRow]
      BY DEF ShBounded
    <2>2. /\ [bound |-> "shared", cycle |-> shSeen.cycle, input |-> shThread.input] \in ShIntentRow
          /\ [bound |-> "refused", cycle |-> 0, input |-> shThread.input] \in ShIntentRow
      BY <1>0, ShRows DEF ShBounded, ShSeenRow, ShIntentRow
    <2>3. I
      BY <1>4, <2>1, <2>2 DEF BindIntent
    <2>4. U
      BY <1>4, <1>u DEF BindIntent, TurnStates
    <2> QED BY <1>4, <1>t, <2>3, <2>4 DEF BindIntent
  <1>5. ASSUME NEW c \in ShCalls,
               \/ EnqueueIntent(c) \/ RefuseIntent(c) \/ LeaveTurn(c)
               \/ ShObserve(c) \/ ShGiveUp(c) \/ ShCancelCall(c) \/ ShAnswer(c)
        PROVE  T /\ I /\ U /\ F
    <2>1. shTurn' = shTurn \/ \E s \in TurnStates : shTurn' = [shTurn EXCEPT ![c] = s]
      BY <1>5 DEF EnqueueIntent, RefuseIntent, LeaveTurn, ShObserve, ShGiveUp,
                  ShCancelCall, ShAnswer, TurnStates
    <2>2. U
      BY <1>t, <1>u, <2>1
    <2>3. UNCHANGED <<shThread, shIntent, shFaults>>
      BY <1>5 DEF EnqueueIntent, RefuseIntent, LeaveTurn, ShObserve, ShGiveUp,
                  ShCancelCall, ShAnswer, callerDb
    <2> QED BY <1>t, <2>2, <2>3
  <1>6. ASSUME NEW c \in ShCalls, ShTurnDies(c) PROVE T /\ I /\ U /\ F
    <2>1. \E s \in TurnStates : shTurn' = [shTurn EXCEPT ![c] = s]
      BY <1>6 DEF ShTurnDies, TurnStates
    <2> QED BY <1>6, <1>t, <1>u, <2>1 DEF ShTurnDies, callerDb
  <1>7. ASSUME UNCHANGED <<callerDb, shTurn, shFaults>> PROVE T /\ I /\ U /\ F
    BY <1>7, <1>t DEF callerDb
  <1>8. CASE ShareWorker \/ Revoke \/ Rename \/ DeleteWorker \/ RecoverGrant
    BY <1>7, <1>8 DEF ShareWorker, Revoke, Rename, DeleteWorker, RecoverGrant
  <1>9. ASSUME NEW c \in ShCalls,
               \/ ShClaim(c) \/ ShRefuse(c) \/ ShReceipt(c) \/ ShResult(c)
               \/ \E phase \in Phases : Project(c, phase)
        PROVE  T /\ I /\ U /\ F
    BY <1>7, <1>9 DEF ShClaim, ShRefuse, ShReceipt, ShResult, Project
  <1>10. CASE UNCHANGED shVars
    BY <1>7, <1>10 DEF shVars, callerDb
  <1> HIDE DEF T, I, U, F
  <1>11. T /\ I /\ U /\ F
    BY <1>1, <1>2, <1>3, <1>4, <1>5, <1>6, <1>8, <1>9, <1>10, Zenon DEF ShNext, T, I, U, F
  <1> QED BY <1>11 DEF T, I, U, F

LEMMA ShTypeInit == ShInit => ShTypeInv
  BY HistoryInit, ShBoundedInit DEF ShTypeInv

LEMMA ShTypeStep == ShTypeInv /\ [ShNext]_shVars => ShTypeInv'
  <1> SUFFICES ASSUME HistoryInv, ShBounded, [ShNext]_shVars PROVE HistoryInv' /\ ShBounded'
    BY DEF ShTypeInv
  <1> QED BY HistoryStep, OwnerTypes, CallerTypes DEF ShBounded

LEMMA ShTypes == ShTypeInv => ShTypeOK
  <1> SUFFICES ASSUME ShTypeInv PROVE ShTypeOK
    OBVIOUS
  <1>1. shHistory \in [ShCalls -> [Phases -> 0..2]]
    BY DEF ShTypeInv, HistoryInv, Tables, Answers
  <1>2. shLedger \in [ShCalls -> LedgerRow]
    BY DEF ShTypeInv, HistoryInv, Tables
  <1> QED
    BY <1>1, <1>2
    DEF ShTypeInv, ShBounded, ShTypeOK, ShGrantRow, ShSeenRow, ShThreadRow, ShIntentRow,
        TurnStates, LedgerRow, Outs

=============================================================================
