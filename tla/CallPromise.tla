----------------------------- MODULE CallPromise -----------------------------
(***************************************************************************)
(* What the Controller promises about the Worker calls of a turn,          *)
(* whatever happens to connections, processes and requests:                *)
(*   - a call is dispatched only while its request is the newest one, and  *)
(*     a settled call is never dispatched again;                           *)
(*   - it runs at most once, and only if it was dispatched;                *)
(*   - it is answered at most once, when it is settled, and the answer     *)
(*     enters the model's history only if the request is still the newest. *)
(***************************************************************************)
EXTENDS Naturals

CONSTANT Calls

VARIABLE promise

Phases == {"none", "waiting", "sent", "settled"}

State ==
    [phase      : Phases,
     dispatched : BOOLEAN,
     stale      : BOOLEAN,                     \* a newer boundary exists
     runs       : Nat,                         \* executions on a device
     answer     : {"none", "output", "activity"}]

Fresh == [phase |-> "none", dispatched |-> FALSE, stale |-> FALSE,
          runs |-> 0, answer |-> "none"]

Init == promise = [c \in Calls |-> Fresh]

Onward == {<<"none", "waiting">>, <<"waiting", "sent">>,
           <<"waiting", "settled">>, <<"sent", "settled">>}

\* What one step may do to one call.
Moves(a, b) ==
    /\ b.phase # a.phase =>
          /\ <<a.phase, b.phase>> \in Onward
          /\ b.phase \in {"waiting", "sent"} => ~a.stale
    /\ b.dispatched = (a.dispatched \/ b.phase = "sent")
    /\ a.stale => b.stale
    /\ b.runs # a.runs => a.dispatched /\ a.runs = 0 /\ b.runs = 1
    /\ b.answer # a.answer =>
          /\ a.answer = "none"
          /\ b.phase = "settled"
          /\ b.answer = IF a.stale THEN "activity" ELSE "output"

Next ==
    /\ promise' \in [Calls -> State]
    /\ \A c \in Calls : Moves(promise[c], promise'[c])

Spec == Init /\ [][Next]_promise

=============================================================================
