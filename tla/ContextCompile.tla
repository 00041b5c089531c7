--------------------------- MODULE ContextCompile ---------------------------
(***************************************************************************)
(* What one Thread sends upstream (src/cloud.rs, src/cloud/recovery.rs,    *)
(* src/cloud/manual_loads.rs): the range of its history an attempt         *)
(* compiles, the barrier a model switch leaves in it, the copies of the    *)
(* Manuals it keeps loaded, and the clean-up of the request copy.          *)
(*                                                                         *)
(* One operation on the User's database is one step.  A record is its      *)
(* kind, the target whose envelope it carries, and what it is about: the   *)
(* call of a call and its output, the Manual and its fingerprint.  Which   *)
(* boundary owns the history is ThreadRun's subject: here a new input      *)
(* simply takes the turn over.                                             *)
(***************************************************************************)
EXTENDS Integers, FiniteSets, Sequences, SequencesExt

CONSTANTS Models, Ups,   \* models and upstreams: a target is a pair of them
          CallIds,       \* the call ids upstreams choose
          Manuals, LoadCap,   \* the Manuals, and loaded_manual_cap
          MaxHistory,   \* bound: the records of the Thread
          MaxEvents     \* bound: switches, edits, titles and restarts together

ASSUME ContextAssumption == IsFiniteSet(Manuals) /\ MaxEvents \in Nat

ReplayTargets == Models \X Ups
NoTarget == <<>>                  \* no target: nothing sealed, nothing audited

VARIABLES
  ccHist,    \* the protocol records of history_records, in order
  ccTarget,  \* threads.model and threads.upstream_id
  ccAudit,   \* the target of the newest row of reasoning_audits
  bound,     \* thread_manual_loads
  manual,    \* manuals: the fingerprint and whether the Manual resolves
  turn,      \* process_request, if one runs
  title,     \* the target of the title request that runs, if one does
  ccMasked,  \* history: how the barrier's check came to miss a switch
  ccEvents

ccVars == <<ccHist, ccTarget, ccAudit, bound, manual, turn, title, ccMasked,
            ccEvents>>

Plain(kind) == [kind |-> kind, sealed |-> NoTarget, of |-> "none", print |-> 0]
Sealed(kind, of) == [Plain(kind) EXCEPT !.sealed = turn.to, !.of = of]
About(kind, of, print) == [Plain(kind) EXCEPT !.of = of, !.print = print]

NoTurn == [stage |-> "none", to |-> NoTarget, head |-> 0, tail |-> 0,
           seen |-> [m \in Manuals |-> 0]]

CcInit ==
  /\ ccHist = <<Plain("input")>>
  /\ ccTarget \in ReplayTargets
  /\ ccAudit = NoTarget
  /\ bound \in SUBSET Manuals
  /\ manual = [m \in Manuals |-> [print |-> 1, resolves |-> TRUE]]
  /\ turn = [NoTurn EXCEPT !.stage = "start"]
  /\ title = NoTarget
  /\ ccMasked = {}
  /\ ccEvents = 0

MaybeTarget == ReplayTargets \union {NoTarget}

HistoryRecord ==
  [kind : {"input", "reasoning", "message", "call", "output", "switch", "loaded",
           "unloaded", "checkpoint"},
   sealed : MaybeTarget, of : {"none", "text", "bare"} \union CallIds \union Manuals,
   print : Nat]
TurnState ==
  [stage : {"none", "start", "read", "compile", "send", "stream", "compact", "order",
            "manual"},
   to : MaybeTarget, head : Nat, tail : Nat, seen : [Manuals -> Nat]]

CcTypeOK ==
  /\ ccHist \in Seq(HistoryRecord)
  /\ ccTarget \in ReplayTargets /\ ccAudit \in MaybeTarget /\ title \in MaybeTarget
  /\ bound \subseteq Manuals
  /\ manual \in [Manuals -> [print : Nat, resolves : BOOLEAN]]
  /\ turn \in TurnState
  /\ ccMasked \subseteq {"race", "unbarred"}
  /\ ccEvents \in 0..MaxEvents

Event == ccEvents < MaxEvents /\ ccEvents' = ccEvents + 1
Room(n) == Len(ccHist) + n <= MaxHistory

----------------------------------------------------------------------------
(* The compiled range *)

\* context_idx_head: the newest checkpoint, or the first record.
IdxHead ==
  LET cuts == {i \in DOMAIN ccHist : ccHist[i].kind = "checkpoint"}
  IN  IF cuts = {} THEN 1 ELSE CHOOSE i \in cuts : \A j \in cuts : j <= i

\* Another model, or another upstream of the same model.
ReplayTargetChanged(from, to) == from # to

\* ensure_model_switch_barrier: does the newest audit, of whatever kind, tell
\* of another target than the Thread's?
NeedsBarrier == ccAudit # NoTarget /\ ReplayTargetChanged(ccAudit, ccTarget)

\* injections: the newest notice about a Manual in the range.
NoticesAnywhere(h, m) ==
  {i \in DOMAIN h : h[i].kind \in {"loaded", "unloaded"} /\ h[i].of = m}
Notices(h, m) == {i \in NoticesAnywhere(h, m) : i >= IdxHead}
Newest(h, m) == CHOOSE i \in Notices(h, m) : \A j \in Notices(h, m) : j <= i
Holds(h, m) == Notices(h, m) # {} /\ h[Newest(h, m)].kind = "loaded"

\* append_injections: a copy for a loaded Manual the range does not hold as it
\* is now, a notice for a copy of one that was released or stopped resolving.
IsHeld(m) == m \in bound /\ manual[m].resolves
Injected(m) == IF IsHeld(m) THEN About("loaded", m, manual[m].print)
               ELSE About("unloaded", m, 0)
Due == {m \in Manuals :
          IF IsHeld(m) THEN ~Holds(ccHist, m)
                            \/ ccHist[Newest(ccHist, m)].print # manual[m].print
          ELSE Holds(ccHist, m)}

Injections == LET order == SetToSeq(Due)
              IN  [i \in DOMAIN order |-> Injected(order[i])]

----------------------------------------------------------------------------
(* The request copy: the records of the range that are sent, each at its     *)
(* place in the history, and the order in which they are sent.               *)

\* Mutant: reasoning keeps its envelope.
KeepsReasoning(r) == IF r.kind = "reasoning" THEN r ELSE [r EXCEPT !.sealed = NoTarget]

\* Without its envelope a reasoning item is its text, if it has any.
WithoutEnvelope(r) == [r EXCEPT !.sealed = NoTarget]
Portable(r) == ~(r.kind = "reasoning" /\ r.of = "bare")

Barriers(items) == {i \in DOMAIN items : items[i].kind = "switch"}

\* strip_foreign_envelopes: whatever precedes the newest barrier.
Strip(items) ==
  LET foreign(i) == \E b \in Barriers(items) : i < b
      left == {i \in DOMAIN items \ Barriers(items) : foreign(i) => Portable(items[i])}
  IN  [i \in left |-> IF foreign(i) THEN WithoutEnvelope(items[i]) ELSE items[i]]

\* replayable_context_items: exactly one call and one later output of an id.
OfCall(items, kind, id) == {i \in DOMAIN items : items[i].kind = kind /\ items[i].of = id}
Paired(items) ==
  LET keep(r) == r.kind \in {"call", "output"} =>
                   \E c, o \in DOMAIN items :
                      /\ c < o
                      /\ OfCall(items, "call", r.of) = {c}
                      /\ OfCall(items, "output", r.of) = {o}
      kept == {i \in DOMAIN items : keep(items[i])}
  IN  [i \in kept |-> items[i]]

ReplayableContextItems(items) == Paired(Strip(items))

\* flush_tool_turn: what is neither call nor output, the calls, the outputs.
FlushInOrder(r) == 0
FlushToolTurn(r) == CASE r.kind = "call" -> 1 [] r.kind = "output" -> 2 [] OTHER -> 0

\* regroup_tool_calls: a reasoning item starts a turn, any item that is not
\* the assistant's ends it.
TurnKinds == {"reasoning", "message", "call", "output"}
BreaksTurn(r) == r.kind \notin TurnKinds \ {"reasoning"}
SameTurn(items, i, j) == \A b \in DOMAIN items : i < b /\ b <= j => ~BreaksTurn(items[b])

\* Is the item at i sent before the one at j?
Precedes(items, i, j) ==
  LET of == FlushToolTurn(items[i])  than == FlushToolTurn(items[j])
  IN  \/ i < j /\ (SameTurn(items, i, j) => of <= than)
      \/ j < i /\ SameTurn(items, j, i) /\ of < than

\* The input of the request in flight: history is only ever appended to, so
\* its range tells it.
Compiled == [i \in turn.head..turn.tail |-> ccHist[i]]
Sent == IF turn.stage = "stream" THEN ReplayableContextItems(Compiled) ELSE <<>>

----------------------------------------------------------------------------
(* The User: settings, Manuals, input *)

SwitchTarget(t) ==
  /\ t # ccTarget /\ Event
  /\ ccTarget' = t
  /\ UNCHANGED <<ccHist, ccAudit, bound, manual, turn, title, ccMasked>>

EditManual(m) ==
  /\ Event
  /\ manual' = [manual EXCEPT ![m].print = @ + 1]
  /\ UNCHANGED <<ccHist, ccTarget, ccAudit, bound, turn, title, ccMasked>>

\* Trashed, one of its ancestors trashed, or deleted; restored.
HideManual(m) ==
  /\ Event
  /\ manual' = [manual EXCEPT ![m].resolves = ~@]
  /\ UNCHANGED <<ccHist, ccTarget, ccAudit, bound, turn, title, ccMasked>>

\* An input supersedes the request of the turn that runs and starts its own.
NewInput ==
  /\ Room(1)
  /\ ccHist' = Append(ccHist, Plain("input"))
  /\ turn' = [NoTurn EXCEPT !.stage = "start"]
  /\ UNCHANGED <<ccTarget, ccAudit, bound, manual, title, ccMasked,
                 ccEvents>>

----------------------------------------------------------------------------
(* The turn: process_request and request_agent *)

\* The upstream is loaded once, when the turn starts.
LoadTurn ==
  /\ turn.stage = "start"
  /\ turn' = [turn EXCEPT !.stage = "read", !.to = ccTarget]
  /\ UNCHANGED <<ccHist, ccTarget, ccAudit, bound, manual, title, ccMasked,
                 ccEvents>>

Inputs == {i \in DOMAIN ccHist : ccHist[i].kind = "input"}
Open(i) == /\ ccHist[i].kind = "call"
           /\ \A j \in Inputs : j < i
           /\ \A j \in DOMAIN ccHist : j > i =>
                ~(ccHist[j].kind = "output" /\ ccHist[j].of = ccHist[i].of)
OpenCalls == {i \in DOMAIN ccHist : Open(i)}

\* Once the calls are settled the Thread is read, and with it the model.
ReadThread ==
  /\ turn.stage = "read" /\ OpenCalls = {}
  /\ turn' = [turn EXCEPT !.stage = "compile", !.to[1] = ccTarget[1]]
  /\ UNCHANGED <<ccHist, ccTarget, ccAudit, bound, manual, title, ccMasked,
                 ccEvents>>

\* current_context: the barrier, the Manuals, the range up to the newest.
CurrentContext ==
  /\ turn.stage = "compile"
  /\ LET barrier == IF NeedsBarrier THEN <<Plain("switch")>> ELSE <<>>
         all == ccHist \o barrier \o Injections
     IN  /\ Room(Len(barrier \o Injections))
         /\ ccHist' = all
         /\ turn' = [turn EXCEPT !.stage = "send", !.head = IdxHead,
                       !.tail = Len(all),
                       !.seen = [m \in Manuals |->
                                   IF m \in bound /\ manual[m].resolves
                                   THEN manual[m].print ELSE 0]]
  /\ bound' = {m \in bound : manual[m].resolves}
  /\ ccMasked' = IF turn.to \in {ccTarget, ccAudit} THEN ccMasked
                 ELSE ccMasked \union {"race"}
  /\ UNCHANGED <<ccTarget, ccAudit, manual, title, ccEvents>>

\* begin_reasoning_audit, then the request goes out.
SendInference ==
  /\ turn.stage = "send"
  /\ ccAudit' = turn.to
  /\ turn' = [turn EXCEPT !.stage = "stream"]
  /\ UNCHANGED <<ccHist, ccTarget, bound, manual, title, ccMasked,
                 ccEvents>>

RecordedIds == {ccHist[i].of : i \in {j \in DOMAIN ccHist :
                  /\ ccHist[j].kind = "call"
                  /\ \A b \in Inputs : b < j}}

\* The response's items become records as they are complete; a call id that the
\* request has used already is not recorded again.
RecordItem ==
  /\ turn.stage = "stream" /\ Room(1)
  /\ \/ \E text \in {"text", "bare"} :
          ccHist' = Append(ccHist, Sealed("reasoning", text))
     \/ ccHist' = Append(ccHist, Plain("message"))
     \/ \E id \in CallIds \ RecordedIds :
          ccHist' = Append(ccHist, Sealed("call", id))
  /\ UNCHANGED <<ccTarget, ccAudit, bound, manual, turn, title, ccMasked,
                 ccEvents>>

\* A tool answers while the response still streams, or after it.
AnswerCall ==
  /\ turn.stage \in {"read", "stream"} /\ Room(1)
  /\ \E i \in OpenCalls :
       ccHist' = Append(ccHist, About("output", ccHist[i].of, 0))
  /\ UNCHANGED <<ccTarget, ccAudit, bound, manual, turn, title, ccMasked,
                 ccEvents>>

\* load_manual and unload_manual change the rows before they answer.
LoadManual(m) ==
  /\ turn.stage \in {"read", "stream"} /\ OpenCalls # {}
  /\ manual[m].resolves /\ m \notin bound /\ Cardinality(bound) < LoadCap
  /\ bound' = bound \union {m}
  /\ UNCHANGED <<ccHist, ccTarget, ccAudit, manual, turn, title, ccMasked,
                 ccEvents>>

UnloadManual(m) ==
  /\ turn.stage \in {"read", "stream"} /\ OpenCalls # {} /\ m \in bound
  /\ bound' = bound \ {m}
  /\ UNCHANGED <<ccHist, ccTarget, ccAudit, manual, turn, title, ccMasked,
                 ccEvents>>

\* The response ended, or failed for a while: the next attempt.
NextAttempt ==
  /\ turn.stage = "stream"
  /\ turn' = [NoTurn EXCEPT !.stage = "read", !.to = turn.to]
  /\ UNCHANGED <<ccHist, ccTarget, ccAudit, bound, manual, title, ccMasked,
                 ccEvents>>

\* It ended the turn, or failed for good, as a summary may.
EndTurn ==
  /\ turn.stage \in {"stream", "compact", "manual"}
  /\ turn' = NoTurn
  /\ UNCHANGED <<ccHist, ccTarget, ccAudit, bound, manual, title, ccMasked,
                 ccEvents>>

\* The estimate exceeds the budget, or the upstream says the request is too
\* long: the range is summarised, by a request that is audited too.
Compact ==
  /\ turn.stage = "send" \/ (turn.stage = "stream" /\ Len(ccHist) = turn.tail)
  /\ ccAudit' = turn.to
  /\ turn' = [turn EXCEPT !.stage = "compact"]
  /\ UNCHANGED <<ccHist, ccTarget, bound, manual, title, ccMasked,
                 ccEvents>>

\* A request without a barrier of its own takes the newest audit: the next
\* barrier compares with it.
Unbarred(to) ==
  ccMasked' = IF ccAudit \in {NoTarget, to} THEN ccMasked
              ELSE ccMasked \union {"unbarred"}

\* compact: the User asks for a summary while nothing runs.
OrderSummary ==
  /\ turn.stage = "none"
  /\ turn' = [NoTurn EXCEPT !.stage = "order"]
  /\ UNCHANGED <<ccHist, ccTarget, ccAudit, bound, manual, title, ccMasked,
                 ccEvents>>

\* compact_request: the range as it is, without a barrier.
ManualCompact ==
  /\ turn.stage = "order"
  /\ turn' = [NoTurn EXCEPT !.stage = "manual", !.to = ccTarget,
                            !.tail = Len(ccHist)]
  /\ ccAudit' = ccTarget
  /\ Unbarred(ccTarget)
  /\ UNCHANGED <<ccHist, ccTarget, bound, manual, title, ccEvents>>

\* persist_thread_checkpoint: only where the compacted range still ends.
WriteCheckpoint ==
  /\ turn.stage \in {"compact", "manual"} /\ Room(1)
  /\ Len(ccHist) = turn.tail
  /\ ccHist' = Append(ccHist, Plain("checkpoint"))
  /\ turn' = IF turn.stage = "manual" THEN NoTurn
             ELSE [NoTurn EXCEPT !.stage = "read", !.to = turn.to]
  /\ UNCHANGED <<ccTarget, ccAudit, bound, manual, title, ccMasked,
                 ccEvents>>

\* The process starts again, and with it the turn of a running Thread.
Restart ==
  /\ Event
  /\ turn' = [NoTurn EXCEPT !.stage =
                CASE turn.stage = "none" -> "none"
                  [] turn.stage \in {"order", "manual"} -> "order"
                  [] OTHER -> "start"]
  /\ title' = NoTarget
  /\ UNCHANGED <<ccHist, ccTarget, ccAudit, bound, manual, ccMasked>>

----------------------------------------------------------------------------
(* generate_thread_title_for: the same range, without barrier or Manuals *)

TitleRead ==
  /\ title = NoTarget /\ Event
  /\ title' = ccTarget
  /\ UNCHANGED <<ccHist, ccTarget, ccAudit, bound, manual, turn, ccMasked>>

\* Compiling changes nothing; sending writes the audit.
TitleSend ==
  /\ title # NoTarget
  /\ ccAudit' = title
  /\ Unbarred(title)
  /\ title' = NoTarget
  /\ UNCHANGED <<ccHist, ccTarget, bound, manual, turn, ccEvents>>

Turn == LoadTurn \/ ReadThread \/ CurrentContext \/ SendInference \/ RecordItem
        \/ AnswerCall \/ NextAttempt \/ EndTurn \/ Compact \/ OrderSummary
        \/ ManualCompact
        \/ WriteCheckpoint
        \/ \E m \in Manuals : LoadManual(m) \/ UnloadManual(m)

CcNext ==
  \/ \E t \in ReplayTargets : SwitchTarget(t)
  \/ \E m \in Manuals : EditManual(m) \/ HideManual(m)
  \/ NewInput \/ Turn \/ Restart
  \/ TitleRead \/ TitleSend

CcSpec == CcInit /\ [][CcNext]_ccVars

----------------------------------------------------------------------------
(* Properties *)

Foreign == {i \in DOMAIN Sent : Sent[i].sealed \notin {NoTarget, turn.to}}

\* "everything already recorded must replay without envelopes"
\* (cloud.rs:6180): no inference request carries an envelope that another
\* model or upstream sealed, once the Thread the barrier compared is the
\* Thread the request goes out for.
EnvelopesStayHome == "race" \in ccMasked \/ Foreign = {}

\* The same while neither a title request nor a manual compaction named another
\* target than the requests before it: however switches, failed attempts,
\* compactions, restarts and new inputs interleave, the newest barrier
\* (cloud.rs:6183, recovery.rs:106) covers every foreign envelope.
SwitchStripsEnvelopes == "unbarred" \in ccMasked \/ EnvelopesStayHome

\* manual_loads.rs:14-23: an inference request carries, for every Manual the
\* Thread held loaded when it was compiled, the copy of that moment after any
\* other, and says of no released Manual that its copy is maintained; edits,
\* hidden Manuals, checkpoints and unloads in any order.
LoadedCopiesCurrent ==
  turn.stage = "stream" => \A m \in Manuals :
    LET notices == {i \in DOMAIN Sent : Sent[i].kind \in {"loaded", "unloaded"}
                                        /\ Sent[i].of = m}
        last(i) == \A j \in notices \ {i} : Precedes(Sent, j, i)
    IN  IF turn.seen[m] # 0
        THEN \E i \in notices : last(i) /\ Sent[i].kind = "loaded"
                                        /\ Sent[i].print = turn.seen[m]
        ELSE \A i \in notices : last(i) => Sent[i].kind = "unloaded"

\* cloud.rs:6828-6833: every output follows its call, and between a call and
\* its output stand calls and outputs only, although records of a response and
\* of the tools it called arrive interleaved, turns are superseded with calls
\* open, and checkpoints cut the range.  Only reasoning that the response went
\* on with before the tool answered comes between, as it starts a turn.
ToolRunsAreContiguous ==
  \A o \in DOMAIN Sent : Sent[o].kind = "output" =>
    \E c \in DOMAIN Sent :
       LET between == {i \in DOMAIN Sent : Precedes(Sent, c, i) /\ Precedes(Sent, i, o)}
       IN  /\ Sent[c].kind = "call" /\ Sent[c].of = Sent[o].of
           /\ Precedes(Sent, c, o)
           /\ \/ \A i \in between : Sent[i].kind \in {"call", "output"}
              \/ \E i \in between : Sent[i].kind = "reasoning"
=============================================================================
