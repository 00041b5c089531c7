--------------------------- MODULE ResponseStream ---------------------------
(***************************************************************************)
(* One inference request to a Responses provider: the request with its     *)
(* portable replay, the events of the stream, the items assembled from     *)
(* them, the records they become, the snapshot readers see and the audit.  *)
(*                                                                         *)
(* The provider is described by a script: the items it produces and how it *)
(* tells each of them.  The text of an item is a sequence of pieces.  A    *)
(* JSON answer is the stream of a provider that sends whole items only.    *)
(* Metadata events, rate limits and the parts of a reasoning item are left *)
(* out; an event that cannot be decoded changes nothing.                   *)
(***************************************************************************)
EXTENDS Naturals, Sequences, SequencesExt

CONSTANTS
    MaxRsItems,  \* bound: items of the response
    MaxPieces,   \* pieces of an item's text
    MaxRsFaults, \* bound: storage failures
    Habits       \* what a provider may do besides: "restates" in full an item it
                 \* sent unannounced in pieces, "names" pieces of a message that has
                 \* no event of its own

ASSUME ResponseStreamAssumption ==
    /\ {MaxRsItems, MaxPieces} \subseteq Nat \ {0} /\ MaxRsFaults \in Nat
    /\ Habits \subseteq {"restates", "names"}

VARIABLES
    rsScript,   \* what the provider is about to send
    rsWire,     \* how far it is
    rsState,    \* ResponseState of the consumer
    rsHistory,  \* the items recorded in the Thread's history
    rsRequest,  \* the request: its phase, its result, the stop signal
    rsAudit,    \* the row of reasoning_audits; dirty: its snapshot is behind
    rsFaults    \* history variable: faults so far

rsVars == <<rsScript, rsWire, rsState, rsHistory, rsRequest, rsAudit, rsFaults>>

-----------------------------------------------------------------------------
(* The provider.                                                           *)

Whole == [i \in 1..MaxPieces |-> i]

ScriptItem == [kind : {"message", "function_call"},
               named : BOOLEAN,      \* has an id
               announced : BOOLEAN,  \* output_item.added comes first
               deltas : BOOLEAN,     \* the text comes in pieces
               done : {"omitted", "partial", "full"}]

\* The pieces of a function call are told by its id alone.
Sendable(it) ==
    /\ it.deltas => it.kind = "message" \/ it.named
    /\ it.done = "partial" => it.deltas
    /\ it.announced \/ ~it.deltas \/ it.done # "full" \/ "restates" \in Habits

\* Items of one kind without an id are told apart by their order alone, and in
\* the list at the end by their place.
Tellable(script) ==
    \A i, j \in DOMAIN script :
       /\ i # j /\ script[i].kind = script[j].kind /\ ~script[i].named
             => /\ script[i].announced \/ ~script[i].deltas
                /\ "omitted" \notin {script[i].done, script[j].done}
       /\ j < i /\ ~script[i].named /\ script[i].done # "omitted"
             => script[j].announced \/ script[j].done # "omitted"

\* A response is told in full if each item is, or if the last event lists all.
\* Pieces alone are enough for the message that is all there is.
SelfContained(script) ==
    \A i \in DOMAIN script :
       \/ script[i].done # "omitted"
       \/ /\ script[i].deltas
          /\ \/ script[i].announced
             \/ /\ Len(script) = 1 /\ script[i].kind = "message"
                /\ ~script[i].named \/ "names" \in Habits

\* The list at the end restates the items that had no done event.
Listable(script) ==
    \/ "restates" \in Habits
    \/ \A i \in DOMAIN script :
          script[i].done = "omitted" => script[i].announced \/ ~script[i].deltas

Scripts ==
    UNION {{s \in [1..n -> {it \in ScriptItem : Sendable(it)}] :
              Tellable(s) /\ (SelfContained(s) \/ Listable(s))} : n \in 1..MaxRsItems}

\* What an event carries: the item without its text, and the text.
ItemOf(n, text) == [kind |-> rsScript[n].kind, id |-> IF rsScript[n].named THEN n ELSE 0,
                    call |-> n, text |-> text]
Update(type, n, text) == [type |-> type, item |-> ItemOf(n, text)]

-----------------------------------------------------------------------------
(* The items assembled from the events.                                    *)

NoState == [output |-> <<>>, pending |-> <<>>, completed |-> FALSE, error |-> "none"]

\* event_targets: the kind, and the id if the event has one.
Targets(event, it) ==
    it.kind = event.item.kind /\ event.item.id \in {0, it.id}

\* apply_update: a delta is appended, a done text replaces.
Updated(it, event) ==
    [it EXCEPT !.text = IF event.type = "delta" THEN @ \o event.item.text ELSE event.item.text]

\* merge_partial_item: what the incoming item leaves empty is kept.
MergedItem(old, new) ==
    IF old.kind = new.kind /\ new.text = <<>> THEN [new EXCEPT !.text = old.text] ELSE new

\* Where remember finds the item: by its id, or the last unfinished one of its
\* kind; 0 if it is new.
Place(output, it) ==
    IF it.id # 0 THEN SelectInSeq(output, LAMBDA o : o.item.id = it.id)
    ELSE SelectLastInSeq(output, LAMBDA o : ~o.done /\ o.item.kind = it.kind)

\* remember: what waited for the item is applied to it, in order.
Replay(it, events) ==
    LET after[i \in 0..Len(events)] ==
          IF i = 0 THEN [item |-> it, left |-> <<>>]
          ELSE LET acc == after[i - 1]
               IN  IF Targets(events[i], acc.item)
                   THEN [item |-> Updated(acc.item, events[i]), left |-> acc.left]
                   ELSE [item |-> acc.item, left |-> Append(acc.left, events[i])]
    IN  after[Len(events)]

\* remember: a new item is appended, a known one is changed until it is done.
Remember(st, incoming, done) ==
    LET place == Place(st.output, incoming)
        merged == IF place = 0 THEN incoming ELSE MergedItem(st.output[place].item, incoming)
        taken == Replay(merged, st.pending)
        output == IF place = 0
                  THEN Append(st.output, [item |-> taken.item, done |-> done, rec |-> 0])
                  ELSE IF st.output[place].done THEN st.output
                  ELSE [st.output EXCEPT ![place] =
                          [item |-> taken.item, done |-> done, rec |-> st.output[place].rec]]
    IN  [st EXCEPT !.output = output, !.pending = taken.left]

\* Where an item stands once it is remembered.
Slot(output, it) == IF Place(output, it) = 0 THEN Len(output) + 1 ELSE Place(output, it)

\* An update goes to the last item it targets, done or not, or waits for one.
Applied(st, event) ==
    LET place == SelectLastInSeq(st.output, LAMBDA o : Targets(event, o.item))
    IN  IF place = 0 THEN [st EXCEPT !.pending = Append(st.pending, event)]
        ELSE LET entry == st.output[place]
             IN  [st EXCEPT !.output = [st.output EXCEPT ![place] =
                                          [entry EXCEPT !.item = Updated(entry.item, event)]]]

\* Mutant: only items with an id are recognised in the final list.
KnownById(st, i, it) ==
    it.id # 0 /\ \E o \in DOMAIN st.output : st.output[o].done /\ st.output[o].item.id = it.id

\* Is the i-th listed item one that was done before?
Known(st, i, it) ==
    IF it.id # 0
    THEN \E o \in DOMAIN st.output : st.output[o].done /\ st.output[o].item.id = it.id
    ELSE i \in DOMAIN st.output /\ st.output[i].done /\ st.output[i].item = it

\* Text without an item is an assistant's message.
MessageOfPieces == [kind |-> "message", id |-> 0, call |-> 1, text |-> <<>>]

\* The items the last event lists, one after the other.
Listed(st, list) ==
    LET after[i \in 0..Len(list)] ==
          IF i = 0 THEN st
          ELSE LET acc == after[i - 1]
               IN  IF Known(acc, i, list[i]) THEN acc ELSE Remember(acc, list[i], TRUE)
    IN  after[Len(list)]

CompletedWith(st, list) ==
    LET listed == Listed(st, list)
        told == IF listed.output = <<>>
                   /\ \E e \in DOMAIN listed.pending : listed.pending[e].item.kind = "message"
                THEN Remember(listed, MessageOfPieces, FALSE) ELSE listed
    IN  [told EXCEPT !.completed = TRUE,
                     !.output = [o \in DOMAIN told.output |->
                                   [told.output[o] EXCEPT !.done = TRUE]]]

Unrecorded(st) == {o \in DOMAIN st.output : st.output[o].rec = 0}

-----------------------------------------------------------------------------
(* The request.                                                            *)

TransientErrors == {"Timeout", "Closed", "Sse", "ServerOverloaded", "RateLimitExceeded", "Retryable"}
UpstreamFailures == {"ContextOverflow", "Retryable", "QuotaExceeded"}   \* one of each class

\* stream_api_error.
ApiErrorOf(error) ==
    CASE error = "Cancelled" -> "cancelled"
      [] error = "ContextOverflow" -> "overflow"
      [] error \in TransientErrors -> "transient"
      [] OTHER -> "unavailable"

\* An overflow after a call was started: the call is settled first.
HasCall == \E o \in DOMAIN rsState.output :
              rsState.output[o].rec # 0 /\ rsState.output[o].item.kind = "function_call"

\* finish_reasoning_audit: a cancelled row stays cancelled.  Its failure is
\* only logged.
AuditFinished(row, status) ==
    [row EXCEPT !.status = IF @ = "cancelled" THEN @ ELSE status]

Streaming == rsRequest.phase = "stream"
RsFault == rsFaults < MaxRsFaults /\ rsFaults' = rsFaults + 1

ResponseItem ==
    [kind : {"message", "function_call"}, id : Nat, call : Nat, text : Seq(Nat)]
ResponseEvent == [type : {"delta", "done"}, item : ResponseItem]
OutputState == [item : ResponseItem, done : BOOLEAN, rec : Nat]
ResponseState ==
    [output : Seq(OutputState), pending : Seq(ResponseEvent), completed : BOOLEAN,
     error : {"none"} \union UpstreamFailures]

RsTypeOK ==
    /\ rsScript \in Scripts
    /\ rsWire \in [n : 1..(MaxRsItems + 1), open : BOOLEAN, sent : 0..(MaxPieces + 1)]
    /\ rsState \in ResponseState
    /\ rsHistory \in Seq(ResponseItem)
    /\ rsRequest \in [phase : {"send", "stream", "done"}, portable : BOOLEAN, stop : BOOLEAN,
                      result : {"none", "ok", "cancelled", "overflow", "transient",
                                "unavailable", "internal"}]
    /\ rsAudit \in [status : {"in_flight", "completed", "failed", "cancelled"}, dirty : BOOLEAN]
    /\ rsFaults \in 0..MaxRsFaults

RsInit ==
    /\ rsScript \in Scripts
    /\ rsWire = [n |-> 1, open |-> FALSE, sent |-> 0]
    /\ rsState = NoState
    /\ rsHistory = <<>>
    /\ rsRequest = [phase |-> "send", portable |-> FALSE, stop |-> FALSE, result |-> "none"]
    /\ rsAudit = [status |-> "in_flight", dirty |-> FALSE]
    /\ rsFaults = 0

\* Mutant: the audit is finished under the name of the result.
RsEndAsNamed(result, audit) ==
    /\ rsRequest' = [rsRequest EXCEPT !.phase = "done", !.result = result]
    /\ rsAudit' = AuditFinished(audit, result)

\* The request is over, with what its audit says.
RsEnd(result, audit) ==
    /\ rsRequest' = [rsRequest EXCEPT !.phase = "done", !.result = result]
    /\ rsAudit' = AuditFinished(audit, CASE result = "ok" -> "completed"
                                         [] result = "cancelled" -> "cancelled"
                                         [] OTHER -> "failed")

\* A refused field of the replayed context is answered once, in portable form.
FieldRefused ==
    /\ rsRequest.phase = "send" /\ ~rsRequest.stop /\ ~rsRequest.portable
    /\ rsRequest' = [rsRequest EXCEPT !.portable = TRUE]
    /\ UNCHANGED <<rsScript, rsWire, rsState, rsHistory, rsAudit, rsFaults>>

\* The request fails before a stream: refused, cancelled, or not reached.
RequestFails ==
    /\ rsRequest.phase = "send"
    /\ \E result \in IF rsRequest.stop THEN {"cancelled"}
                     ELSE {"overflow", "transient", "unavailable"} : RsEnd(result, rsAudit)
    /\ UNCHANGED <<rsScript, rsWire, rsState, rsHistory, rsFaults>>

RequestAnswered ==
    /\ rsRequest.phase = "send" /\ ~rsRequest.stop
    /\ rsRequest' = [rsRequest EXCEPT !.phase = "stream"]
    /\ UNCHANGED <<rsScript, rsWire, rsState, rsHistory, rsAudit, rsFaults>>

\* Stop cancels the audit and the task; the stream sees it at its next event.
StopRequested ==
    /\ rsRequest.phase # "done" /\ ~rsRequest.stop
    /\ rsRequest' = [rsRequest EXCEPT !.stop = TRUE]
    /\ rsAudit' = [rsAudit EXCEPT !.status = IF @ = "in_flight" THEN "cancelled" ELSE @]
    /\ UNCHANGED <<rsScript, rsWire, rsState, rsHistory, rsFaults>>

\* save_response_state of a state: the snapshot, and the completion.
SavedAudit(st) ==
    [status |-> IF st.completed /\ rsAudit.status = "in_flight" THEN "completed"
                ELSE rsAudit.status,
     dirty |-> FALSE]

\* append_response_output_items: the record of each item; a call of this
\* request that is recorded already keeps its record.
RecordOf(history, it) ==
    IF it.kind = "function_call"
    THEN SelectInSeq(history, LAMBDA h : h.kind = "function_call" /\ h.call = it.call) ELSE 0

Recorded(acc, o) ==
    LET entry == acc.st.output[o]
        known == RecordOf(acc.history, entry.item)
        history == IF known = 0 THEN Append(acc.history, entry.item) ELSE acc.history
        rec == IF known = 0 THEN Len(history) ELSE known
    IN  [history |-> history,
         ok |-> acc.ok /\ (known = 0 \/ acc.history[known] = entry.item),
         st |-> [acc.st EXCEPT !.output = [acc.st.output EXCEPT ![o] = [entry EXCEPT !.rec = rec]]]]

RecordAll(st, places) ==
    LET after[o \in 0..Len(st.output)] ==
          IF o = 0 THEN [history |-> rsHistory, ok |-> TRUE, st |-> st]
          ELSE IF o \in places THEN Recorded(after[o - 1], o) ELSE after[o - 1]
    IN  after[Len(st.output)]

\* The loop of consume_response_events: the state after an event, and the places
\* of the items it finished.  A failure to append or to save ends the request,
\* and so does a call that was recorded with other contents, which needs a
\* provider that uses a call id twice: no script of RsInit does.
Consume(st, places) ==
    LET all == RecordAll(st, places)
    IN  \/ /\ all.ok
           /\ rsHistory' = all.history
           /\ rsState' = all.st
           /\ IF st.completed THEN RsEnd("ok", SavedAudit(all.st))
              ELSE /\ rsAudit' = IF places = {} THEN [rsAudit EXCEPT !.dirty = TRUE]
                                ELSE SavedAudit(all.st)
                   /\ UNCHANGED rsRequest
           /\ UNCHANGED rsFaults
        \/ /\ ~all.ok
           /\ rsState' = st
           /\ RsEnd("unavailable", rsAudit)
           /\ UNCHANGED <<rsHistory, rsFaults>>
        \/ /\ places # {} /\ RsFault
           /\ \E at \in {"append", "save"} :
                rsHistory' = IF at = "save" THEN all.history ELSE rsHistory
           /\ rsState' = st
           /\ RsEnd("internal", rsAudit)

\* A stopped stream is not read any more.
Reads == Streaming /\ ~rsRequest.stop
Upcoming == rsScript[rsWire.n]
Producing == Reads /\ rsWire.n <= Len(rsScript)

ItemAdded ==
    /\ Producing /\ Upcoming.announced /\ ~rsWire.open
    /\ rsWire' = [rsWire EXCEPT !.open = TRUE]
    /\ Consume(Remember(rsState, ItemOf(rsWire.n, <<>>), FALSE), {})
    /\ UNCHANGED rsScript

Told == Producing /\ (rsWire.open \/ ~Upcoming.announced)

TextDelta ==
    /\ Told /\ Upcoming.deltas /\ rsWire.sent < MaxPieces
    /\ rsWire' = [rsWire EXCEPT !.sent = @ + 1]
    /\ Consume(Applied(rsState, Update("delta", rsWire.n, <<Whole[rsWire.sent + 1]>>)), {})
    /\ UNCHANGED rsScript

\* The done text of an item whose pieces were sent.
TextDone ==
    /\ Told /\ Upcoming.deltas /\ rsWire.sent = MaxPieces
    /\ rsWire' = [rsWire EXCEPT !.sent = @ + 1]
    /\ UNCHANGED rsScript
    /\ Consume(Applied(rsState, Update("done", rsWire.n, Whole)), {})

NextItem == rsWire' = [n |-> rsWire.n + 1, open |-> FALSE, sent |-> 0]
AllSent == Told /\ (Upcoming.deltas => rsWire.sent >= MaxPieces)

ItemDone ==
    /\ AllSent /\ Upcoming.done # "omitted"
    /\ NextItem
    /\ LET text == IF Upcoming.done = "full" THEN Whole ELSE <<>>
           it == ItemOf(rsWire.n, text)
           now == Remember(rsState, it, TRUE)
       IN  Consume(now, {Slot(rsState.output, it)} \intersect Unrecorded(now))
    /\ UNCHANGED rsScript

ItemLeftOpen ==
    /\ AllSent /\ Upcoming.done = "omitted"
    /\ NextItem
    /\ UNCHANGED <<rsScript, rsState, rsHistory, rsRequest, rsAudit, rsFaults>>

ResponseCompleted ==
    /\ Reads /\ rsWire.n > Len(rsScript)
    /\ \/ /\ SelfContained(rsScript)
          /\ LET st == CompletedWith(rsState, <<>>) IN Consume(st, Unrecorded(st))
       \/ /\ Listable(rsScript)
          /\ LET st == CompletedWith(rsState, [n \in DOMAIN rsScript |-> ItemOf(n, Whole)])
             IN  Consume(st, Unrecorded(st))
    /\ UNCHANGED <<rsScript, rsWire>>

\* response.failed, error or incomplete: kept until the stream ends.
ResponseFailed ==
    /\ Reads /\ rsState.error = "none"
    /\ \E error \in UpstreamFailures : rsState' = [rsState EXCEPT !.error = error]
    /\ UNCHANGED <<rsScript, rsWire, rsHistory, rsRequest, rsAudit, rsFaults>>

\* The end of the stream: the error it was told, or that of the transport.
StreamEnds ==
    /\ Streaming
    /\ \E error \in IF rsRequest.stop THEN {"Cancelled"}
                    ELSE {"Timeout", "Sse", IF rsState.error # "none" THEN rsState.error ELSE "Closed"} :
          LET api == ApiErrorOf(error)
          IN  RsEnd(IF api = "overflow" /\ HasCall THEN "transient" ELSE api,
                    SavedAudit([rsState EXCEPT !.error = error]))
    /\ UNCHANGED <<rsScript, rsWire, rsState, rsHistory, rsFaults>>

\* The flush of every 250 ms.
Flush ==
    /\ Streaming /\ rsAudit.dirty
    /\ rsAudit' = SavedAudit(rsState)
    /\ UNCHANGED <<rsScript, rsWire, rsState, rsHistory, rsRequest, rsFaults>>

RsNext ==
    \/ FieldRefused \/ RequestFails \/ RequestAnswered \/ StopRequested
    \/ ItemAdded \/ TextDelta \/ TextDone \/ ItemDone \/ ItemLeftOpen \/ ResponseCompleted
    \/ ResponseFailed \/ StreamEnds \/ Flush

RsSpec == RsInit /\ [][RsNext]_rsVars

-----------------------------------------------------------------------------
(* Properties.                                                             *)

\* A completed response leaves in the history each item of the provider once
\* and whole, whether it was told in pieces, in full, twice, or only by the
\* list at the end, with an id or without.
RecordsTellTheResponse ==
    rsRequest.result = "ok" =>
       /\ Len(rsHistory) = Len(rsScript)
       /\ \A n \in DOMAIN rsScript : \E h \in DOMAIN rsHistory :
             rsHistory[h].call = n /\ rsHistory[h].text = Whole

=============================================================================
