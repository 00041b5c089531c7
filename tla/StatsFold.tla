----------------------------- MODULE StatsFold ------------------------------
(***************************************************************************)
(* The usage statistics of one user database: the patrol that folds raw    *)
(* rows into hour cells, keeps totals and rebuilds the range views, beside *)
(* requests that create, settle and delete the rows it folds.              *)
(*                                                                         *)
(* Every transaction of the patrol, and every statement it commits outside *)
(* one, is a step: it has a connection of its own and waits for nobody.    *)
(* Requests are queued one operation at a time, but the deletion of a      *)
(* Thread is an operation of several commits.  A row stands for itself: a  *)
(* cell, a total or a view counts it under the state it was folded in, as  *)
(* the sums by status, tokens and duration do.  Time is in hours.  All     *)
(* rows belong to one Thread.  Reads of a pass that only find rows which   *)
(* may at most vanish are part of the step that acts on them.              *)
(*                                                                         *)
(* Left out: dimensions, labels, latest_record_at, the limits of 500       *)
(* pending rows and 24 dirty hours a pass, reads of the views.             *)
(***************************************************************************)
EXTENDS Integers, FiniteSets

CONSTANTS
    StatRows,       \* the raw rows that may be recorded, by their table
    Lag,            \* hours between the end of an hour and its fold
    FoldBudget,     \* MAX_FOLD_HOURS_PER_PASS
    MaxHour,        \* bound: the clock
    MaxStatRows,    \* bound: rows recorded
    MaxStatFaults   \* bound: restarts of the process

RowTables == {"audit", "call", "record"}

ASSUME StatsFoldAssumption ==
    /\ StatRows \subseteq RowTables
    /\ Lag \in Nat \ {0} /\ FoldBudget \in Nat \ {0}
    /\ MaxHour \in Nat /\ MaxStatRows \in Nat /\ MaxStatFaults \in Nat

VARIABLES
    stClock,   \* the hour it is
    stThread,  \* "live", "deleting" between two commits, "gone"
    stRaw,     \* reasoning_audits, worker_calls, history_records
    stBook,    \* stats_state, stats_pending and stats_dirty_hour
    stCell,    \* stats_hour_*: how often a row is counted, and as what
    stTotal,   \* stats_total_*
    stView,    \* stats_view_* of each range
    patrol,    \* the pass that runs
    stFaults,  \* history variable: restarts so far
    stSkipped  \* history variable: rows whose correction a restart lost

stVars == <<stClock, stThread, stRaw, stBook, stCell, stTotal, stView, patrol,
            stFaults, stSkipped>>
folded == <<stCell, stTotal, stView>>

Hours == 0..MaxHour
Ranges == {"short", "all"}        \* 24h (7d, 30d) and all
ShortSpan == 1
Settled == {"settled", "revised"}
Versions == {"open"} \cup Settled
Absent == [v \in Versions |-> 0]
NoData == -1

Existing == {r \in StatRows : stRaw[r].state \in Versions}
RowsOf(hour) == {r \in Existing : stRaw[r].hour = hour}
Open(r) == stRaw[r].state = "open"

\* MIN(timestamp) rounded down to its hour; none is NoData.
FirstHour(rows) ==
    IF rows = {} THEN NoData
    ELSE CHOOSE h \in Hours : /\ \E r \in rows : stRaw[r].hour = h
                              /\ \A r \in rows : h <= stRaw[r].hour

\* supervise, between two passes.
Asleep == [at |-> "idle", now |-> 0, budget |-> 0, list |-> {}, row |-> "none"]

StatsInit ==
    /\ stClock = 0 /\ stThread = "live"
    /\ stRaw = [r \in StatRows |-> [state |-> "none", hour |-> 0]]
    /\ stBook = [low |-> 0, high |-> NoData, earliest |-> NoData, pending |-> {},
                 dirty |-> {}, viewDirty |-> {}, built |-> {}]
    /\ stCell = [r \in StatRows |-> Absent]
    /\ stTotal = [r \in StatRows |-> Absent]
    /\ stView = [g \in Ranges |-> [r \in StatRows |-> Absent]]
    /\ patrol = Asleep
    /\ stFaults = 0 /\ stSkipped = {}

-----------------------------------------------------------------------------
(* The closed range and the ranges of the views.                           *)

Closed == stBook.low <= stBook.high
IsClosed(hour) == Closed /\ stBook.low <= hour /\ hour <= stBook.high

WindowStart(book, range) ==
    IF range = "short" /\ book.low < book.high - (ShortSpan - 1)
    THEN book.high - (ShortSpan - 1) ELSE book.low

\* range_contains_hour
RangeContains(book, range, hour) == WindowStart(book, range) <= hour /\ hour <= book.high

\* mark_views_dirty_for_hour
ViewsMarked(book, hour) ==
    [book EXCEPT !.viewDirty = @ \cup {g \in Ranges : RangeContains(book, g, hour)}]

\* enqueue_dirty_hour, mark_dirty: only a folded hour is corrected.
Enqueued(book, hours) == [book EXCEPT !.dirty = @ \cup {h \in hours : IsClosed(h)}]

-----------------------------------------------------------------------------
(* Requests.  None runs while the deletion holds the database's queue.     *)

Request(r) == stThread # "deleting" /\ r \in StatRows

\* A request, a call or a record is written with the current time.
StatRecord(r) ==
    /\ Request(r) /\ stThread = "live" /\ stRaw[r].state = "none"
    /\ Cardinality({u \in StatRows : stRaw[u].state # "none"}) < MaxStatRows
    /\ stRaw' = [stRaw EXCEPT ![r] = [hour |-> stClock,
                                      state |-> IF r = "record" THEN "settled" ELSE "open"]]
    /\ UNCHANGED <<stClock, stThread, stBook, folded, patrol, stFaults, stSkipped>>

\* save_response_state, a failed, cancelled or superseded request; a call that
\* times out, is cancelled or is lost.  The statistics are not told.
SettleRow(r) ==
    /\ Request(r) /\ Open(r)
    /\ stRaw' = [stRaw EXCEPT ![r].state = "settled"]
    /\ UNCHANGED <<stClock, stThread, stBook, folded, patrol, stFaults, stSkipped>>

\* finish_reasoning_audit writes whatever the row's status is.
FinishAudit ==
    /\ Request("audit") /\ stRaw["audit"].state \in {"open", "settled"}
    /\ stRaw' = [stRaw EXCEPT !["audit"].state = "revised"]
    /\ UNCHANGED <<stClock, stThread, stBook, folded, patrol, stFaults, stSkipped>>

\* settle_worker_call_result: a result, also of a call that was given up and
\* of one whose Thread is gone.
ResultArrives ==
    /\ Request("call") /\ stRaw["call"].state \in {"open", "settled"}
    /\ stRaw' = [stRaw EXCEPT !["call"].state = IF Open("call") THEN "settled" ELSE "revised"]
    /\ stBook' = Enqueued(stBook, {stRaw["call"].hour})
    /\ UNCHANGED <<stClock, stThread, folded, patrol, stFaults, stSkipped>>

\* delete_thread: note_thread_deleted, whose statements commit.
NoteDeleted ==
    /\ stThread = "live"
    /\ stThread' = "deleting"
    /\ stBook' = Enqueued([stBook EXCEPT !.pending = {}], {stRaw[r].hour : r \in Existing})
    /\ UNCHANGED <<stClock, stRaw, folded, patrol, stFaults, stSkipped>>

\* delete_thread, the rows go with the Thread; a Worker call has outlived it
\* since Workers are shared.
ThreadRowsGo ==
    /\ stThread = "deleting"
    /\ stThread' = "gone"
    /\ stRaw' = [r \in StatRows |-> IF r \in Existing \ {"call"}
                                    THEN [stRaw[r] EXCEPT !.state = "gone"] ELSE stRaw[r]]
    /\ UNCHANGED <<stClock, stBook, folded, patrol, stFaults, stSkipped>>

HourPasses ==
    /\ stClock < MaxHour
    /\ stClock' = stClock + 1
    /\ UNCHANGED <<stThread, stRaw, stBook, folded, patrol, stFaults, stSkipped>>

-----------------------------------------------------------------------------
(* The patrol: a pass.                                                     *)

Quiet == UNCHANGED <<stClock, stThread, stRaw, stFaults, stSkipped>>
LatestHour(now) == now - Lag - 1

\* earliest_data_hour: remembered as soon as there is any.
Earliest == IF stBook.earliest # NoData THEN stBook.earliest ELSE FirstHour(Existing)

\* views_dirty_mask
StaleViews == stBook.viewDirty \cup (Ranges \ stBook.built)

\* New closable hours, or hours below the range.
Uncovered(latest) ==
    IF Closed THEN stBook.high < latest \/ (Earliest # NoData /\ Earliest < stBook.low)
    ELSE Earliest # NoData /\ Earliest <= latest

\* Mutant: rows that are watched are not work.
HasWorkUnwatched(latest) ==
    Uncovered(latest) \/ stBook.dirty # {} \/ (Closed /\ StaleViews # {})

\* database_has_work, when the refresh interval has passed.
HasWork(latest) ==
    Uncovered(latest) \/ stBook.pending # {} \/ stBook.dirty # {}
        \/ (Closed /\ StaleViews # {})

Begin ==
    /\ patrol.at = "idle"
    /\ HasWork(LatestHour(stClock))
    /\ stBook' = [stBook EXCEPT !.earliest = Earliest]
    /\ patrol' = [patrol EXCEPT !.at = "forward", !.now = stClock, !.budget = FoldBudget]
    /\ UNCHANGED folded /\ Quiet

\* fold_hour: what is there now is added to the cells.
FoldInto(cells, hour) ==
    [r \in StatRows |-> IF r \in RowsOf(hour) THEN [cells[r] EXCEPT ![stRaw[r].state] = @ + 1]
                        ELSE cells[r]]

\* fold_hour_reconcile_pending: the unsettled rows of the hour are watched.
Watched(pending, hour) ==
    (pending \ RowsOf(hour)) \cup {r \in RowsOf(hour) : Open(r)}

\* The closed range takes the hour in.
CloseBook(book, hour) ==
    IF Closed THEN [book EXCEPT !.low = IF hour < @ THEN hour ELSE @,
                                !.high = IF hour > @ THEN hour ELSE @]
    ELSE [book EXCEPT !.low = hour, !.high = hour]

\* close_hour, one transaction.
CloseHour(hour) ==
    /\ patrol.budget > 0
    /\ patrol' = [patrol EXCEPT !.budget = @ - 1]
    /\ stCell' = FoldInto(stCell, hour)
    /\ stTotal' = FoldInto(stTotal, hour)
    /\ stBook' = ViewsMarked(
                    CloseBook([stBook EXCEPT !.pending = Watched(@, hour)], hour), hour)
    /\ UNCHANGED stView /\ Quiet

\* jump_closed_high: every window slides.
Slid(high) == [stBook EXCEPT !.high = high, !.viewDirty = Ranges]

Jump(book) ==
    /\ stBook' = book
    /\ UNCHANGED <<folded, patrol>> /\ Quiet

\* advance_forward: the hours above the range, empty ones at a jump.
ForwardNeeded == /\ stBook.earliest # NoData /\ stBook.earliest <= LatestHour(patrol.now)
                 /\ Closed => stBook.high < LatestHour(patrol.now)

Forward ==
    /\ patrol.at = "forward" /\ ForwardNeeded
    /\ LET latest == LatestHour(patrol.now)
           next == FirstHour({r \in Existing : stRaw[r].hour \in (stBook.high + 1)..latest})
       IN  IF ~Closed THEN CloseHour(latest)
           ELSE IF next = NoData THEN Jump(Slid(latest))
           ELSE IF next > stBook.high + 1 THEN Jump(Slid(next - 1))
           ELSE CloseHour(next)

ForwardBlocked ==
    /\ ForwardNeeded /\ patrol.budget = 0
    /\ Closed => \E r \in Existing : stRaw[r].hour = stBook.high + 1

\* process_pending begins with the rows it finds.
ForwardEnds ==
    /\ patrol.at = "forward"
    /\ ~ForwardNeeded \/ ForwardBlocked
    /\ patrol' = [patrol EXCEPT !.at = "pending", !.list = stBook.pending, !.now = 0]
    /\ UNCHANGED <<stBook, folded>> /\ Quiet

\* process_pending, one row: a row that is gone or settled is watched no more.
LookAt(r) ==
    /\ patrol.at = "pending" /\ r \in patrol.list
    /\ patrol' = [patrol EXCEPT !.list = @ \ {r},
                                !.row = IF r \in Existing /\ ~Open(r) THEN r ELSE @,
                                !.at = IF r \in Existing /\ ~Open(r) THEN "enqueue" ELSE @]
    /\ stBook' = [stBook EXCEPT !.pending = IF r \in Existing /\ Open(r) THEN @ ELSE @ \ {r}]
    /\ UNCHANGED folded /\ Quiet

\* ... and, in another commit, its hour is queued.
Enqueue ==
    /\ patrol.at = "enqueue"
    /\ stBook' = Enqueued(stBook, {stRaw[patrol.row].hour})
    /\ patrol' = [patrol EXCEPT !.at = "pending", !.row = "none"]
    /\ UNCHANGED folded /\ Quiet

PendingEnds ==
    /\ patrol.at = "pending" /\ patrol.list = {}
    /\ patrol' = [patrol EXCEPT !.at = "dirty", !.list = stBook.dirty]
    /\ UNCHANGED <<stBook, folded>> /\ Quiet

Cleared(cells, hour) ==
    [r \in StatRows |-> IF stRaw[r].hour = hour THEN Absent ELSE cells[r]]

\* Mutant: the old cells stay in the totals.
SubtractedNot(hour) == stTotal

\* Mutant: the old cells leave the totals twice.
SubtractedTwice(hour) ==
    [r \in StatRows |-> IF stRaw[r].hour # hour THEN stTotal[r]
                        ELSE [v \in Versions |-> stTotal[r][v] - 2 * stCell[r][v]]]

\* subtract_hour_from_totals
Subtracted(hour) ==
    [r \in StatRows |-> IF stRaw[r].hour # hour THEN stTotal[r]
                        ELSE [v \in Versions |-> stTotal[r][v] - stCell[r][v]]]

\* recompute_dirty_hours, one hour: in one transaction it leaves and enters.
Recompute(hour) ==
    /\ patrol.at = "dirty" /\ hour \in patrol.list
    /\ patrol' = [patrol EXCEPT !.list = @ \ {hour}]
    /\ stCell' = FoldInto(Cleared(stCell, hour), hour)
    /\ stTotal' = FoldInto(Subtracted(hour), hour)
    /\ stBook' = ViewsMarked([stBook EXCEPT !.dirty = @ \ {hour},
                                            !.pending = Watched(@, hour)], hour)
    /\ UNCHANGED stView /\ Quiet

DirtyEnds ==
    /\ patrol.at = "dirty" /\ patrol.list = {}
    /\ patrol' = [patrol EXCEPT !.at = "views", !.list = IF Closed THEN StaleViews ELSE {}]
    /\ UNCHANGED <<stBook, folded>> /\ Quiet

\* What rebuild_range reads: the totals or the cells of the window.
Content(range) ==
    [r \in StatRows |->
        IF range = "all" THEN stTotal[r]
        ELSE IF RangeContains(stBook, range, stRaw[r].hour) THEN stCell[r] ELSE Absent]

\* refresh_views of a range whose interval has passed: only the patrol writes
\* what rebuild_range reads, so that the reads and the swap are one step.
Rebuild(range) ==
    /\ patrol.at = "views" /\ range \in patrol.list
    /\ patrol' = [patrol EXCEPT !.list = @ \ {range}]
    /\ stView' = [stView EXCEPT ![range] = Content(range)]
    /\ stBook' = [stBook EXCEPT !.viewDirty = @ \ {range}, !.built = @ \cup {range}]
    /\ UNCHANGED <<stCell, stTotal>> /\ Quiet

\* Ranges refreshed too recently, or beyond the limit of a pass, wait.
ViewsEnd ==
    /\ patrol.at = "views"
    /\ patrol' = [patrol EXCEPT !.at = "backfill", !.list = {}]
    /\ UNCHANGED <<stBook, folded>> /\ Quiet

BackfillNeeded == stBook.earliest # NoData /\ Closed /\ stBook.earliest < stBook.low

\* last_row_hour, below the range.
RowsBelow == {r \in Existing : stRaw[r].hour \in stBook.earliest..(stBook.low - 1)}
LastBelow == CHOOSE h \in Hours : /\ \E r \in RowsBelow : stRaw[r].hour = h
                                  /\ \A r \in RowsBelow : stRaw[r].hour <= h

JumpLow(low) == Jump([stBook EXCEPT !.low = low, !.viewDirty = @ \cup {"all"}])

\* advance_backfill: the hours below the range, newest first.
Backfill ==
    /\ patrol.at = "backfill" /\ BackfillNeeded
    /\ IF RowsBelow = {} THEN JumpLow(stBook.earliest)
       ELSE IF LastBelow < stBook.low - 1 THEN JumpLow(LastBelow + 1)
       ELSE CloseHour(stBook.low - 1)

BackfillEnds ==
    /\ patrol.at = "backfill"
    /\ ~BackfillNeeded \/ (patrol.budget = 0 /\ RowsOf(stBook.low - 1) # {})
    /\ patrol' = Asleep
    /\ UNCHANGED <<stBook, folded>> /\ Quiet

\* The process stops between two commits and starts again.
StatsRestart ==
    /\ stFaults < MaxStatFaults
    /\ patrol # Asleep \/ stThread = "deleting"
    /\ stFaults' = stFaults + 1
    /\ patrol' = Asleep
    /\ stThread' = IF stThread = "deleting" THEN "live" ELSE stThread
    /\ stSkipped' = stSkipped \cup ({patrol.row} \cap StatRows)
    /\ UNCHANGED <<stClock, stRaw, stBook, folded>>

PatrolStep ==
    \/ Begin \/ Forward \/ ForwardEnds \/ PendingEnds \/ DirtyEnds \/ ViewsEnd
    \/ Backfill \/ BackfillEnds
    \/ \E r \in StatRows : LookAt(r)
    \/ Enqueue
    \/ \E h \in Hours : Recompute(h)
    \/ \E g \in Ranges : Rebuild(g)

StatsNext ==
    \/ \E r \in StatRows : StatRecord(r) \/ SettleRow(r)
    \/ FinishAudit \/ ResultArrives
    \/ NoteDeleted \/ ThreadRowsGo
    \/ HourPasses
    \/ PatrolStep
    \/ StatsRestart

\* The patrol wakes every 30 seconds and a range is rebuilt once its interval
\* has passed; time passes; a request that began ends.
StatsFairness ==
    /\ WF_stVars(PatrolStep)
    /\ \A g \in Ranges : SF_stVars(Rebuild(g))
    /\ WF_stVars(HourPasses)
    /\ WF_stVars(ThreadRowsGo)

StatsSpec == StatsInit /\ [][StatsNext]_stVars /\ StatsFairness

-----------------------------------------------------------------------------
(* Properties.                                                             *)

Counts == [Versions -> Nat]

\* Every variable keeps its type.
StatsTypeOK ==
    /\ stClock \in Hours /\ stThread \in {"live", "deleting", "gone"}
    /\ stRaw \in [StatRows -> [state : Versions \cup {"none", "gone"}, hour : Hours]]
    /\ stBook.low \in Hours /\ stBook.high \in -1..MaxHour
    /\ stBook.earliest \in -1..MaxHour
    /\ stBook.pending \subseteq StatRows /\ stBook.dirty \subseteq Hours
    /\ stBook.viewDirty \subseteq Ranges /\ stBook.built \subseteq Ranges
    /\ stCell \in [StatRows -> Counts] /\ stTotal \in [StatRows -> Counts]
    /\ stView \in [Ranges -> [StatRows -> Counts]]
    /\ patrol.at \in {"idle", "forward", "pending", "enqueue", "dirty", "views", "backfill"}
    /\ stFaults \in 0..MaxStatFaults /\ stSkipped \subseteq StatRows

\* The totals are the sum of the cells of the closed hours, and a row is in
\* them at most once, however its hour was folded, jumped, recomputed and
\* interrupted.
TotalsAreCells ==
    \A r \in StatRows :
        /\ stTotal[r] = stCell[r]
        /\ \A v \in Versions : stCell[r][v] > 0 =>
              /\ IsClosed(stRaw[r].hour)
              /\ stCell[r] = [Absent EXCEPT ![v] = 1]

\* A view that is not marked for a rebuild shows what a rebuild would show,
\* although folds, jumps and corrections move its window and its content.
ViewsAreFresh ==
    \A g \in Ranges \ StaleViews : stView[g] = Content(g)

\* From the raw rows to the cells, to the totals, to the views.
StatsAddUp == TotalsAreCells /\ ViewsAreFresh

\* A row that settled is counted as settled in the all-time view in the end,
\* though its hour was folded while it was open, is backfilled, or is jumped
\* to.  It may still be revised or vanish; a correction lost in a restart is
\* never made up.
SettledIsShown ==
    \A r \in StatRows :
        []<>(r \in Existing \ stSkipped /\ ~Open(r) /\ stRaw[r].hour <= LatestHour(MaxHour)
                => \E v \in Settled : stView["all"][r][v] = 1)

=============================================================================
