------------------------------ MODULE RoutePerf ------------------------------
(***************************************************************************)
(* The recorder of request durations (src/cloud/route_performance.rs).     *)
(* A request adds to the cell of its minute with a few separate atomic     *)
(* operations; a task removes the cells of closed minutes from the         *)
(* registry, reads them and adds them to the minute and hour buckets; the  *)
(* administrator's page adds what is still in memory to those buckets.     *)
(*                                                                         *)
(* One route, method and status: a key is its minute.  A duration is left  *)
(* out; of the bands only that a request adds to one of them, after it has *)
(* been counted.  Every request is slow, so that each also enters the      *)
(* bounded window of single samples.                                       *)
(***************************************************************************)
EXTENDS Integers, FiniteSets

CONSTANTS RpRequests,    \* the requests measured
          MaxMinute,     \* bound: the clock stops here
          MinuteKept,    \* MINUTE_RETENTION_SECONDS, in minutes
          SlowLimit,     \* SLOW_WINDOW_LIMIT
          MaxRpFaults    \* bound: transactions that fail

Minutes == 0..MaxMinute
NoCell == "none"
NoMinute == -1

ASSUME RoutePerfAssumption ==
  /\ MaxMinute \in Nat /\ MinuteKept \in Nat /\ SlowLimit \in Nat
  /\ NoCell \notin RpRequests

VARIABLES
  rpMinute,   \* now() / 60
  rpReq,      \* request -> its stage, its minute and the cell it adds to
  registry,   \* Monitor.cells: minute -> cell; a cell has its creator's name
  cell,       \* the cells, registered or not: the requests counted, banded
  slowWindow, \* Monitor.slow
  rpFlush,    \* the pass of persist_periodically: what it has taken so far
  minuteRows, \* route_perf_minute, hourRows: how often each request counts
  hourRows,
  slowRows,   \* route_perf_slow
  rpPage,     \* one page: what it read live, then what it shows
  rpLate,     \* history: requests that added to a cell already read
  rpLost,     \* history: requests of a transaction that failed
  rpFaults

rpVars == <<rpMinute, rpReq, registry, cell, slowWindow, rpFlush, minuteRows,
            hourRows, slowRows, rpPage, rpLate, rpLost, rpFaults>>

NoFlush == [stage |-> "idle", todo |-> {}, done |-> {}, counted |-> {},
            banded |-> {}, slow |-> {}]
NoPage == [stage |-> "none", live |-> {}, shown |-> [r \in RpRequests |-> 0],
           crossed |-> FALSE]

RpInit ==
  /\ rpMinute = 0
  /\ rpReq = [r \in RpRequests |->
                [stage |-> "running", minute |-> NoMinute, cell |-> NoCell]]
  /\ registry = [m \in Minutes |-> NoCell]
  /\ cell = [c \in RpRequests |-> [counted |-> {}, banded |-> {}]]
  /\ slowWindow = {}
  /\ rpFlush = NoFlush
  /\ minuteRows = [r \in RpRequests |-> 0]
  /\ hourRows = [r \in RpRequests |-> 0]
  /\ slowRows = {}
  /\ rpPage = NoPage
  /\ rpLate = {}
  /\ rpLost = {}
  /\ rpFaults = 0

RpTypeOK ==
  /\ rpMinute \in Minutes
  /\ \A r \in RpRequests :
       /\ rpReq[r].stage \in {"running", "found", "counted", "banded", "done"}
       /\ rpReq[r].minute \in Minutes \union {NoMinute}
       /\ rpReq[r].cell \in RpRequests \union {NoCell}
  /\ registry \in [Minutes -> RpRequests \union {NoCell}]
  /\ cell \in [RpRequests -> [counted : SUBSET RpRequests,
                              banded : SUBSET RpRequests]]
  /\ slowWindow \subseteq RpRequests /\ Cardinality(slowWindow) <= SlowLimit
  /\ rpFlush.stage \in {"idle", "slow", "read", "write"}
  /\ minuteRows \in [RpRequests -> Nat] /\ hourRows \in [RpRequests -> Nat]
  /\ slowRows \subseteq RpRequests
  /\ rpPage.stage \in {"none", "live", "shown"}

----------------------------------------------------------------------------
(* The request path: measure and record *)

\* A response head is ready: the minute is read and its cell looked up, under
\* the read lock or, when it is missing, under the write lock.
Find(r) ==
  /\ rpReq[r].stage = "running"
  /\ LET found == IF registry[rpMinute] = NoCell THEN r ELSE registry[rpMinute]
     IN /\ registry' = [registry EXCEPT ![rpMinute] = found]
        /\ rpReq' = [rpReq EXCEPT ![r] = [stage |-> "found",
                                          minute |-> rpMinute, cell |-> found]]
  /\ UNCHANGED <<rpMinute, cell, slowWindow, rpFlush, minuteRows, hourRows,
                 slowRows, rpPage, rpLate, rpLost, rpFaults>>

\* Has the flush read this cell's count (or dropped it as unused) already?
CountIsRead(c) == c \in rpFlush.done \/ \A m \in Minutes : registry[m] # c /\
                                            c \notin rpFlush.todo

\* requests.fetch_add: it goes to the cell in hand, wherever that is now.
Count(r) ==
  /\ rpReq[r].stage = "found"
  /\ cell' = [cell EXCEPT ![rpReq[r].cell].counted = @ \union {r}]
  /\ rpReq' = [rpReq EXCEPT ![r].stage = "counted"]
  /\ rpLate' = IF CountIsRead(rpReq[r].cell) THEN rpLate \union {r} ELSE rpLate
  /\ UNCHANGED <<rpMinute, registry, slowWindow, rpFlush, minuteRows, hourRows,
                 slowRows, rpPage, rpLost, rpFaults>>

\* bands[band].fetch_add, the last of the additions.
Band(r) ==
  /\ rpReq[r].stage = "counted"
  /\ cell' = [cell EXCEPT ![rpReq[r].cell].banded = @ \union {r}]
  /\ rpReq' = [rpReq EXCEPT ![r].stage = "banded"]
  /\ UNCHANGED <<rpMinute, registry, slowWindow, rpFlush, minuteRows, hourRows,
                 slowRows, rpPage, rpLate, rpLost, rpFaults>>

\* Mutant: the window takes one sample too many.
SlowBeyond(r) ==
  /\ rpReq[r].stage = "banded"
  /\ slowWindow' = IF Cardinality(slowWindow) <= SlowLimit
                   THEN slowWindow \union {r} ELSE slowWindow
  /\ rpReq' = [rpReq EXCEPT ![r].stage = "done"]
  /\ UNCHANGED <<rpMinute, registry, cell, rpFlush, minuteRows, hourRows,
                 slowRows, rpPage, rpLate, rpLost, rpFaults>>

\* The single sample: a window that is full keeps its first samples.
Slow(r) ==
  /\ rpReq[r].stage = "banded"
  /\ slowWindow' = IF Cardinality(slowWindow) < SlowLimit
                   THEN slowWindow \union {r} ELSE slowWindow
  /\ rpReq' = [rpReq EXCEPT ![r].stage = "done"]
  /\ UNCHANGED <<rpMinute, registry, cell, rpFlush, minuteRows, hourRows,
                 slowRows, rpPage, rpLate, rpLost, rpFaults>>

----------------------------------------------------------------------------
(* The flush: persist_at *)

ClosedCells(now) == {m \in Minutes : m < now /\ registry[m] # NoCell}

\* take_closed removes the cells of the minutes that closed, in one step.
Unregistered(now) ==
  [m \in Minutes |-> IF m \in ClosedCells(now) THEN NoCell ELSE registry[m]]

TakeClosed ==
  /\ rpFlush.stage = "idle"
  /\ rpFlush' = [NoFlush EXCEPT !.stage = "read",
                   !.todo = {registry[m] : m \in ClosedCells(rpMinute)}]
  /\ registry' = Unregistered(rpMinute)
  /\ UNCHANGED <<rpMinute, rpReq, cell, slowWindow, minuteRows, hourRows,
                 slowRows, rpPage, rpLate, rpLost, rpFaults>>

\* was_used and drain, the counts first: a cell without a count is dropped.
DrainCounts(c) ==
  /\ rpFlush.stage = "read" /\ c \in rpFlush.todo
  /\ rpFlush' = [rpFlush EXCEPT !.counted = @ \union cell[c].counted,
                   !.todo = @ \ {c},
                   !.done = IF cell[c].counted = {} THEN @ ELSE @ \union {c}]
  /\ UNCHANGED <<rpMinute, rpReq, registry, cell, slowWindow, minuteRows,
                 hourRows, slowRows, rpPage, rpLate, rpLost, rpFaults>>

\* The bands are read after it, so a drain may see a request counted and not
\* yet banded.
DrainBands(c) ==
  /\ rpFlush.stage = "read" /\ c \in rpFlush.done
  /\ rpFlush' = [rpFlush EXCEPT !.banded = @ \union cell[c].banded,
                   !.done = @ \ {c}]
  /\ UNCHANGED <<rpMinute, rpReq, registry, cell, slowWindow, minuteRows,
                 hourRows, slowRows, rpPage, rpLate, rpLost, rpFaults>>

\* take_slow, and the early return of a pass that took nothing.
TakeSlow ==
  /\ rpFlush.stage = "read" /\ rpFlush.todo = {} /\ rpFlush.done = {}
  /\ rpFlush' = IF rpFlush.counted = {} /\ slowWindow = {} THEN NoFlush
                ELSE [rpFlush EXCEPT !.stage = "write", !.slow = slowWindow]
  /\ slowWindow' = {}
  /\ UNCHANGED <<rpMinute, rpReq, registry, cell, minuteRows, hourRows,
                 slowRows, rpPage, rpLate, rpLost, rpFaults>>

\* upsert_sql: a bucket adds what the drain read to what it holds.
Upserted(rows, taken) ==
  [r \in RpRequests |-> IF r \in taken THEN rows[r] + 1 ELSE rows[r]]

\* prune: minutes that fell out of retention leave the minute table; the hour
\* table outlives the clock of the model.
Pruned(rows) ==
  [r \in RpRequests |-> IF rpReq[r].minute < rpMinute - MinuteKept
                        THEN 0 ELSE rows[r]]

\* One transaction writes both tables, the single samples and the retention.
Persist ==
  /\ rpFlush.stage = "write"
  /\ minuteRows' = Pruned(Upserted(minuteRows, rpFlush.counted))
  /\ hourRows' = Upserted(hourRows, rpFlush.counted)
  /\ slowRows' = slowRows \union rpFlush.slow
  /\ rpPage' = IF rpPage.stage = "live" THEN [rpPage EXCEPT !.crossed = TRUE]
               ELSE rpPage
  /\ rpFlush' = NoFlush
  /\ UNCHANGED <<rpMinute, rpReq, registry, cell, slowWindow, rpLate, rpLost,
                 rpFaults>>

\* It fails, and what it had taken is gone: persist_periodically only logs.
PersistFails ==
  /\ rpFlush.stage = "write" /\ rpFaults < MaxRpFaults
  /\ rpLost' = rpLost \union rpFlush.counted
  /\ rpFaults' = rpFaults + 1
  /\ rpFlush' = NoFlush
  /\ UNCHANGED <<rpMinute, rpReq, registry, cell, slowWindow, minuteRows,
                 hourRows, slowRows, rpPage, rpLate>>

----------------------------------------------------------------------------
(* The page: route_performance_view *)

Registered(r) == \E m \in Minutes : registry[m] # NoCell /\
                                    r \in cell[registry[m]].counted

\* live reads the registered cells, before the blocking read of the buckets.
\* (A pass that already holds cells crosses the page like one that commits.)
PageLive ==
  /\ rpPage.stage # "live"
  /\ rpPage' = [NoPage EXCEPT !.stage = "live",
                  !.live = {r \in RpRequests : Registered(r)},
                  !.crossed = rpFlush.stage # "idle"]
  /\ UNCHANGED <<rpMinute, rpReq, registry, cell, slowWindow, rpFlush,
                 minuteRows, hourRows, slowRows, rpLate, rpLost, rpFaults>>

\* load adds the live requests to the rows of one window.
PageLoad(rows) ==
  /\ rpPage.stage = "live"
  /\ rpPage' = [rpPage EXCEPT !.stage = "shown",
                  !.shown = Upserted(rows, rpPage.live)]
  /\ UNCHANGED <<rpMinute, rpReq, registry, cell, slowWindow, rpFlush,
                 minuteRows, hourRows, slowRows, rpLate, rpLost, rpFaults>>

RpTick ==
  /\ rpMinute < MaxMinute
  /\ rpMinute' = rpMinute + 1
  /\ UNCHANGED <<rpReq, registry, cell, slowWindow, rpFlush, minuteRows,
                 hourRows, slowRows, rpPage, rpLate, rpLost, rpFaults>>

RpNext ==
  \/ \E r \in RpRequests :
       Find(r) \/ Count(r) \/ Band(r) \/ Slow(r) \/ DrainCounts(r)
         \/ DrainBands(r)
  \/ TakeClosed \/ TakeSlow \/ Persist \/ PersistFails
  \/ PageLive \/ PageLoad(minuteRows) \/ PageLoad(hourRows)
  \/ RpTick

RpSpec == RpInit /\ [][RpNext]_rpVars

----------------------------------------------------------------------------
(* Properties *)

Counted(r) == rpReq[r].stage \in {"counted", "banded", "done"}
InHand(r) == r \in rpFlush.counted \/ \E c \in rpFlush.todo : r \in cell[c].counted

\* Every counted request is in exactly one place: in a registered cell, in the
\* hands of the pass that took it, or once in the hour buckets - except one
\* whose transaction failed and one that added to a cell after the pass had
\* read it.  A page that no pass crossed never shows a request twice.  (The
\* flush keeps its own claim on every sample: take_closed removes what it
\* reads, live removes nothing, the page adds both halves.)
RecordedOnce ==
  /\ \A r \in RpRequests :
       hourRows[r] + (IF Registered(r) THEN 1 ELSE 0)
         + (IF InHand(r) THEN 1 ELSE 0)
         + (IF r \in rpLost \union rpLate THEN 1 ELSE 0)
         = IF Counted(r) THEN 1 ELSE 0
  /\ rpPage.stage = "shown" /\ ~rpPage.crossed =>
       \A r \in RpRequests : rpPage.shown[r] <= 1

=============================================================================
