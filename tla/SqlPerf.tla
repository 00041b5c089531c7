------------------------------- MODULE SqlPerf -------------------------------
(***************************************************************************)
(* The recorder of SQL statements (src/cloud/sql_performance.rs).  A       *)
(* statement that ends finds or claims the slot of its key in a fixed      *)
(* table with relaxed atomics and no lock, and adds to its counters.  The  *)
(* counters only grow: the flush writes the difference to what it saw      *)
(* last, and a page reads the same difference without consuming it.        *)
(*                                                                         *)
(* A counter is the number of statements and the number of bands added to; *)
(* sums and maxima are left out with the durations, and so is what the     *)
(* recorder says of its own cost (overhead_tick).  A key is a number, its  *)
(* first slot its low bits.                                                *)
(***************************************************************************)
EXTENDS Integers, FiniteSets

CONSTANTS Executions,   \* the statements executed, each on its own thread
          SqlKeys,      \* their keys: positive numbers (0 is a free slot)
          SLOTS, PROBE, \* the size of the table and the depth of a probe
          MaxPages,     \* bound: pages read
          MaxCounted,   \* bound: no flush once a key has more in the buckets
          MaxSqFaults   \* bound: transactions that fail

ASSUME SqlPerfAssumption ==
  /\ IsFiniteSet(Executions)
  /\ SqlKeys \subseteq Nat \ {0}
  /\ SLOTS \in Nat /\ PROBE \in 1..SLOTS

Slots == 0..(SLOTS - 1)
Zero == [statements |-> 0, bands |-> 0]

VARIABLES
  sqEnabled,      \* ENABLED
  sqExec,         \* a statement's stage in record, its key, probe and slot
  table,          \* TABLE: slot -> key and counter
  lastSeen,       \* seen(): key -> the counter the flush saw last
  unattributed,   \* UNATTRIBUTED
  sqReader,       \* who walks the table in `differences`, and how far
  sqTaken,        \* the differences the flush will write, added up by key
  sqRows,         \* the buckets: key -> counter
  sqPage,         \* the page: stage, and what it shows of each key
  sqPages,
  sqLost,         \* history: keys of a transaction that failed
  sqFaults

sqVars == <<sqEnabled, sqExec, table, lastSeen, unattributed, sqReader, sqTaken,
            sqRows, sqPage, sqPages, sqLost, sqFaults>>

NoReader == [who |-> "nobody", slot |-> 0, read |-> -1]
NoRows == [k \in SqlKeys |-> Zero]

SqInit ==
  /\ sqEnabled = TRUE
  /\ \E of \in [Executions -> SqlKeys] :
       sqExec = [e \in Executions |->
                   [stage |-> "started", key |-> of[e], offset |-> 0, slot |-> 0]]
  /\ table = [s \in Slots |-> [key |-> 0, statements |-> 0, bands |-> 0]]
  /\ lastSeen = NoRows
  /\ unattributed = 0
  /\ sqReader = NoReader
  /\ sqTaken = NoRows
  /\ sqRows = NoRows
  /\ sqPage = [stage |-> "none", shown |-> NoRows]
  /\ sqPages = 0
  /\ sqLost = {}
  /\ sqFaults = 0

Counters == [SqlKeys -> [statements : Nat, bands : Nat]]

SqTypeOK ==
  /\ sqEnabled \in BOOLEAN
  /\ \A e \in Executions :
       /\ sqExec[e].stage \in {"started", "probe", "claim", "add", "band", "done"}
       /\ sqExec[e].key \in SqlKeys /\ sqExec[e].slot \in Slots
       /\ sqExec[e].offset \in 0..PROBE
  /\ table \in [Slots -> [key : SqlKeys \union {0}, statements : Nat, bands : Nat]]
  /\ lastSeen \in Counters /\ sqTaken \in Counters /\ sqRows \in Counters
  /\ unattributed \in 0..Cardinality(Executions)
  /\ sqReader.who \in {"nobody", "flush", "page"}
  /\ sqPage.stage \in {"none", "rows", "shown"} /\ sqPage.shown \in Counters

----------------------------------------------------------------------------
(* The statement: record and slot_for *)

ExecStep(e, exec) == sqExec' = [sqExec EXCEPT ![e] = exec]

\* record starts, unless the recorder is off.
Start(e) ==
  /\ sqExec[e].stage = "started"
  /\ ExecStep(e, [sqExec[e] EXCEPT !.stage = IF sqEnabled THEN "probe" ELSE "done"])
  /\ UNCHANGED <<sqEnabled, table, lastSeen, unattributed, sqReader, sqTaken,
                 sqRows, sqPage, sqPages, sqLost, sqFaults>>

ProbedSlot(exec) == ((exec.key % SLOTS) + exec.offset) % SLOTS

\* One slot of the probe: its key is this one, it is free, or it is another's.
\* A probe that reaches its depth counts the statement as unattributed.
Probed(exec, key) ==
  CASE key = exec.key -> [exec EXCEPT !.stage = "add", !.slot = ProbedSlot(exec)]
    [] key = 0        -> [exec EXCEPT !.stage = "claim"]
    [] OTHER          -> [exec EXCEPT !.offset = @ + 1]

Probe(e) ==
  /\ sqExec[e].stage = "probe"
  /\ IF sqExec[e].offset = PROBE
     THEN /\ unattributed' = unattributed + 1
          /\ ExecStep(e, [sqExec[e] EXCEPT !.stage = "done"])
     ELSE /\ ExecStep(e, Probed(sqExec[e], table[ProbedSlot(sqExec[e])].key))
          /\ UNCHANGED unattributed
  /\ UNCHANGED <<sqEnabled, table, lastSeen, sqReader, sqTaken, sqRows, sqPage,
                 sqPages, sqLost, sqFaults>>

\* compare_exchange(0, key).  A claim that fails goes on to the next slot and
\* does not look at the key that won.
Claim(e) ==
  LET slot == ProbedSlot(sqExec[e]) IN
  /\ sqExec[e].stage = "claim"
  /\ IF table[slot].key = 0
     THEN /\ table' = [table EXCEPT ![slot].key = sqExec[e].key]
          /\ ExecStep(e, [sqExec[e] EXCEPT !.stage = "add", !.slot = slot])
     ELSE /\ ExecStep(e, [sqExec[e] EXCEPT !.stage = "probe", !.offset = @ + 1])
          /\ UNCHANGED table
  /\ UNCHANGED <<sqEnabled, lastSeen, unattributed, sqReader, sqTaken, sqRows,
                 sqPage, sqPages, sqLost, sqFaults>>

\* statements.fetch_add, and some operations later bands[..].fetch_add.
Add(e) ==
  /\ sqExec[e].stage = "add"
  /\ table' = [table EXCEPT ![sqExec[e].slot].statements = @ + 1]
  /\ ExecStep(e, [sqExec[e] EXCEPT !.stage = "band"])
  /\ UNCHANGED <<sqEnabled, lastSeen, unattributed, sqReader, sqTaken, sqRows,
                 sqPage, sqPages, sqLost, sqFaults>>

AddBand(e) ==
  /\ sqExec[e].stage = "band"
  /\ table' = [table EXCEPT ![sqExec[e].slot].bands = @ + 1]
  /\ ExecStep(e, [sqExec[e] EXCEPT !.stage = "done"])
  /\ UNCHANGED <<sqEnabled, lastSeen, unattributed, sqReader, sqTaken, sqRows,
                 sqPage, sqPages, sqLost, sqFaults>>

\* The administrator's switch: sql_performance_toggle.
SetEnabled ==
  /\ sqEnabled' = ~sqEnabled
  /\ UNCHANGED <<sqExec, table, lastSeen, unattributed, sqReader, sqTaken,
                 sqRows, sqPage, sqPages, sqLost, sqFaults>>

----------------------------------------------------------------------------
(* The reading side: differences, which holds the lock of `seen` throughout *)

Monus(a, b) == IF a > b THEN a - b ELSE 0

\* Counter::since, and what is added of it: nothing without a statement.
Since(current, last) ==
  LET gained == Monus(current.statements, last.statements) IN
  IF gained = 0 THEN Zero
  ELSE [statements |-> gained, bands |-> Monus(current.bands, last.bands)]

AddedTo(rows, key, counter) ==
  [rows EXCEPT ![key] = [statements |-> @.statements + counter.statements,
                         bands |-> @.bands + counter.bands]]

\* A page that spends the reading.
ConsumesAlways(who) == who \in {"flush", "page"}

\* The page passes consume = FALSE, so that the flush keeps its own claim.
Consumes(who) == who = "flush"

Walk(who) == sqReader.who = who /\ sqReader.slot < SLOTS

NextSlot == [sqReader EXCEPT !.slot = @ + 1, !.read = -1]

\* A slot is read counter by counter: first the statements, later the bands.
ReadStatements ==
  /\ sqReader.who # "nobody" /\ sqReader.slot < SLOTS /\ sqReader.read = -1
  /\ sqReader' = IF table[sqReader.slot].key = 0 THEN NextSlot
                 ELSE [sqReader EXCEPT !.read = table[sqReader.slot].statements]
  /\ UNCHANGED <<sqEnabled, sqExec, table, lastSeen, unattributed, sqTaken,
                 sqRows, sqPage, sqPages, sqLost, sqFaults>>

ReadBands(who) ==
  LET slot == table[sqReader.slot]
      current == [statements |-> sqReader.read, bands |-> slot.bands]
      gained == Since(current, lastSeen[slot.key])
  IN
  /\ Walk(who) /\ sqReader.read # -1
  /\ lastSeen' = IF Consumes(who) THEN [lastSeen EXCEPT ![slot.key] = current]
                 ELSE lastSeen
  /\ IF who = "flush"
     THEN sqTaken' = AddedTo(sqTaken, slot.key, gained) /\ UNCHANGED sqPage
     ELSE /\ sqPage' = [sqPage EXCEPT !.shown = AddedTo(@, slot.key, gained)]
          /\ UNCHANGED sqTaken
  /\ sqReader' = NextSlot
  /\ UNCHANGED <<sqEnabled, sqExec, table, unattributed, sqRows, sqPages,
                 sqLost, sqFaults>>

----------------------------------------------------------------------------
(* persist_at and load *)

\* A pass of persist_periodically; it waits for a page that walks the table.
FlushStart ==
  /\ sqReader.who = "nobody" /\ sqTaken = NoRows
  /\ \A k \in SqlKeys : sqRows[k].statements <= MaxCounted
  /\ sqReader' = [who |-> "flush", slot |-> 0, read |-> -1]
  /\ UNCHANGED <<sqEnabled, sqExec, table, lastSeen, unattributed, sqTaken,
                 sqRows, sqPage, sqPages, sqLost, sqFaults>>

FlushWalked ==
  /\ sqReader.who = "flush" /\ sqReader.slot = SLOTS
  /\ sqReader' = NoReader
  /\ UNCHANGED <<sqEnabled, sqExec, table, lastSeen, unattributed, sqTaken,
                 sqRows, sqPage, sqPages, sqLost, sqFaults>>

\* The transaction adds the differences to the buckets of the minute and hour.
SqPersist ==
  /\ sqReader.who # "flush" /\ sqTaken # NoRows
  /\ sqRows' = [k \in SqlKeys |-> AddedTo(sqRows, k, sqTaken[k])[k]]
  /\ sqTaken' = NoRows
  /\ UNCHANGED <<sqEnabled, sqExec, table, lastSeen, unattributed, sqReader,
                 sqPage, sqPages, sqLost, sqFaults>>

\* It fails: `seen` has moved on already, so the difference is not read again.
SqPersistFails ==
  /\ sqReader.who # "flush" /\ sqTaken # NoRows /\ sqFaults < MaxSqFaults
  /\ sqFaults' = sqFaults + 1
  /\ sqLost' = sqLost \union {k \in SqlKeys : sqTaken[k] # Zero}
  /\ sqTaken' = NoRows
  /\ UNCHANGED <<sqEnabled, sqExec, table, lastSeen, unattributed, sqReader,
                 sqRows, sqPage, sqPages>>

\* A page reads the buckets first and the differences after them.
PageRows ==
  /\ sqPage.stage # "rows" /\ sqPages < MaxPages
  /\ sqPages' = sqPages + 1
  /\ sqPage' = [stage |-> "rows", shown |-> sqRows]
  /\ UNCHANGED <<sqEnabled, sqExec, table, lastSeen, unattributed, sqReader,
                 sqTaken, sqRows, sqLost, sqFaults>>

PageDifferences ==
  /\ sqPage.stage = "rows" /\ sqReader.who = "nobody"
  /\ sqReader' = [who |-> "page", slot |-> 0, read |-> -1]
  /\ UNCHANGED <<sqEnabled, sqExec, table, lastSeen, unattributed, sqTaken,
                 sqRows, sqPage, sqPages, sqLost, sqFaults>>

PageShown ==
  /\ sqReader.who = "page" /\ sqReader.slot = SLOTS
  /\ sqReader' = NoReader
  /\ sqPage' = [sqPage EXCEPT !.stage = "shown"]
  /\ UNCHANGED <<sqEnabled, sqExec, table, lastSeen, unattributed, sqTaken,
                 sqRows, sqPages, sqLost, sqFaults>>

SqNext ==
  \/ \E e \in Executions : Start(e) \/ Probe(e) \/ Claim(e) \/ Add(e) \/ AddBand(e)
  \/ SetEnabled \/ ReadStatements
  \/ \E who \in {"flush", "page"} : ReadBands(who)
  \/ FlushStart \/ FlushWalked \/ SqPersist \/ SqPersistFails
  \/ PageRows \/ PageDifferences \/ PageShown

SqSpec == SqInit /\ [][SqNext]_sqVars

----------------------------------------------------------------------------
(* Properties *)

SlotsOf(k) == {s \in Slots : table[s].key = k}

\* While a key has one slot and no transaction of it failed, the buckets and
\* the differences in hand add up to what the flush saw, which never exceeds
\* the counter; a page never shows more statements of the key than were
\* executed, whatever flush crosses it.
SqlAddsUp ==
  \A k \in SqlKeys \ sqLost : \A s \in Slots : SlotsOf(k) = {s} =>
    /\ sqRows[k].statements + sqTaken[k].statements = lastSeen[k].statements
    /\ lastSeen[k].statements <= table[s].statements
    /\ sqRows[k].bands + sqTaken[k].bands <= table[s].bands
    /\ sqPage.shown[k].statements <= table[s].statements

=============================================================================
