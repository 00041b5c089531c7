---------------------------- MODULE ThreadSharing ----------------------------
(***************************************************************************)
(* Threads an owner shares with one viewer: the grants in the owner's      *)
(* database, the tombstones a deleted Thread leaves, the rows by which the *)
(* viewer finds them, and the pages of that list.                          *)
(*                                                                         *)
(* A grant cycle is a number, 0 is none.  The clock has one tick per       *)
(* second; cycles may start in the same second.  The write to the viewer's *)
(* database and its acknowledgement are one step with the outcomes they    *)
(* can leave.  What a shared record shows of its payload is left out.      *)
(***************************************************************************)
EXTENDS Naturals, FiniteSets

CONSTANTS
    TsThreads,    \* ids of the owner's Threads, ordered as SQLite orders them
    PageLimit,    \* entries of a page
    MaxChanges,   \* bound: revisions of one grant
    MaxClock      \* bound: ticks of the clock

ASSUME ThreadSharingAssumption ==
    /\ IsFiniteSet(TsThreads) /\ TsThreads \subseteq Nat \ {0}
    /\ PageLimit \in Nat \ {0} /\ MaxChanges \in Nat /\ MaxClock \in Nat

VARIABLES
    tsThread,   \* the owner's Threads: exist or deleted
    tsGrant,    \* thread_grants
    tsSeen,     \* shared_threads of the viewer
    tsClock,    \* unix time, as the owner's Controller reads it
    tsPage      \* a viewer going through the pages of its list

tsVars == <<tsThread, tsGrant, tsSeen, tsClock, tsPage>>

TsRevisions == 0..MaxChanges
Clock == 0..MaxClock
NoCursor == [at |-> MaxClock + 1, thread |-> 0]
Row == [cycle : TsRevisions, revoked : BOOLEAN, revision : TsRevisions, at : Clock]

TsTypeOK ==
    /\ tsThread \in [TsThreads -> {"exists", "deleted"}]
    /\ tsGrant \in [TsThreads -> [row : Row, synced : TsRevisions]]
    /\ tsSeen \in [TsThreads -> [row : Row, hidden : BOOLEAN]]
    /\ tsClock \in Clock
    /\ tsPage \in [open : BOOLEAN, cursor : [at : 0..(MaxClock + 1), thread : TsThreads \cup {0}],
                   rows : SUBSET TsThreads, shown : SUBSET TsThreads,
                   steady : SUBSET TsThreads]

NoRow == [cycle |-> 0, revoked |-> TRUE, revision |-> 0, at |-> 0]

TsInit ==
    /\ tsThread = [t \in TsThreads |-> "exists"]
    /\ tsGrant = [t \in TsThreads |-> [row |-> NoRow, synced |-> 0]]
    /\ tsSeen = [t \in TsThreads |-> [row |-> NoRow, hidden |-> FALSE]]
    /\ tsClock = 0
    /\ tsPage = [open |-> FALSE, cursor |-> NoCursor, rows |-> {}, shown |-> {},
                 steady |-> {}]

-----------------------------------------------------------------------------
(* The owner.                                                              *)

\* The upsert of sync_grants: a newer revision replaces the row, and another
\* cycle shows a hidden Thread again.
Upserted(seen, row) ==
    IF row.revision > seen.row.revision
    THEN [row |-> row, hidden |-> seen.hidden /\ seen.row.cycle = row.cycle]
    ELSE seen

\* An entry that moves or leaves is no longer one a reader must find once.
Steady(seen) == {t \in tsPage.steady : seen[t] = tsSeen[t]}
Seen(seen) ==
    /\ tsSeen' = seen
    /\ tsPage' = [tsPage EXCEPT !.steady = Steady(seen)]

\* sync_grants for one relation: done, not acknowledged, or put off.
SyncRow(t, row, synced) ==
    \/ /\ Seen([tsSeen EXCEPT ![t] = Upserted(@, row)])
       /\ tsGrant' \in {[tsGrant EXCEPT ![t] = [row |-> row, synced |-> row.revision]],
                        [tsGrant EXCEPT ![t] = [row |-> row, synced |-> synced]]}
    \/ /\ tsGrant' = [tsGrant EXCEPT ![t] = [row |-> row, synced |-> synced]]
       /\ UNCHANGED <<tsSeen, tsPage>>

TsGrant(t) == tsGrant[t].row
CanChange(t) == tsThread[t] = "exists" /\ TsGrant(t).revision < MaxChanges

\* change_grant: a new cycle, unless one is in force.
Share(t) ==
    /\ CanChange(t) /\ TsGrant(t).revoked
    /\ LET next == TsGrant(t).revision + 1
       IN  SyncRow(t, [cycle |-> next, revoked |-> FALSE, revision |-> next, at |-> tsClock],
                   tsGrant[t].synced)
    /\ UNCHANGED <<tsThread, tsClock>>

RevokedRow(row) == [row EXCEPT !.revoked = TRUE, !.revision = @ + 1]

\* change_grant, revoking.
Unshare(t) ==
    /\ CanChange(t) /\ ~TsGrant(t).revoked
    /\ SyncRow(t, RevokedRow(TsGrant(t)), tsGrant[t].synced)
    /\ UNCHANGED <<tsThread, tsClock>>

\* Mutant: the trigger keeps the revision, so nothing is left to be synced.
BuriedSilently(grant) == [grant EXCEPT !.row.revoked = TRUE]

\* The trigger threads_revoke_shares: the grant outlives the Thread, as a
\* tombstone with a revision of its own.
Buried(grant) ==
    IF grant.row.revoked THEN grant ELSE [grant EXCEPT !.row = RevokedRow(@)]

DeleteSharedThread(t) ==
    /\ CanChange(t)
    /\ tsThread' = [tsThread EXCEPT ![t] = "deleted"]
    /\ tsGrant' = [tsGrant EXCEPT ![t] = Buried(@)]
    /\ UNCHANGED <<tsSeen, tsClock, tsPage>>

\* The supervisor's pass over the relations that are not synced.
SyncLater(t) ==
    /\ TsGrant(t).revision > tsGrant[t].synced
    /\ SyncRow(t, TsGrant(t), tsGrant[t].synced)
    /\ UNCHANGED <<tsThread, tsClock>>

SyncReaches(t) == SyncLater(t) /\ tsGrant'[t].synced = TsGrant(t).revision

Tick == tsClock < MaxClock /\ tsClock' = tsClock + 1
        /\ UNCHANGED <<tsThread, tsGrant, tsSeen, tsPage>>

-----------------------------------------------------------------------------
(* The viewer.                                                             *)

\* visibility: only of a row that is not revoked.
Hide(t) ==
    /\ ~tsSeen[t].row.revoked
    /\ Seen([tsSeen EXCEPT ![t].hidden = ~@])
    /\ UNCHANGED <<tsThread, tsGrant, tsClock>>

\* The key of the list, newest first: (shared_at, thread_id) < (?2, ?4).
Before(t, cursor) ==
    \/ tsSeen[t].row.at < cursor.at
    \/ tsSeen[t].row.at = cursor.at /\ t < cursor.thread

Listed == {t \in TsThreads : ~tsSeen[t].row.revoked /\ ~tsSeen[t].hidden}

\* The last entry of a page that begins after the cursor.
CursorOf(t) == [at |-> tsSeen[t].row.at, thread |-> t]

\* Mutant: the cursor is the time alone.
RestInTime(cursor) == {t \in Listed : tsSeen[t].row.at < cursor.at}

\* What the next pages still have to show.
Rest(cursor) == {t \in Listed : Before(t, cursor)}
Ahead(t, cursor) == {u \in Rest(cursor) : u = t \/ ~Before(u, CursorOf(t))}

\* discovery: a page of the viewer's rows; `more` leaves a cursor.
ReadPage ==
    /\ tsPage.rows = {}
    /\ tsPage.open \/ tsPage.cursor = NoCursor
    /\ LET cursor == tsPage.cursor
           page == {t \in Rest(cursor) : Cardinality(Ahead(t, cursor)) <= PageLimit}
           last == {t \in page : Ahead(t, cursor) = page}
       IN  /\ tsPage' =
                [open |-> page # Rest(cursor),
                 cursor |-> IF page # Rest(cursor) THEN CursorOf(CHOOSE t \in last : TRUE)
                            ELSE NoCursor,
                 rows |-> page,
                 shown |-> IF tsPage.open THEN tsPage.shown ELSE {},
                 steady |-> IF tsPage.open THEN tsPage.steady ELSE Listed]
    /\ UNCHANGED <<tsThread, tsGrant, tsSeen, tsClock>>

\* list: what the source still grants, in the very cycle the row was read for,
\* is shown; anything else is dropped from the page.  The row may have changed
\* since: its cycle is then another.
ShowPage ==
    /\ tsPage.rows # {}
    /\ LET granted == {t \in tsPage.rows :
                         /\ tsThread[t] = "exists"
                         /\ ~TsGrant(t).revoked
                         /\ TsGrant(t).cycle = tsSeen[t].row.cycle}
       IN  tsPage' = [tsPage EXCEPT !.shown = @ \cup granted, !.rows = {},
                                    !.steady = @ \ (tsPage.rows \ granted)]
    /\ UNCHANGED <<tsThread, tsGrant, tsSeen, tsClock>>

TsNext ==
    \/ \E t \in TsThreads :
          Share(t) \/ Unshare(t) \/ DeleteSharedThread(t) \/ SyncLater(t) \/ Hide(t)
    \/ Tick \/ ReadPage \/ ShowPage

TsFairness == \A t \in TsThreads : WF_tsVars(SyncReaches(t))

TsSpec == TsInit /\ [][TsNext]_tsVars /\ TsFairness

-----------------------------------------------------------------------------
(* Properties.                                                             *)

\* A viewer who pages to the end of the list has been shown every Thread that
\* was shared with it all the while and did not move, whatever was shared,
\* revoked, hidden or deleted between two pages and however many Threads were
\* shared in the same second.
PagesSkipNothing ==
    ~tsPage.open /\ tsPage.rows = {} => tsPage.steady \subseteq tsPage.shown

\* A revocation reaches the viewer's list although the Thread, and with it the
\* owner's request, is gone: the tombstone is kept until it is synced.
RevocationReachesViewer ==
    \A t \in TsThreads : []<>(TsGrant(t).revoked => tsSeen[t].row.revoked)

=============================================================================
