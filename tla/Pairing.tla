------------------------------- MODULE Pairing -------------------------------
(***************************************************************************)
(* One device pairing: the row of pairings.sqlite3, the Worker it becomes  *)
(* in its owner's database, the accounts that approve, cancel and remove   *)
(* it, and the device that polls.                                          *)
(*                                                                         *)
(* approve and delete_worker hold worker_pairing_lock over several         *)
(* closures, each of them one transaction of one database.  A request that *)
(* is dropped releases the lock, yet the closure it had already handed to *)
(* a thread still runs.  Rate limits and the codes themselves are left     *)
(* out.                                                                    *)
(***************************************************************************)
EXTENDS Naturals

CONSTANTS
    Accounts,  \* accounts that have the code
    Nobody     \* no account

ASSUME PairingAssumption == Nobody \notin Accounts

VARIABLES
    pairing,   \* the device_pairings row
    tenant,    \* the Worker's row in each account's database
    pairLock,      \* holder of worker_pairing_lock
    approval,  \* the approve request of each account
    removal,   \* the delete_worker request of each account
    polled     \* what the device last heard

pairVars == <<pairing, tenant, pairLock, approval, removal, polled>>

PairStatus == {"pending", "approving", "approved", "cancelled"}

PairTypeOK ==
    /\ pairing \in [status : PairStatus \cup {"none"}, owner : Accounts \cup {Nobody},
                    expired : BOOLEAN]
    /\ tenant \in [Accounts -> {"none", "live", "deleted"}]
    /\ pairLock \in Accounts \cup {Nobody}
    /\ approval \in [Accounts -> {"idle", "insert", "finish", "late insert", "late finish"}]
    /\ removal \in [Accounts -> {"idle", "delete", "late delete"}]
    /\ polled \in [status : PairStatus, owner : Accounts \cup {Nobody}]

\* start: the device has shown its code.
PairInit ==
    /\ pairing = [status |-> "pending", owner |-> Nobody, expired |-> FALSE]
    /\ tenant = [u \in Accounts |-> "none"]
    /\ pairLock = Nobody
    /\ approval = [u \in Accounts |-> "idle"]
    /\ removal = [u \in Accounts |-> "idle"]
    /\ polled = [status |-> "pending", owner |-> Nobody]

\* view: what an account is shown; an approved pairing does not expire.
Shown == IF pairing.expired /\ pairing.status # "approved" THEN "expired" ELSE pairing.status

\* approve, first transaction: the owner is bound before anything else.
Bind(u) ==
    /\ pairLock = Nobody /\ approval[u] = "idle"
    /\ pairing.owner \in {Nobody, u}
    /\ Shown \in {"pending", "approving"}
    /\ pairing' = [pairing EXCEPT !.status = "approving", !.owner = u]
    /\ pairLock' = u
    /\ approval' = [approval EXCEPT ![u] = "insert"]
    /\ UNCHANGED <<tenant, removal, polled>>

\* INSERT INTO workers ... ON CONFLICT DO NOTHING in the owner's database; the
\* request of a caller that left ends here, any other goes on.
InsertWorker(u) ==
    /\ approval[u] \in {"insert", "late insert"}
    /\ tenant' = [tenant EXCEPT ![u] = IF @ = "none" THEN "live" ELSE @]
    /\ approval' = [approval EXCEPT ![u] = IF @ = "insert" THEN "finish" ELSE "idle"]
    /\ UNCHANGED <<pairing, pairLock, removal, polled>>

\* The owner's database is unavailable: the request fails, the owner stays bound.
InsertFails(u) ==
    /\ approval[u] = "insert"
    /\ approval' = [approval EXCEPT ![u] = "idle"]
    /\ pairLock' = Nobody
    /\ UNCHANGED <<pairing, tenant, removal, polled>>

\* Mutant: the last update does not look at the status.
FinishAnyStatus(u) ==
    /\ approval[u] \in {"finish", "late finish"}
    /\ pairing' = [pairing EXCEPT !.status = "approved", !.expired = FALSE]
    /\ approval' = [approval EXCEPT ![u] = "idle"]
    /\ pairLock' = IF pairLock = u /\ approval[u] = "finish" THEN Nobody ELSE pairLock
    /\ UNCHANGED <<tenant, removal, polled>>

\* approve, last transaction: 'approved' if it is still 'approving'.
FinishApproval(u) ==
    /\ approval[u] \in {"finish", "late finish"}
    /\ pairing' = IF pairing.status = "approving"
                  THEN [pairing EXCEPT !.status = "approved", !.expired = FALSE]
                  ELSE pairing
    /\ approval' = [approval EXCEPT ![u] = "idle"]
    /\ pairLock' = IF pairLock = u /\ approval[u] = "finish" THEN Nobody ELSE pairLock
    /\ UNCHANGED <<tenant, removal, polled>>

\* cancel: by any account, without the lock, of a pending pairing only.
CancelPairing(u) ==
    /\ pairing.status = "pending" /\ ~pairing.expired
    /\ pairing' = [pairing EXCEPT !.status = "cancelled", !.owner = u]
    /\ UNCHANGED <<tenant, pairLock, approval, removal, polled>>

\* delete_worker: the pairing of the Worker is revoked first.
RevokePairing(u) ==
    /\ pairLock = Nobody /\ removal[u] = "idle"
    /\ tenant[u] = "live"
    /\ pairing' = IF pairing.owner = u THEN [pairing EXCEPT !.status = "cancelled"] ELSE pairing
    /\ pairLock' = u
    /\ removal' = [removal EXCEPT ![u] = "delete"]
    /\ UNCHANGED <<tenant, approval, polled>>

\* delete_worker: then its row becomes a tombstone.
DeleteRow(u) ==
    /\ removal[u] \in {"delete", "late delete"}
    /\ tenant' = [tenant EXCEPT ![u] = "deleted"]
    /\ removal' = [removal EXCEPT ![u] = "idle"]
    /\ pairLock' = IF pairLock = u /\ removal[u] = "delete" THEN Nobody ELSE pairLock
    /\ UNCHANGED <<pairing, approval, polled>>

\* The caller leaves, or the Controller stops: the lock is free, and the
\* closure at work may still run.
DropRequest(u) ==
    /\ \/ /\ approval[u] \in {"insert", "finish"}
          /\ \/ approval' = [approval EXCEPT ![u] = IF @ = "insert" THEN "late insert"
                                                    ELSE "late finish"]
             \/ approval' = [approval EXCEPT ![u] = "idle"]
          /\ UNCHANGED removal
       \/ /\ removal[u] = "delete"
          /\ \/ removal' = [removal EXCEPT ![u] = "late delete"]
             \/ removal' = [removal EXCEPT ![u] = "idle"]
          /\ UNCHANGED approval
    /\ pairLock' = Nobody
    /\ UNCHANGED <<pairing, tenant, polled>>

\* Ten minutes go by; approval starts them again.
Expire ==
    /\ pairing.status # "none" /\ ~pairing.expired
    /\ pairing' = [pairing EXCEPT !.expired = TRUE]
    /\ UNCHANGED <<tenant, pairLock, approval, removal, polled>>

\* start, by another device: rows a day past their end are deleted.
Forget ==
    /\ pairing.expired
    /\ \A u \in Accounts : approval[u] = "idle"
    /\ pairing' = [status |-> "none", owner |-> Nobody, expired |-> TRUE]
    /\ UNCHANGED <<tenant, pairLock, approval, removal, polled>>

\* poll: an expired pairing is gone, also an approved one.
Poll ==
    /\ pairing.status # "none" /\ ~pairing.expired
    /\ polled' = [status |-> pairing.status, owner |-> pairing.owner]
    /\ polled' # polled
    /\ UNCHANGED <<pairing, tenant, pairLock, approval, removal>>

PairNext ==
    \/ \E u \in Accounts :
          \/ Bind(u) \/ InsertWorker(u) \/ InsertFails(u) \/ FinishApproval(u)
          \/ CancelPairing(u) \/ RevokePairing(u) \/ DeleteRow(u) \/ DropRequest(u)
    \/ Expire \/ Forget \/ Poll

PairSpec == PairInit /\ [][PairNext]_pairVars

-----------------------------------------------------------------------------
(* Properties.                                                             *)

\* However approvals, retries, cancellations and removals race, the Worker
\* exists in the database of one account only, the one the pairing is bound to
\* while the row is kept (approve binds the owner before it touches a tenant).
OneTenant ==
    /\ \A u, v \in Accounts : tenant[u] # "none" /\ tenant[v] # "none" => u = v
    /\ \A u \in Accounts : tenant[u] # "none" /\ pairing.status # "none" => pairing.owner = u

\* A pairing that says 'approved' belongs to a Worker that is there: the device
\* is never told to use a Worker that was removed or not created, although
\* provisioning and removal write two databases and may be dropped in between.
ApprovedIsUsable ==
    pairing.status = "approved" => tenant[pairing.owner] = "live"

\* What a pairing leaves behind.
PairingSound == OneTenant /\ ApprovedIsUsable

=============================================================================
