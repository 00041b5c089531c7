---------------------------- MODULE DevicesProofs ----------------------------
(***************************************************************************)
(* Theorems about the smaller components of MCDevices (pairings, the       *)
(* driver of eXe devices, the recorders of routes and of SQL statements),  *)
(* and about all six of them side by side.  None of their bounds matters:  *)
(* any number of accounts, calls, requests, statements and faults.         *)
(***************************************************************************)
EXTENDS MCDevices, WorkersProofs, FiniteSetTheorems, TLAPS

-----------------------------------------------------------------------------
(* Pairing.                                                                *)

\* What approvals and removals under way may rely on.  An account approves
\* only what is bound to it, and finishes only once its Worker was inserted; an
\* account removes only a Worker it has, and its pairing is over by then.
AccountInv(u) ==
    /\ approval[u] # "idle" => pairing.status # "none" /\ pairing.owner = u
    /\ approval[u] \in {"finish", "late finish"} => tenant[u] # "none"
    /\ removal[u] # "idle" =>
          tenant[u] # "none" /\ pairing.status \in {"none", "cancelled"}
    /\ tenant[u] # "none" =>
          pairing.status = "none" \/ pairing.owner = u
    /\ tenant[u] = "deleted" => pairing.status \in {"none", "cancelled"}

\* A pairing that nobody approved is bound to nobody (so by AccountInv there is no
\* Worker of it anywhere), and one that says 'approved' has its Worker.
RowInv ==
    /\ pairing.status = "none" => pairing.owner = Nobody /\ pairing.expired
    /\ pairing.status = "pending" => pairing.owner = Nobody
    /\ pairing.status \in {"approving", "approved", "cancelled"} => pairing.owner \in Accounts
    /\ pairing.status = "approved" => tenant[pairing.owner] = "live"

\* Workers belong to one account even after their pairing was forgotten.
TenantInv == \A u, v \in Accounts : tenant[u] # "none" /\ tenant[v] # "none" => u = v

\* PairingSound and what makes it inductive.
PairingInv ==
    /\ PairTypeOK
    /\ RowInv
    /\ TenantInv
    /\ \A u \in Accounts : AccountInv(u)

-----------------------------------------------------------------------------
(* What the actions read and leave, field by field.                        *)

\* The values the row takes.
RowOK ==
    /\ pairing.status \in {"none", "pending", "approving", "approved", "cancelled"}
    /\ pairing.owner \in Accounts \cup {Nobody}

LEMMA PairRow == PairTypeOK => RowOK
  BY DEF PairTypeOK, RowOK, PairStatus

\* The row stands.
RowKept ==
    /\ pairing'.status = pairing.status
    /\ pairing'.owner = pairing.owner
    /\ pairing.expired => pairing'.expired

\* The requests of the account v and its Worker stand.
Kept(v) == tenant'[v] = tenant[v] /\ approval'[v] = approval[v] /\ removal'[v] = removal[v]

\* All but the account u stand.
OthersKept(u) == \A v \in Accounts : v = u \/ Kept(v)

-----------------------------------------------------------------------------
(* The invariant.                                                          *)

LEMMA PairInitInv == PairInit => PairingInv
  BY DEF PairInit, PairingInv, PairTypeOK, PairStatus, AccountInv, RowInv, TenantInv

LEMMA PairTypeStep == PairTypeOK /\ [PairNext]_pairVars => PairTypeOK'
  <1> SUFFICES ASSUME PairTypeOK, [PairNext]_pairVars PROVE PairTypeOK'
    OBVIOUS
  <1> USE DEF PairTypeOK, PairStatus
  <1>1. ASSUME NEW u \in Accounts, Bind(u) PROVE PairTypeOK'
    BY <1>1 DEF Bind
  <1>2. ASSUME NEW u \in Accounts, InsertWorker(u) \/ InsertFails(u) PROVE PairTypeOK'
    BY <1>2 DEF InsertWorker, InsertFails
  <1>3. ASSUME NEW u \in Accounts, FinishApproval(u) PROVE PairTypeOK'
    BY <1>3 DEF FinishApproval
  <1>4. ASSUME NEW u \in Accounts, CancelPairing(u) \/ RevokePairing(u) PROVE PairTypeOK'
    BY <1>4 DEF CancelPairing, RevokePairing
  <1>5. ASSUME NEW u \in Accounts, DeleteRow(u) PROVE PairTypeOK'
    BY <1>5 DEF DeleteRow
  <1>6. ASSUME NEW u \in Accounts, DropRequest(u) PROVE PairTypeOK'
    <2>1. approval' \in [Accounts -> {"idle", "insert", "finish", "late insert", "late finish"}]
      BY <1>6, Zenon DEF DropRequest, PairTypeOK
    <2>2. removal' \in [Accounts -> {"idle", "delete", "late delete"}]
      BY <1>6, Zenon DEF DropRequest, PairTypeOK
    <2> QED BY <1>6, <2>1, <2>2, Zenon DEF DropRequest, PairTypeOK
  <1>7. CASE Expire
    BY <1>7 DEF Expire
  <1>7a. CASE Forget
    BY <1>7a DEF Forget
  <1>7b. CASE Poll
    BY <1>7b DEF Poll
  <1>8. CASE UNCHANGED pairVars
    BY <1>8 DEF pairVars
  <1> QED BY <1>1, <1>2, <1>3, <1>4, <1>5, <1>6, <1>7, <1>7a, <1>7b, <1>8 DEF PairNext

\* PairingInv without the types.
Claims == RowInv /\ TenantInv /\ \A u \in Accounts : AccountInv(u)

LEMMA PairStep == PairingInv /\ [PairNext]_pairVars => PairingInv'
  <1> SUFFICES ASSUME PairingInv, [PairNext]_pairVars PROVE PairingInv'
    OBVIOUS
  <1>t. PairTypeOK /\ PairTypeOK'
    BY PairTypeStep DEF PairingInv
  <1>r. RowOK
    BY <1>t, PairRow
  <1>m. Claims
    BY DEF PairingInv, Claims
  <1>n. Nobody \notin Accounts
    BY PairingAssumption
  <1> USE <1>t
  <1> HIDE DEF PairTypeOK
  <1>1. ASSUME NEW u \in Accounts, Bind(u) PROVE Claims'
    <2>1. /\ pairing'.status = "approving" /\ pairing'.owner = u
          /\ pairing.owner \in {Nobody, u} /\ pairing.status \in {"pending", "approving"}
          /\ approval'[u] = "insert"
          /\ tenant'[u] = tenant[u]
          /\ removal'[u] = removal[u]
      BY <1>1 DEF Bind, Kept, RowKept, PairTypeOK, PairStatus, Shown
    <2>2. OthersKept(u)
      BY <1>1 DEF Bind, OthersKept, Kept, PairTypeOK
    <2>3. ASSUME NEW v \in Accounts PROVE AccountInv(v)'
      <3>1. RowInv /\ AccountInv(v) /\ AccountInv(u)
        BY <1>m DEF Claims
      <3>2. v = u \/ Kept(v)
        BY <2>2 DEF OthersKept
      <3> QED BY <3>1, <3>2, <2>1, <1>r, <1>n DEF RowInv, AccountInv, Kept, RowKept, RowOK
    <2>4. RowInv'
      <3>1. RowInv /\ AccountInv(u)
        BY <1>m DEF Claims
      <3>2. pairing.owner \in Accounts =>
              AccountInv(pairing.owner) /\ (pairing.owner = u \/ Kept(pairing.owner))
        BY <1>m, <2>2 DEF Claims, OthersKept
      <3> QED BY <3>1, <3>2, <2>1, <1>r, <1>n DEF RowInv, AccountInv, Kept, RowKept, RowOK
    <2>5. ASSUME NEW v \in Accounts, NEW w \in Accounts,
                 tenant'[v] # "none", tenant'[w] # "none"
          PROVE  v = w
      <3>1. RowInv /\ AccountInv(v) /\ AccountInv(w) /\ AccountInv(u)
        BY <1>m DEF Claims
      <3>2. (v = u \/ Kept(v)) /\ (w = u \/ Kept(w))
        BY <2>2 DEF OthersKept
      <3>3. tenant[v] # "none" /\ tenant[w] # "none" => v = w
        BY <1>m DEF Claims, TenantInv
      <3> QED BY <2>5, <3>1, <3>2, <3>3, <2>1, <1>r, <1>n DEF RowInv, AccountInv, Kept, RowKept, RowOK
    <2> QED BY <2>3, <2>4, <2>5 DEF Claims, TenantInv
  <1>2. ASSUME NEW u \in Accounts, InsertWorker(u) PROVE Claims'
    <2>1. /\ RowKept
          /\ approval[u] \in {"insert", "late insert"}
          /\ tenant[u] = "none" => tenant'[u] = "live"
          /\ tenant[u] # "none" => tenant'[u] = tenant[u]
          /\ approval'[u] = IF approval[u] = "insert" THEN "finish" ELSE "idle"
          /\ removal'[u] = removal[u]
      BY <1>2 DEF InsertWorker, Kept, RowKept, PairTypeOK, PairStatus
    <2>2. OthersKept(u)
      BY <1>2 DEF InsertWorker, OthersKept, Kept, PairTypeOK
    <2>3. ASSUME NEW v \in Accounts PROVE AccountInv(v)'
      <3>1. RowInv /\ AccountInv(v) /\ AccountInv(u)
        BY <1>m DEF Claims
      <3>2. v = u \/ Kept(v)
        BY <2>2 DEF OthersKept
      <3> QED BY <3>1, <3>2, <2>1, <1>r, <1>n DEF RowInv, AccountInv, Kept, RowKept, RowOK
    <2>4. RowInv'
      <3>1. RowInv /\ AccountInv(u)
        BY <1>m DEF Claims
      <3>2. pairing.owner \in Accounts =>
              AccountInv(pairing.owner) /\ (pairing.owner = u \/ Kept(pairing.owner))
        BY <1>m, <2>2 DEF Claims, OthersKept
      <3> QED BY <3>1, <3>2, <2>1, <1>r, <1>n DEF RowInv, AccountInv, Kept, RowKept, RowOK
    <2>5. ASSUME NEW v \in Accounts, NEW w \in Accounts,
                 tenant'[v] # "none", tenant'[w] # "none"
          PROVE  v = w
      <3>1. RowInv /\ AccountInv(v) /\ AccountInv(w) /\ AccountInv(u)
        BY <1>m DEF Claims
      <3>2. (v = u \/ Kept(v)) /\ (w = u \/ Kept(w))
        BY <2>2 DEF OthersKept
      <3>3. tenant[v] # "none" /\ tenant[w] # "none" => v = w
        BY <1>m DEF Claims, TenantInv
      <3>4. pairing.status # "none" /\ pairing.owner = u
        BY <3>1, <2>1 DEF AccountInv
      <3>5. ASSUME NEW z \in Accounts, z \in {v, w}, z # u PROVE FALSE
        <4>1. tenant[z] # "none" /\ AccountInv(z)
          <5>1. CASE z = v
            BY <5>1, <3>5, <3>1, <3>2, <2>5 DEF Kept
          <5>2. CASE z = w
            BY <5>2, <3>5, <3>1, <3>2, <2>5 DEF Kept
          <5> QED BY <5>1, <5>2, <3>5
        <4> QED BY <4>1, <3>4, <3>5 DEF AccountInv
      <3> QED BY <3>5
    <2> QED BY <2>3, <2>4, <2>5 DEF Claims, TenantInv
  <1>3. ASSUME NEW u \in Accounts, InsertFails(u) PROVE Claims'
    <2>1. /\ RowKept
          /\ approval'[u] = "idle"
          /\ tenant'[u] = tenant[u]
          /\ removal'[u] = removal[u]
      BY <1>3 DEF InsertFails, Kept, RowKept, PairTypeOK, PairStatus
    <2>2. OthersKept(u)
      BY <1>3 DEF InsertFails, OthersKept, Kept, PairTypeOK
    <2>3. ASSUME NEW v \in Accounts PROVE AccountInv(v)'
      <3>1. RowInv /\ AccountInv(v) /\ AccountInv(u)
        BY <1>m DEF Claims
      <3>2. v = u \/ Kept(v)
        BY <2>2 DEF OthersKept
      <3> QED BY <3>1, <3>2, <2>1, <1>r, <1>n DEF RowInv, AccountInv, Kept, RowKept, RowOK
    <2>4. RowInv'
      <3>1. RowInv /\ AccountInv(u)
        BY <1>m DEF Claims
      <3>2. pairing.owner \in Accounts =>
              AccountInv(pairing.owner) /\ (pairing.owner = u \/ Kept(pairing.owner))
        BY <1>m, <2>2 DEF Claims, OthersKept
      <3> QED BY <3>1, <3>2, <2>1, <1>r, <1>n DEF RowInv, AccountInv, Kept, RowKept, RowOK
    <2>5. ASSUME NEW v \in Accounts, NEW w \in Accounts,
                 tenant'[v] # "none", tenant'[w] # "none"
          PROVE  v = w
      <3>1. RowInv /\ AccountInv(v) /\ AccountInv(w) /\ AccountInv(u)
        BY <1>m DEF Claims
      <3>2. (v = u \/ Kept(v)) /\ (w = u \/ Kept(w))
        BY <2>2 DEF OthersKept
      <3>3. tenant[v] # "none" /\ tenant[w] # "none" => v = w
        BY <1>m DEF Claims, TenantInv
      <3> QED BY <2>5, <3>1, <3>2, <3>3, <2>1, <1>r, <1>n DEF RowInv, AccountInv, Kept, RowKept, RowOK
    <2> QED BY <2>3, <2>4, <2>5 DEF Claims, TenantInv
  <1>4. ASSUME NEW u \in Accounts, FinishApproval(u) PROVE Claims'
    <2>0. /\ approval[u] \in {"finish", "late finish"} /\ approval'[u] = "idle"
          /\ tenant'[u] = tenant[u]
          /\ removal'[u] = removal[u]
          /\ tenant[u] \in {"none", "live", "deleted"}
      BY <1>4 DEF FinishApproval, PairTypeOK
    <2>a. pairing.status # "approving" => RowKept
      BY <1>4 DEF FinishApproval, RowKept
    <2>b. ASSUME pairing.status = "approving"
          PROVE  pairing'.status = "approved" /\ pairing'.owner = pairing.owner
      <3>1. pairing' = [pairing EXCEPT !.status = "approved", !.expired = FALSE]
        BY <1>4, <2>b DEF FinishApproval
      <3> DEFINE r == [pairing EXCEPT !.status = "approved"]
      <3>2. /\ r.status = "approved" /\ r.owner = pairing.owner
            /\ r \in [status : {"approved"}, owner : Accounts \cup {Nobody}, expired : BOOLEAN]
        BY DEF PairTypeOK
      <3>3. pairing' = [r EXCEPT !.expired = FALSE]
        BY <3>1
      <3> HIDE DEF r
      <3> QED BY <3>2, <3>3
    <2>1. RowKept \/ /\ pairing.status = "approving"
                     /\ pairing'.status = "approved" /\ pairing'.owner = pairing.owner
      <3>1. CASE pairing.status = "approving"
        BY <3>1, <2>b
      <3>2. CASE pairing.status # "approving"
        BY <3>2, <2>a
      <3> QED BY <3>1, <3>2
    <2>2. OthersKept(u)
      BY <1>4 DEF FinishApproval, OthersKept, Kept, PairTypeOK
    <2>3. ASSUME NEW v \in Accounts PROVE AccountInv(v)'
      <3>1. RowInv /\ AccountInv(v) /\ AccountInv(u)
        BY <1>m DEF Claims
      <3>2. v = u \/ Kept(v)
        BY <2>2 DEF OthersKept
      <3> QED BY <3>1, <3>2, <2>0, <2>1, <1>r, <1>n DEF RowInv, AccountInv, Kept, RowKept, RowOK
    <2>4. RowInv'
      <3>1. RowInv /\ AccountInv(u)
        BY <1>m DEF Claims
      <3>2. pairing.owner \in Accounts =>
              AccountInv(pairing.owner) /\ (pairing.owner = u \/ Kept(pairing.owner))
        BY <1>m, <2>2 DEF Claims, OthersKept
      <3> QED BY <3>1, <3>2, <2>0, <2>1, <1>r, <1>n DEF RowInv, AccountInv, Kept, RowKept, RowOK
    <2>5. ASSUME NEW v \in Accounts, NEW w \in Accounts,
                 tenant'[v] # "none", tenant'[w] # "none"
          PROVE  v = w
      <3>1. RowInv /\ AccountInv(v) /\ AccountInv(w) /\ AccountInv(u)
        BY <1>m DEF Claims
      <3>2. (v = u \/ Kept(v)) /\ (w = u \/ Kept(w))
        BY <2>2 DEF OthersKept
      <3>3. tenant[v] # "none" /\ tenant[w] # "none" => v = w
        BY <1>m DEF Claims, TenantInv
      <3> QED BY <2>5, <3>1, <3>2, <3>3, <2>0, <2>1, <1>r, <1>n DEF RowInv, AccountInv, Kept, RowKept, RowOK
    <2> QED BY <2>3, <2>4, <2>5 DEF Claims, TenantInv
  <1>5. ASSUME NEW u \in Accounts, CancelPairing(u) PROVE Claims'
    <2>1. /\ pairing.status = "pending" /\ pairing'.status = "cancelled" /\ pairing'.owner = u
          /\ Kept(u)
      BY <1>5 DEF CancelPairing, Kept, RowKept, PairTypeOK, PairStatus
    <2>2. OthersKept(u)
      BY <1>5 DEF CancelPairing, OthersKept, Kept, PairTypeOK
    <2>3. ASSUME NEW v \in Accounts PROVE AccountInv(v)'
      <3>1. RowInv /\ AccountInv(v) /\ AccountInv(u)
        BY <1>m DEF Claims
      <3>2. v = u \/ Kept(v)
        BY <2>2 DEF OthersKept
      <3> QED BY <3>1, <3>2, <2>1, <1>r, <1>n DEF RowInv, AccountInv, Kept, RowKept, RowOK
    <2>4. RowInv'
      <3>1. RowInv /\ AccountInv(u)
        BY <1>m DEF Claims
      <3>2. pairing.owner \in Accounts =>
              AccountInv(pairing.owner) /\ (pairing.owner = u \/ Kept(pairing.owner))
        BY <1>m, <2>2 DEF Claims, OthersKept
      <3> QED BY <3>1, <3>2, <2>1, <1>r, <1>n DEF RowInv, AccountInv, Kept, RowKept, RowOK
    <2>5. ASSUME NEW v \in Accounts, NEW w \in Accounts,
                 tenant'[v] # "none", tenant'[w] # "none"
          PROVE  v = w
      <3>1. RowInv /\ AccountInv(v) /\ AccountInv(w) /\ AccountInv(u)
        BY <1>m DEF Claims
      <3>2. (v = u \/ Kept(v)) /\ (w = u \/ Kept(w))
        BY <2>2 DEF OthersKept
      <3>3. tenant[v] # "none" /\ tenant[w] # "none" => v = w
        BY <1>m DEF Claims, TenantInv
      <3> QED BY <2>5, <3>1, <3>2, <3>3, <2>1, <1>r, <1>n DEF RowInv, AccountInv, Kept, RowKept, RowOK
    <2> QED BY <2>3, <2>4, <2>5 DEF Claims, TenantInv
  <1>6. ASSUME NEW u \in Accounts, RevokePairing(u) PROVE Claims'
    <2>1. /\ tenant[u] = "live" /\ removal'[u] = "delete"
          /\ tenant'[u] = tenant[u]
          /\ approval'[u] = approval[u]
          /\ IF pairing.owner = u THEN pairing'.status = "cancelled" /\ pairing'.owner = u ELSE RowKept
      BY <1>6 DEF RevokePairing, Kept, RowKept, PairTypeOK, PairStatus
    <2>2. OthersKept(u)
      BY <1>6 DEF RevokePairing, OthersKept, Kept, PairTypeOK
    <2>3. ASSUME NEW v \in Accounts PROVE AccountInv(v)'
      <3>1. RowInv /\ AccountInv(v) /\ AccountInv(u)
        BY <1>m DEF Claims
      <3>2. v = u \/ Kept(v)
        BY <2>2 DEF OthersKept
      <3> QED BY <3>1, <3>2, <2>1, <1>r, <1>n DEF RowInv, AccountInv, Kept, RowKept, RowOK
    <2>4. RowInv'
      <3>1. RowInv /\ AccountInv(u)
        BY <1>m DEF Claims
      <3>2. pairing.owner \in Accounts =>
              AccountInv(pairing.owner) /\ (pairing.owner = u \/ Kept(pairing.owner))
        BY <1>m, <2>2 DEF Claims, OthersKept
      <3> QED BY <3>1, <3>2, <2>1, <1>r, <1>n DEF RowInv, AccountInv, Kept, RowKept, RowOK
    <2>5. ASSUME NEW v \in Accounts, NEW w \in Accounts,
                 tenant'[v] # "none", tenant'[w] # "none"
          PROVE  v = w
      <3>1. RowInv /\ AccountInv(v) /\ AccountInv(w) /\ AccountInv(u)
        BY <1>m DEF Claims
      <3>2. (v = u \/ Kept(v)) /\ (w = u \/ Kept(w))
        BY <2>2 DEF OthersKept
      <3>3. tenant[v] # "none" /\ tenant[w] # "none" => v = w
        BY <1>m DEF Claims, TenantInv
      <3> QED BY <2>5, <3>1, <3>2, <3>3, <2>1, <1>r, <1>n DEF RowInv, AccountInv, Kept, RowKept, RowOK
    <2> QED BY <2>3, <2>4, <2>5 DEF Claims, TenantInv
  <1>7. ASSUME NEW u \in Accounts, DeleteRow(u) PROVE Claims'
    <2>1. /\ RowKept
          /\ removal[u] # "idle" /\ removal'[u] = "idle" /\ tenant'[u] = "deleted"
          /\ approval'[u] = approval[u]
      BY <1>7 DEF DeleteRow, Kept, RowKept, PairTypeOK, PairStatus
    <2>2. OthersKept(u)
      BY <1>7 DEF DeleteRow, OthersKept, Kept, PairTypeOK
    <2>3. ASSUME NEW v \in Accounts PROVE AccountInv(v)'
      <3>1. RowInv /\ AccountInv(v) /\ AccountInv(u)
        BY <1>m DEF Claims
      <3>2. v = u \/ Kept(v)
        BY <2>2 DEF OthersKept
      <3> QED BY <3>1, <3>2, <2>1, <1>r, <1>n DEF RowInv, AccountInv, Kept, RowKept, RowOK
    <2>4. RowInv'
      <3>1. RowInv /\ AccountInv(u)
        BY <1>m DEF Claims
      <3>2. pairing.owner \in Accounts =>
              AccountInv(pairing.owner) /\ (pairing.owner = u \/ Kept(pairing.owner))
        BY <1>m, <2>2 DEF Claims, OthersKept
      <3> QED BY <3>1, <3>2, <2>1, <1>r, <1>n DEF RowInv, AccountInv, Kept, RowKept, RowOK
    <2>5. ASSUME NEW v \in Accounts, NEW w \in Accounts,
                 tenant'[v] # "none", tenant'[w] # "none"
          PROVE  v = w
      <3>1. RowInv /\ AccountInv(v) /\ AccountInv(w) /\ AccountInv(u)
        BY <1>m DEF Claims
      <3>2. (v = u \/ Kept(v)) /\ (w = u \/ Kept(w))
        BY <2>2 DEF OthersKept
      <3>3. tenant[v] # "none" /\ tenant[w] # "none" => v = w
        BY <1>m DEF Claims, TenantInv
      <3> QED BY <2>5, <3>1, <3>2, <3>3, <2>1, <1>r, <1>n DEF RowInv, AccountInv, Kept, RowKept, RowOK
    <2> QED BY <2>3, <2>4, <2>5 DEF Claims, TenantInv
  <1>8. ASSUME NEW u \in Accounts, DropRequest(u) PROVE Claims'
    <2>1. /\ RowKept
          /\ tenant'[u] = tenant[u]
          /\ approval'[u] \in {approval[u], "idle"} \/ (approval[u] = "insert" /\ approval'[u] = "late insert")
             \/ (approval[u] = "finish" /\ approval'[u] = "late finish")
          /\ removal'[u] # "idle" => removal[u] # "idle"
      BY <1>8 DEF DropRequest, Kept, RowKept, PairTypeOK, PairStatus
    <2>2. OthersKept(u)
      BY <1>8 DEF DropRequest, OthersKept, Kept, PairTypeOK
    <2>3. ASSUME NEW v \in Accounts PROVE AccountInv(v)'
      <3>1. RowInv /\ AccountInv(v) /\ AccountInv(u)
        BY <1>m DEF Claims
      <3>2. v = u \/ Kept(v)
        BY <2>2 DEF OthersKept
      <3> QED BY <3>1, <3>2, <2>1, <1>r, <1>n DEF RowInv, AccountInv, Kept, RowKept, RowOK
    <2>4. RowInv'
      <3>1. RowInv /\ AccountInv(u)
        BY <1>m DEF Claims
      <3>2. pairing.owner \in Accounts =>
              AccountInv(pairing.owner) /\ (pairing.owner = u \/ Kept(pairing.owner))
        BY <1>m, <2>2 DEF Claims, OthersKept
      <3> QED BY <3>1, <3>2, <2>1, <1>r, <1>n DEF RowInv, AccountInv, Kept, RowKept, RowOK
    <2>5. ASSUME NEW v \in Accounts, NEW w \in Accounts,
                 tenant'[v] # "none", tenant'[w] # "none"
          PROVE  v = w
      <3>1. RowInv /\ AccountInv(v) /\ AccountInv(w) /\ AccountInv(u)
        BY <1>m DEF Claims
      <3>2. (v = u \/ Kept(v)) /\ (w = u \/ Kept(w))
        BY <2>2 DEF OthersKept
      <3>3. tenant[v] # "none" /\ tenant[w] # "none" => v = w
        BY <1>m DEF Claims, TenantInv
      <3> QED BY <2>5, <3>1, <3>2, <3>3, <2>1, <1>r, <1>n DEF RowInv, AccountInv, Kept, RowKept, RowOK
    <2> QED BY <2>3, <2>4, <2>5 DEF Claims, TenantInv
  <1>9. ASSUME Expire \/ Poll \/ UNCHANGED pairVars PROVE Claims'
    <2>1. /\ pairing'.status = pairing.status /\ pairing'.owner = pairing.owner
          /\ pairing.expired => pairing'.expired
      <3>1. CASE Expire
        BY <3>1 DEF Expire, PairTypeOK
      <3>2. CASE Poll \/ UNCHANGED pairVars
        BY <3>2 DEF Poll, pairVars
      <3> QED BY <1>9, <3>1, <3>2
    <2>2. \A v \in Accounts : Kept(v)
      BY <1>9 DEF Expire, Poll, pairVars, Kept
    <2>3. ASSUME NEW v \in Accounts PROVE AccountInv(v)'
      <3>1. AccountInv(v) /\ Kept(v)
        BY <1>m, <2>2 DEF Claims
      <3> QED BY <3>1, <2>1 DEF AccountInv, Kept
    <2>4. RowInv'
      <3>1. pairing.owner \in Accounts => Kept(pairing.owner)
        BY <2>2
      <3>2. RowInv
        BY <1>m DEF Claims
      <3> QED BY <3>1, <3>2, <2>1 DEF RowInv, Kept
    <2>5. TenantInv'
      BY <1>m, <2>2 DEF Claims, TenantInv, Kept
    <2> QED BY <2>3, <2>4, <2>5 DEF Claims
  <1>10. ASSUME Forget PROVE Claims'
    <2>1. /\ pairing'.status = "none" /\ pairing'.owner = Nobody /\ pairing'.expired
          /\ \A v \in Accounts : approval[v] = "idle"
      BY <1>10 DEF Forget
    <2>2. \A v \in Accounts : Kept(v)
      BY <1>10 DEF Forget, Kept
    <2>3. ASSUME NEW v \in Accounts PROVE AccountInv(v)'
      <3>1. AccountInv(v) /\ Kept(v)
        BY <1>m, <2>2 DEF Claims
      <3> QED BY <3>1, <2>1 DEF AccountInv, Kept
    <2>4. RowInv'
      <3>1. pairing.owner \in Accounts => Kept(pairing.owner)
        BY <2>2
      <3>2. RowInv
        BY <1>m DEF Claims
      <3> QED BY <3>1, <3>2, <2>1 DEF RowInv, Kept
    <2>5. TenantInv'
      BY <1>m, <2>2 DEF Claims, TenantInv, Kept
    <2> QED BY <2>3, <2>4, <2>5 DEF Claims
  <1>11. Claims'
    BY <1>1, <1>2, <1>3, <1>4, <1>5, <1>6, <1>7, <1>8, <1>9, <1>10 DEF PairNext
  <1> QED BY <1>11 DEF Claims, PairingInv

\* Whatever approvals, cancellations, removals and dropped requests do to two
\* databases, a Worker belongs to one account, and one that is announced exists.
THEOREM PairingIsSound == PairSpec => []PairingSound
  <1>1. PairingInv => PairingSound
    BY PairRow DEF PairingInv, AccountInv, RowInv, TenantInv, PairingSound, OneTenant, ApprovedIsUsable
  <1> QED BY <1>1, PairInitInv, PairStep, PTL DEF PairSpec

-----------------------------------------------------------------------------
(* The driver of eXe devices.                                              *)

Statuses == {"none"} \cup ExePending \cup ExeSettled
Grace == [ExeCalls -> {"none", "running", "over"}]
Pass == [todo : SUBSET ExeCalls, row : [ExeCalls -> ExeRow], at : At,
         post : {0} \cup Posts, outcome : {"completed", "failed"}, grace : Grace]
Relay == [ExeCalls -> [Posts -> {"none"} \cup RelayLive \cup RelayOver]]

-----------------------------------------------------------------------------
(* Rows and passes.                                                        *)

\* The changes steps make to a row.
LEMMA ExeRowUpdates ==
  ASSUME NEW r \in ExeRow
  PROVE  /\ r.status \in Statuses /\ r.asked \in BOOLEAN /\ r.post \in {0} \cup Posts
         /\ \A s \in Statuses : /\ [r EXCEPT !.status = s] \in ExeRow
                                /\ [r EXCEPT !.status = s].status = s
         /\ \A b \in BOOLEAN : /\ [r EXCEPT !.asked = b] \in ExeRow
                               /\ [r EXCEPT !.asked = b].status = r.status
         /\ [r EXCEPT !.told = TRUE] \in ExeRow
         /\ [r EXCEPT !.told = TRUE].status = r.status
         /\ \A p \in {0} \cup Posts : /\ [r EXCEPT !.post = p] \in ExeRow
                                      /\ [r EXCEPT !.post = p].status = r.status
  BY DEF ExeRow, Statuses, ExePending, ExeSettled

\* The changes steps make to the pass.
LEMMA PassUpdates ==
  ASSUME NEW d \in Pass
  PROVE  /\ \A a \in At : [d EXCEPT !.at = a] \in Pass
         /\ \A p \in {0} \cup Posts : [d EXCEPT !.post = p] \in Pass
         /\ \A o \in {"completed", "failed"} : [d EXCEPT !.outcome = o] \in Pass
         /\ \A g \in Grace : [d EXCEPT !.grace = g] \in Pass
         /\ \A t \in SUBSET ExeCalls : [d EXCEPT !.todo = t] \in Pass
         /\ \A t \in [ExeCalls -> ExeRow] : [d EXCEPT !.row = t] \in Pass
         /\ d.grace \in Grace /\ d.todo \in SUBSET ExeCalls
         /\ d.post \in {0} \cup Posts /\ d.outcome \in {"completed", "failed"}
  BY DEF Pass

\* The grace of one call, wherever it is.
LEMMA GraceUpdate ==
  ASSUME NEW g \in Grace, NEW c, NEW x \in {"none", "running", "over"}
  PROVE  [g EXCEPT ![c] = x] \in Grace
  BY DEF Grace

LEMMA GraceOfPass ==
  ASSUME NEW d \in Pass, NEW c, NEW x \in {"none", "running", "over"}
  PROVE  [d EXCEPT !.grace[c] = x] \in Pass
  <1>1. [d.grace EXCEPT ![c] = x] \in Grace
    BY PassUpdates, GraceUpdate
  <1>2. [d EXCEPT !.grace[c] = x] = [d EXCEPT !.grace = [d.grace EXCEPT ![c] = x]]
    BY DEF Pass
  <1> QED BY <1>1, <1>2, PassUpdates

LEMMA IdlePass == DriverIdle \in Pass
  BY DEF DriverIdle, Pass, At, Grace, NoGrace, Unqueued, ExeRow

\* Whatever remains of the pass is a pass.
LEMMA NextCallType == ASSUME NEW d \in Pass PROVE NextCall(d) \in Pass
  <1>1. [DriverIdle EXCEPT !.grace = d.grace] \in Pass
    BY IdlePass, PassUpdates
  <1>2. [d EXCEPT !.todo = @ \ {Cur}, !.at = "notice", !.post = 0] \in Pass
    <2> DEFINE c == Cur
    <2> HIDE DEF c
    <2> DEFINE e == [d EXCEPT !.todo = @ \ {c}]
    <2> DEFINE f == [e EXCEPT !.at = "notice"]
    <2>1. e \in Pass
      BY PassUpdates
    <2> HIDE DEF e
    <2>2. f \in Pass
      BY <2>1, PassUpdates DEF At
    <2> HIDE DEF f
    <2>3. [f EXCEPT !.post = 0] \in Pass
      BY <2>2, PassUpdates
    <2> QED BY <2>3 DEF e, f, c
  <1> QED BY <1>1, <1>2 DEF NextCall

LEMMA LeaveType == ASSUME driver \in Pass, Leave PROVE driver' \in Pass
  BY NextCallType DEF Leave


-----------------------------------------------------------------------------
(* The ledger.                                                             *)

Ledger == [ExeCalls -> ExeRow]

\* What an answer is: a status that no step takes back.
Stands(c) == exeCall[c].status \in ExeSettled => exeCall'[c].status = exeCall[c].status
LedgerStands == exeCall' \in Ledger /\ \A c \in ExeCalls : Stands(c)

LEMMA SameRows == ASSUME exeCall \in Ledger, UNCHANGED exeCall PROVE LedgerStands
  BY DEF LedgerStands, Stands

\* A row that is not settled, or that keeps its status, may change.  The call at
\* hand is chosen from a set the proof need not know: no call, no change.
LEMMA OneExeRow ==
  ASSUME exeCall \in Ledger, NEW c, NEW r,
         c \in ExeCalls => /\ r \in ExeRow
                           /\ \/ exeCall[c].status \notin ExeSettled
                              \/ r.status = exeCall[c].status,
         exeCall' = [exeCall EXCEPT ![c] = r]
  PROVE  LedgerStands
  <1>1. exeCall' \in Ledger
    BY DEF Ledger
  <1>2. ASSUME NEW d \in ExeCalls PROVE Stands(d)
    <2>1. CASE d = c
      BY <2>1 DEF Ledger, Stands
    <2>2. CASE d # c
      BY <2>2 DEF Ledger, Stands
    <2> QED BY <2>1, <2>2
  <1> QED BY <1>1, <1>2 DEF LedgerStands

\* The turns: a call is queued once, a deadline asks for a cancellation, and a
\* timeout or a cancellation settles what is pending.
LEMMA TurnSteps ==
  ASSUME exeCall \in Ledger, NEW c \in ExeCalls,
         ExeQueue(c) \/ AskRelayCancel(c) \/ AnswerTimeout(c) \/ CancelExe(c)
  PROVE  LedgerStands
  <1>r. exeCall[c] \in ExeRow
    BY DEF Ledger
  <1>1. CASE ExeQueue(c)
    <2>1. /\ exeCall' = [exeCall EXCEPT ![c] = [exeCall[c] EXCEPT !.status = "queued"]]
          /\ exeCall[c].status = "none"
      BY <1>1 DEF ExeQueue
    <2> QED BY <2>1, <1>r, ExeRowUpdates, OneExeRow DEF Statuses, ExePending, ExeSettled
  <1>2. CASE AskRelayCancel(c)
    <2>1. exeCall' = [exeCall EXCEPT ![c] = [exeCall[c] EXCEPT !.asked = TRUE]]
      BY <1>2 DEF AskRelayCancel
    <2> QED BY <2>1, <1>r, ExeRowUpdates, OneExeRow
  <1>3. CASE AnswerTimeout(c)
    <2>1. /\ exeCall' = [exeCall EXCEPT ![c] = [exeCall[c] EXCEPT !.status = "failed"]]
          /\ exeCall[c].status = "delivered"
      BY <1>3 DEF AnswerTimeout
    <2> QED BY <2>1, <1>r, ExeRowUpdates, OneExeRow DEF Statuses, ExeSettled
  <1>4. CASE CancelExe(c)
    <2>1. PICK asked \in {TRUE, exeCall[c].asked} :
             exeCall' = [exeCall EXCEPT ![c].status = "cancelled", ![c].asked = asked]
      BY <1>4 DEF CancelExe
    <2> DEFINE r == [exeCall[c] EXCEPT !.status = "cancelled"]
    <2> DEFINE s == [r EXCEPT !.asked = asked]
    <2>2. exeCall' = [exeCall EXCEPT ![c] = s]
      BY <2>1 DEF Ledger
    <2>3. r \in ExeRow /\ asked \in BOOLEAN
      BY <1>r, <2>1, ExeRowUpdates DEF Statuses, ExeSettled
    <2> HIDE DEF r
    <2>4. s \in ExeRow
      BY <2>3, ExeRowUpdates
    <2> HIDE DEF s
    <2>5. exeCall[c].status \notin ExeSettled
      BY <1>4 DEF CancelExe, ExePending, ExeSettled
    <2> QED BY <2>2, <2>4, <2>5, OneExeRow
  <1> QED BY <1>1, <1>2, <1>3, <1>4

\* The driver: each of its writes is guarded by the row as it is then, not as the
\* pass read it.
LEMMA DriverSteps ==
  ASSUME exeCall \in Ledger, driver \in Pass,
         Notice \/ ClaimExe \/ StorePost \/ SettleExe
  PROVE  LedgerStands
  <1> DEFINE c == Cur
  <1> DEFINE r == exeCall[c]
  <1>r. c \in ExeCalls => r \in ExeRow
    BY DEF Ledger
  <1>p. driver.post \in {0} \cup Posts /\ driver.outcome \in {"completed", "failed"}
    BY PassUpdates
  <1>1. CASE Notice
    <2>1. \/ UNCHANGED exeCall
          \/ exeCall' = [exeCall EXCEPT ![c] = [r EXCEPT !.told = TRUE]]
      BY <1>1, Zenon DEF Notice
    <2> HIDE DEF c
    <2> QED BY <2>1, <1>r, ExeRowUpdates, OneExeRow, SameRows
  <1>2. CASE ClaimExe
    <2>1. \/ UNCHANGED exeCall
          \/ /\ exeCall' = [exeCall EXCEPT ![c] = [r EXCEPT !.status = "delivered"]]
             /\ r.status = "queued"
      BY <1>2, Zenon DEF ClaimExe, Claimable
    <2>2. "queued" \notin ExeSettled /\ "delivered" \in Statuses
      BY DEF ExeSettled, Statuses, ExePending
    <2> HIDE DEF c
    <2> DEFINE s == [r EXCEPT !.status = "delivered"]
    <2>3. c \in ExeCalls => s \in ExeRow
      BY <2>2, <1>r, ExeRowUpdates
    <2>4. UNCHANGED exeCall \/ (exeCall' = [exeCall EXCEPT ![c] = s] /\ r.status \notin ExeSettled)
      BY <2>1, <2>2
    <2> HIDE DEF s
    <2> QED BY <2>3, <2>4, OneExeRow, SameRows
  <1>3. CASE StorePost
    <2>1. exeCall' = [exeCall EXCEPT ![c] =
             [r EXCEPT !.post = IF r.post = 0 THEN driver.post ELSE r.post]]
      BY <1>3 DEF StorePost
    <2> HIDE DEF c
    <2>2. c \in ExeCalls => (IF r.post = 0 THEN driver.post ELSE r.post) \in {0} \cup Posts
      BY <1>r, <1>p, ExeRowUpdates
    <2> QED BY <2>1, <2>2, <1>r, ExeRowUpdates, OneExeRow
  <1>4. CASE SettleExe
    <2> DEFINE s == IF r.status \in ExePending THEN driver.outcome ELSE r.status
    <2>1. exeCall' = [exeCall EXCEPT ![c] = [r EXCEPT !.status = s]]
      BY <1>4 DEF SettleExe
    <2> HIDE DEF c
    <2>2. c \in ExeCalls => /\ s \in Statuses
                            /\ r.status \in ExeSettled => s = r.status
      BY <1>r, <1>p, ExeRowUpdates DEF Statuses, ExePending, ExeSettled
    <2> HIDE DEF s
    <2> QED BY <2>1, <2>2, <1>r, ExeRowUpdates, OneExeRow
  <1> QED BY <1>1, <1>2, <1>3, <1>4

-----------------------------------------------------------------------------
(* The pass and the relay.                                                 *)

LEMMA UnansweredType == ASSUME driver \in Pass, SubmitUnanswered PROVE driver' \in Pass
  <1>1. CASE GraceOver(Cur)
    <2> DEFINE d == [driver EXCEPT !.at = "settle"]
    <2> DEFINE e == [d EXCEPT !.outcome = "failed"]
    <2>1. driver' = [e EXCEPT !.grace[Cur] = "none"]
      BY <1>1 DEF SubmitUnanswered
    <2>2. d \in Pass
      BY PassUpdates DEF At
    <2> HIDE DEF d
    <2>3. e \in Pass
      BY <2>2, PassUpdates
    <2> HIDE DEF e
    <2> QED BY <2>1, <2>3, GraceOfPass
  <1>2. CASE ~GraceOver(Cur)
    <2> DEFINE c == Cur
    <2> DEFINE x == IF driver.grace[c] = "none" THEN "running" ELSE driver.grace[c]
    <2>1. driver' = NextCall([driver EXCEPT !.grace[c] = x])
      BY <1>2 DEF SubmitUnanswered
    <2> HIDE DEF c
    <2>2. [driver EXCEPT !.grace[c] = x] \in Pass
      <3>1. CASE c \in ExeCalls
        <4>1. x \in {"none", "running", "over"}
          BY <3>1, PassUpdates DEF Grace
        <4> HIDE DEF x
        <4> QED BY <4>1, GraceOfPass
      <3>2. CASE c \notin ExeCalls
        <4>1. [driver EXCEPT !.grace[c] = x] = driver
          BY <3>2 DEF Pass, Grace
        <4> QED BY <4>1
      <3> QED BY <3>1, <3>2
    <2> QED BY <2>1, <2>2, NextCallType
  <1> QED BY <1>1, <1>2

LEMMA RelayUpdate ==
  ASSUME relayCall \in Relay, NEW c, NEW p, NEW x \in {"none"} \cup RelayLive \cup RelayOver
  PROVE  [relayCall EXCEPT ![c][p] = x] \in Relay
  BY DEF Relay

LEMMA DriveType ==
  ASSUME driver \in Pass, exeCall \in Ledger,
         \/ BeginPass \/ Notice \/ Match \/ ClaimExe \/ Submit \/ RelayUnreachable
         \/ SubmitRefused \/ StorePost \/ PollExe \/ SettleExe
         \/ AnswerLost \/ PollUnanswered \/ ExeRestart
  PROVE  driver' \in Pass
  <1>g. ASSUME NEW pc \in At, Goto(pc) PROVE driver' \in Pass
    BY <1>g, PassUpdates DEF Goto
  <1>1. CASE BeginPass
    <2> DEFINE d == [driver EXCEPT !.todo = Batch]
    <2> DEFINE e == [d EXCEPT !.row = exeCall]
    <2>1. driver' = [e EXCEPT !.at = "notice"]
      BY <1>1 DEF BeginPass
    <2>2. Batch \in SUBSET ExeCalls
      BY DEF Batch, PendingCalls
    <2>3. d \in Pass
      BY <2>2, PassUpdates
    <2> HIDE DEF d
    <2>4. e \in Pass
      BY <2>3, PassUpdates DEF Ledger
    <2> HIDE DEF e
    <2> QED BY <2>1, <2>4, PassUpdates DEF At
  <1>2. CASE Notice
    BY <1>2, <1>g DEF Notice, At
  <1>3. CASE Match
    <2>1. Leave \/ Goto("claim") \/ Goto("submit") \/ Goto("poll")
      BY <1>3, Zenon DEF Match
    <2> QED BY <2>1, <1>g, LeaveType DEF At
  <1>4. CASE ClaimExe
    <2>1. Leave \/ Goto("submit")
      BY <1>4, Zenon DEF ClaimExe
    <2> QED BY <2>1, <1>g, LeaveType DEF At
  <1>5. CASE Submit
    <2>1. PICK p \in Posts : driver' = [driver EXCEPT !.at = "store", !.post = p,
                                                      !.grace[Cur] = "none"]
      BY <1>5 DEF Submit, FreePost
    <2> DEFINE d == [driver EXCEPT !.at = "store"]
    <2> DEFINE e == [d EXCEPT !.post = p]
    <2>2. driver' = [e EXCEPT !.grace[Cur] = "none"]
      BY <2>1
    <2>3. d \in Pass
      BY PassUpdates DEF At
    <2> HIDE DEF d
    <2>4. e \in Pass
      BY <2>3, PassUpdates
    <2> HIDE DEF e
    <2> QED BY <2>2, <2>4, GraceOfPass
  <1>6. CASE RelayUnreachable \/ AnswerLost
    BY <1>6, UnansweredType DEF RelayUnreachable, AnswerLost
  <1>7. CASE SubmitRefused
    <2> DEFINE d == [driver EXCEPT !.at = "settle"]
    <2> DEFINE e == [d EXCEPT !.outcome = "failed"]
    <2>1. driver' = [e EXCEPT !.grace[Cur] = "none"]
      BY <1>7 DEF SubmitRefused
    <2>2. d \in Pass
      BY PassUpdates DEF At
    <2> HIDE DEF d
    <2>3. e \in Pass
      BY <2>2, PassUpdates
    <2> HIDE DEF e
    <2> QED BY <2>1, <2>3, GraceOfPass
  <1>8. CASE StorePost \/ SettleExe \/ PollUnanswered
    BY <1>8, LeaveType DEF StorePost, SettleExe, PollUnanswered
  <1>9. CASE PollExe
    <2>1. \/ Leave
          \/ \E o \in {"completed", "failed"} :
                driver' = [driver EXCEPT !.at = "settle", !.outcome = o]
      <3> DEFINE status == relayCall[Cur][CurRow.post]
      <3>1. CASE Final(status)
        <4>1. \E o \in IF status = "succeeded" THEN {"completed", "failed"} ELSE {"failed"} :
                 driver' = [driver EXCEPT !.at = "settle", !.outcome = o]
          BY <1>9, <3>1, Zenon DEF PollExe
        <4> HIDE DEF status
        <4> QED BY <4>1
      <3>2. CASE ~Final(status)
        BY <1>9, <3>2, Zenon DEF PollExe
      <3> QED BY <3>1, <3>2
    <2>2. ASSUME NEW o \in {"completed", "failed"},
                 driver' = [driver EXCEPT !.at = "settle", !.outcome = o]
          PROVE  driver' \in Pass
      <3> DEFINE d == [driver EXCEPT !.at = "settle"]
      <3>1. driver' = [d EXCEPT !.outcome = o]
        BY <2>2
      <3>2. d \in Pass
        BY PassUpdates DEF At
      <3> HIDE DEF d
      <3> QED BY <3>1, <3>2, PassUpdates
    <2> QED BY <2>1, <2>2, LeaveType
  <1>10. CASE ExeRestart
    BY <1>10, IdlePass DEF ExeRestart
  <1> QED BY <1>1, <1>2, <1>3, <1>4, <1>5, <1>6, <1>7, <1>8, <1>9, <1>10

-----------------------------------------------------------------------------
(* Every step.                                                             *)

LEMMA ExeInitType == ExeInit => ExeTypeOK
  <1> SUFFICES ASSUME ExeInit PROVE ExeTypeOK
    OBVIOUS
  <1>1. driver \in Pass
    BY IdlePass DEF ExeInit
  <1>2. exeCall \in [ExeCalls -> ExeRow]
    BY DEF ExeInit, Unqueued, ExeRow
  <1>3. relayCall \in [ExeCalls -> [Posts -> {"none"} \cup RelayLive \cup RelayOver]]
    BY DEF ExeInit
  <1>4. exeFaults \in 0..MaxExeFaults
    BY ExeDriverAssumption DEF ExeInit
  <1> QED BY <1>1, <1>2, <1>3, <1>4, Zenon DEF ExeTypeOK, Pass, Grace

LEMMA ExeStep ==
  ASSUME ExeTypeOK, [ExeNext]_exeVars
  PROVE  ExeTypeOK' /\ \A c \in ExeCalls : Stands(c)
  <1>t. driver \in Pass /\ exeCall \in Ledger /\ relayCall \in Relay
        /\ exeFaults \in 0..MaxExeFaults
    BY Zenon DEF ExeTypeOK, Pass, Grace, Ledger, Relay
  <1> DEFINE Goal == /\ LedgerStands
                     /\ driver' \in Pass /\ relayCall' \in Relay
                     /\ exeFaults' \in 0..MaxExeFaults
  <1>f. ASSUME UNCHANGED exeFaults \/ ExeFault PROVE exeFaults' \in 0..MaxExeFaults
    BY <1>f, <1>t, ExeDriverAssumption DEF ExeFault
  <1> SUFFICES Goal
    BY Zenon DEF LedgerStands, ExeTypeOK, Pass, Grace, Ledger, Relay
  <1> HIDE DEF ExeTypeOK
  <1>1. ASSUME NEW c \in ExeCalls,
               ExeQueue(c) \/ AskRelayCancel(c) \/ AnswerTimeout(c) \/ CancelExe(c)
        PROVE  Goal
    <2>1. UNCHANGED <<driver, relayCall, exeFaults>>
      BY <1>1 DEF ExeQueue, AskRelayCancel, AnswerTimeout, CancelExe
    <2> QED BY <1>1, <2>1, <1>t, TurnSteps
  <1>2. ASSUME NEW c \in ExeCalls, GraceRunsOut(c) PROVE Goal
    <2>1. /\ UNCHANGED <<exeCall, relayCall, exeFaults>>
          /\ driver' = [driver EXCEPT !.grace[c] = "over"]
      BY <1>2 DEF GraceRunsOut
    <2>2. driver' \in Pass
      BY <2>1, <1>t, GraceOfPass
    <2> QED BY <2>1, <2>2, <1>t, SameRows
  <1>3. ASSUME NEW c \in ExeCalls, NEW p \in Posts,
               Receive(c, p) \/ DeviceAnswers(c, p) \/ RelayExpires(c, p)
        PROVE  Goal
    <2>1. PICK from \in RelayLive, to \in RelayLive \cup RelayOver : RelayMoves(c, p, from, to)
      BY <1>3, Zenon DEF Receive, DeviceAnswers, RelayExpires, RelayLive, RelayOver
    <2>2. relayCall' = [relayCall EXCEPT ![c][p] = to] /\ UNCHANGED <<exeCall, driver, exeFaults>>
      BY <2>1 DEF RelayMoves
    <2>3. relayCall' \in Relay
      BY <2>2, <1>t, RelayUpdate
    <2> QED BY <2>2, <2>3, <1>t, SameRows
  <1>4. CASE Notice
    <2>1. UNCHANGED relayCall \/ relayCall' = [relayCall EXCEPT ![Cur][CurRow.post] = "cancelled"]
      BY <1>4, Zenon DEF Notice
    <2>2. relayCall' \in Relay
      <3> DEFINE x == "cancelled"
      <3>1. x \in {"none"} \cup RelayLive \cup RelayOver
        BY DEF RelayOver
      <3>2. [relayCall EXCEPT ![Cur][CurRow.post] = x] \in Relay
        BY <3>1, <1>t, RelayUpdate, Zenon
      <3> QED BY <2>1, <3>2, <1>t
    <2>3. UNCHANGED exeFaults
      BY <1>4 DEF Notice
    <2> QED BY <1>4, <2>2, <2>3, <1>t, DriverSteps, DriveType
  <1>5. CASE ClaimExe \/ StorePost \/ SettleExe
    <2>1. UNCHANGED <<relayCall, exeFaults>>
      BY <1>5 DEF ClaimExe, StorePost, SettleExe
    <2> QED BY <1>5, <2>1, <1>t, DriverSteps, DriveType
  <1>6. CASE \/ BeginPass \/ Match \/ RelayUnreachable \/ SubmitRefused \/ PollExe
             \/ PollUnanswered \/ ExeRestart
    <2>1. UNCHANGED <<exeCall, relayCall>> /\ (UNCHANGED exeFaults \/ ExeFault)
      BY <1>6 DEF BeginPass, Match, RelayUnreachable, SubmitRefused, PollExe,
                  PollUnanswered, ExeRestart
    <2>2. exeFaults' \in 0..MaxExeFaults
      BY <2>1, <1>f
    <2>3. driver' \in Pass
      BY <1>6, <1>t, DriveType
    <2> QED BY <2>1, <2>2, <2>3, <1>t, SameRows
  <1>7. CASE Submit \/ AnswerLost
    <2>1. UNCHANGED exeCall /\ (UNCHANGED exeFaults \/ ExeFault) /\ \E p \in Posts : Accept(p)
      BY <1>7 DEF Submit, AnswerLost, FreePost
    <2>2. relayCall' \in Relay
      <3>1. PICK p \in Posts : relayCall' = [relayCall EXCEPT ![Cur][p] = "queued"]
        BY <2>1 DEF Accept
      <3>2. "queued" \in {"none"} \cup RelayLive \cup RelayOver
        BY DEF RelayLive
      <3>3. [relayCall EXCEPT ![Cur][p] = "queued"] \in Relay
        BY <3>2, <1>t, RelayUpdate, Zenon
      <3> QED BY <3>1, <3>3
    <2>3. driver' \in Pass
      BY <1>7, <1>t, DriveType
    <2>4. exeFaults' \in 0..MaxExeFaults
      BY <2>1, <1>f
    <2> QED BY <2>1, <2>2, <2>3, <2>4, <1>t, SameRows
  <1>8. CASE UNCHANGED exeVars
    <2>1. UNCHANGED <<exeCall, relayCall, driver, exeFaults>>
      BY <1>8 DEF exeVars
    <2> QED BY <2>1, <1>t, SameRows
  <1> HIDE DEF Goal
  <1> QED
    BY <1>1, <1>2, <1>3, <1>4, <1>5, <1>6, <1>7, <1>8 DEF ExeNext, ExeDrive

-----------------------------------------------------------------------------
(* Theorems.                                                               *)

\* The rows, the pass and the relay keep their form, also where a pass works on a
\* call that is no longer pending.
THEOREM ExeTypes == ExeSpec => []ExeTypeOK
  BY ExeInitType, ExeStep, PTL DEF ExeSpec

\* No pass, whatever it read before, takes an answer back: each UPDATE of the
\* driver and of the turns is guarded by the row as it is then.
THEOREM AnswersStand == ExeSpec => ExeAnswerStands
  <1>1. ExeTypeOK /\ [ExeNext]_exeVars
          => [\A c \in ExeCalls : exeCall[c].status \in ExeSettled
                                     => exeCall'[c].status = exeCall[c].status]_exeVars
    BY ExeStep DEF Stands
  <1>2. ExeTypeOK /\ [ExeNext]_exeVars => ExeTypeOK'
    BY ExeStep
  <1> QED BY <1>1, <1>2, ExeInitType, PTL DEF ExeSpec, ExeAnswerStands

-----------------------------------------------------------------------------
(* The recorder of routes: the invariant.                                 *)

\* A cell that still takes counts the flush will read: it is registered, or
\* taken and not read yet.
Held(c) == c \in rpFlush.todo \/ \E m \in Minutes : registry[m] = c

RpStages == {"running", "found", "counted", "banded", "done"}
RpRow == [stage : RpStages, minute : Minutes \cup {NoMinute},
          cell : RpRequests \cup {NoCell}]
RpCell == [counted : SUBSET RpRequests, banded : SUBSET RpRequests]
RpPass == [stage : {"idle", "read", "write"}, todo : SUBSET RpRequests,
           done : SUBSET RpRequests, counted : SUBSET RpRequests,
           banded : SUBSET RpRequests, slow : SUBSET RpRequests]
RpShown == [RpRequests -> Nat]
RpView == [stage : {"none", "live", "shown"}, live : SUBSET RpRequests,
           shown : RpShown, crossed : BOOLEAN]

RpForms ==
  /\ rpMinute \in Minutes
  /\ rpReq \in [RpRequests -> RpRow]
  /\ registry \in [Minutes -> RpRequests \cup {NoCell}]
  /\ cell \in [RpRequests -> RpCell]
  /\ slowWindow \subseteq RpRequests /\ IsFiniteSet(slowWindow)
  /\ Cardinality(slowWindow) <= SlowLimit
  /\ rpFlush \in RpPass
  /\ minuteRows \in RpShown /\ hourRows \in RpShown
  /\ slowRows \subseteq RpRequests
  /\ rpPage \in RpView

\* A request opens a cell at most once, for its minute; whoever adds to a cell
\* found it open.  The pass reads no registered cell, and each it took once.
CellsInv ==
  /\ \A m \in Minutes : registry[m] # NoCell =>
        /\ rpReq[registry[m]].stage # "running"
        /\ rpReq[registry[m]].minute = m
        /\ registry[m] \notin rpFlush.todo \cup rpFlush.done
  /\ \A c \in rpFlush.todo \cup rpFlush.done : rpReq[c].stage # "running"
  /\ rpFlush.todo \cap rpFlush.done = {}
  /\ \A r \in RpRequests : rpReq[r].stage # "running" =>
        rpReq[r].cell \in RpRequests /\ rpReq[rpReq[r].cell].stage # "running"
  /\ rpFlush.stage = "idle" => rpFlush.counted = {}
  /\ rpFlush.stage # "read" => rpFlush.todo = {}

\* Where a request is counted: with its cell while that is held, and after it
\* in the pass, the buckets, a failed transaction, or too late for any.
Nowhere(r) == hourRows[r] = 0 /\ r \notin rpFlush.counted /\ r \notin rpLost \cup rpLate

InOnePlace(r) ==
  IF Held(rpReq[r].cell) THEN Nowhere(r)
  ELSE \/ hourRows[r] = 0 /\ r \in rpFlush.counted /\ r \notin rpLost \cup rpLate
       \/ hourRows[r] = 1 /\ r \notin rpFlush.counted /\ r \notin rpLost \cup rpLate
       \/ hourRows[r] = 0 /\ r \notin rpFlush.counted /\ r \in rpLost \cup rpLate

RequestInv(r) ==
  /\ \A c \in RpRequests :
        r \in cell[c].counted <=> Counted(r) /\ c = rpReq[r].cell
  /\ ~Counted(r) => Nowhere(r)
  /\ Counted(r) => InOnePlace(r)
  /\ minuteRows[r] <= hourRows[r]

\* A page that no pass crosses adds to the rows what it read beside them.
PageInv ==
  ~rpPage.crossed =>
    /\ rpPage.stage = "live" => \A r \in rpPage.live : hourRows[r] = 0
    /\ rpPage.stage = "shown" => \A r \in RpRequests : rpPage.shown[r] <= 1

RecordInv ==
  /\ RpForms
  /\ CellsInv
  /\ \A r \in RpRequests : RequestInv(r)
  /\ PageInv

-----------------------------------------------------------------------------
(* Forms of the recorder of routes.                                        *)

LEMMA RpConstants ==
  /\ NoFlush \in RpPass /\ NoPage \in RpView
  /\ 0 \in Minutes /\ Minutes \subseteq Int
  /\ \A m \in Minutes : m < MaxMinute => m + 1 \in Minutes
  /\ SlowLimit \in Nat /\ NoCell \notin RpRequests
  BY RoutePerfAssumption DEF NoFlush, RpPass, NoPage, RpView, RpShown, Minutes

\* The changes steps make to a request, a cell and the pass.
LEMMA RpUpdates ==
  /\ \A q \in RpRow, s \in RpStages : [q EXCEPT !.stage = s] \in RpRow
  /\ \A c \in RpCell, r \in RpRequests :
        /\ [c EXCEPT !.counted = @ \cup {r}] \in RpCell
        /\ [c EXCEPT !.banded = @ \cup {r}] \in RpCell
  /\ \A f \in RpPass :
        /\ f.todo \subseteq RpRequests /\ f.done \subseteq RpRequests
        /\ f.counted \subseteq RpRequests /\ f.banded \subseteq RpRequests
  BY DEF RpRow, RpCell, RpPass

LEMMA RpInitForms == RpInit => RpForms
  <1> SUFFICES ASSUME RpInit PROVE RpForms
    OBVIOUS
  <1>1. slowWindow \subseteq RpRequests /\ IsFiniteSet(slowWindow) /\ Cardinality(slowWindow) = 0
    BY FS_EmptySet DEF RpInit
  <1>2. [stage |-> "running", minute |-> NoMinute, cell |-> NoCell] \in RpRow
    BY DEF RpRow, RpStages
  <1>3. [counted |-> {}, banded |-> {}] \in RpCell
    BY DEF RpCell
  <1>4. rpReq \in [RpRequests -> RpRow] /\ cell \in [RpRequests -> RpCell]
    BY <1>2, <1>3 DEF RpInit
  <1> QED BY <1>1, <1>4, RpConstants DEF RpInit, RpForms, RpShown

\* Any change of rows by a drain or by retention leaves numbers.
LEMMA RowForms ==
  ASSUME NEW rows \in RpShown, NEW taken
  PROVE  /\ Upserted(rows, taken) \in RpShown
         /\ \A r \in RpRequests :
               Upserted(rows, taken)[r] = IF r \in taken THEN rows[r] + 1 ELSE rows[r]
         /\ Pruned(rows) \in RpShown
         /\ \A r \in RpRequests : Pruned(rows)[r] <= rows[r]
  BY DEF Upserted, Pruned, RpShown

LEMMA RpRequestForms ==
  ASSUME RpForms, NEW r \in RpRequests,
         rpReq[r].stage # "running" => rpReq[r].cell \in RpRequests,
         Find(r) \/ Count(r) \/ Band(r) \/ Slow(r)
  PROVE  RpForms'
  <1>1. CASE Find(r)
    <2> DEFINE found == IF registry[rpMinute] = NoCell THEN r ELSE registry[rpMinute]
    <2>1. found \in RpRequests
      BY DEF RpForms
    <2>2. /\ registry' = [registry EXCEPT ![rpMinute] = found]
          /\ rpReq' = [rpReq EXCEPT ![r] = [stage |-> "found", minute |-> rpMinute,
                                            cell |-> found]]
          /\ UNCHANGED <<rpMinute, cell, slowWindow, rpFlush, minuteRows, hourRows,
                         slowRows, rpPage, rpLate, rpLost, rpFaults>>
      BY <1>1 DEF Find
    <2> HIDE DEF found
    <2>3. [stage |-> "found", minute |-> rpMinute, cell |-> found] \in RpRow
      BY <2>1 DEF RpForms, RpRow, RpStages
    <2> QED BY <2>1, <2>2, <2>3 DEF RpForms
  <1>2. ASSUME NEW s \in RpStages, rpReq' = [rpReq EXCEPT ![r].stage = s]
        PROVE  rpReq' \in [RpRequests -> RpRow]
    BY <1>2, RpUpdates DEF RpForms
  <1>3. CASE Count(r)
    <2> DEFINE c == rpReq[r].cell
    <2>1. c \in RpRequests /\ cell' = [cell EXCEPT ![c] = [cell[c] EXCEPT !.counted = @ \cup {r}]]
      BY <1>3 DEF Count, RpForms
    <2> HIDE DEF c
    <2>2. cell' \in [RpRequests -> RpCell]
      BY <2>1, RpUpdates DEF RpForms
    <2>3. rpReq' \in [RpRequests -> RpRow]
      BY <1>2, <1>3 DEF Count, RpStages
    <2> QED BY <1>3, <2>2, <2>3 DEF Count, RpForms
  <1>4. CASE Band(r)
    <2> DEFINE c == rpReq[r].cell
    <2>1. c \in RpRequests /\ cell' = [cell EXCEPT ![c] = [cell[c] EXCEPT !.banded = @ \cup {r}]]
      BY <1>4 DEF Band, RpForms
    <2> HIDE DEF c
    <2>2. cell' \in [RpRequests -> RpCell]
      BY <2>1, RpUpdates DEF RpForms
    <2>3. rpReq' \in [RpRequests -> RpRow]
      BY <1>2, <1>4 DEF Band, RpStages
    <2> QED BY <1>4, <2>2, <2>3 DEF Band, RpForms
  <1>5. CASE Slow(r)
    <2>1. rpReq' \in [RpRequests -> RpRow]
      BY <1>2, <1>5 DEF Slow, RpStages
    <2>2. /\ slowWindow' \subseteq RpRequests /\ IsFiniteSet(slowWindow')
          /\ Cardinality(slowWindow') <= SlowLimit
      <3>1. CASE Cardinality(slowWindow) < SlowLimit
        <4>1. slowWindow' = slowWindow \cup {r}
          BY <1>5, <3>1 DEF Slow
        <4>2. /\ IsFiniteSet(slowWindow \cup {r})
              /\ Cardinality(slowWindow \cup {r}) =
                    IF r \in slowWindow THEN Cardinality(slowWindow) ELSE Cardinality(slowWindow) + 1
              /\ Cardinality(slowWindow) \in Nat
          BY FS_AddElement, FS_CardinalityType DEF RpForms
        <4> QED BY <3>1, <4>1, <4>2, RpConstants DEF RpForms
      <3>2. CASE ~(Cardinality(slowWindow) < SlowLimit)
        BY <1>5, <3>2 DEF Slow, RpForms
      <3> QED BY <3>1, <3>2
    <2> QED BY <1>5, <2>1, <2>2 DEF Slow, RpForms
  <1> QED BY <1>1, <1>3, <1>4, <1>5

LEMMA RpDrainForms ==
  ASSUME RpForms, NEW c \in RpRequests, DrainCounts(c) \/ DrainBands(c)
  PROVE  RpForms'
  <1>1. cell[c] \in RpCell /\ rpFlush \in RpPass
    BY DEF RpForms
  <1>2. rpFlush' \in RpPass
    <2>1. CASE DrainCounts(c)
      <3>1. rpFlush' = [rpFlush EXCEPT !.counted = @ \cup cell[c].counted,
                          !.todo = @ \ {c},
                          !.done = IF cell[c].counted = {} THEN @ ELSE @ \cup {c}]
        BY <2>1 DEF DrainCounts
      <3> QED BY <1>1, <3>1 DEF RpPass, RpCell
    <2>2. CASE DrainBands(c)
      <3>1. rpFlush' = [rpFlush EXCEPT !.banded = @ \cup cell[c].banded, !.done = @ \ {c}]
        BY <2>2 DEF DrainBands
      <3> QED BY <1>1, <3>1 DEF RpPass, RpCell
    <2> QED BY <2>1, <2>2
  <1> QED BY <1>2 DEF DrainCounts, DrainBands, RpForms

LEMMA RpPassForms ==
  ASSUME RpForms, TakeClosed \/ TakeSlow \/ Persist \/ PersistFails
  PROVE  RpForms'
  <1>1. CASE TakeClosed
    <2>1. {registry[m] : m \in ClosedCells(rpMinute)} \in SUBSET RpRequests
      BY DEF ClosedCells, RpForms
    <2>2. rpFlush' \in RpPass
      BY <1>1, <2>1 DEF TakeClosed, NoFlush, RpPass
    <2>3. registry' \in [Minutes -> RpRequests \cup {NoCell}]
      BY <1>1 DEF TakeClosed, Unregistered, RpForms
    <2> QED BY <1>1, <2>2, <2>3 DEF TakeClosed, RpForms
  <1>2. CASE TakeSlow
    <2>1. rpFlush' \in RpPass
      BY <1>2, RpConstants DEF TakeSlow, RpPass, RpForms
    <2>2. IsFiniteSet(slowWindow') /\ Cardinality(slowWindow') = 0 /\ slowWindow' = {}
      BY <1>2, FS_EmptySet DEF TakeSlow
    <2> QED BY <1>2, <2>1, <2>2, RpConstants DEF TakeSlow, RpForms
  <1>3. CASE Persist
    <2>1. minuteRows' \in RpShown /\ hourRows' \in RpShown
      BY <1>3, RowForms DEF Persist, RpForms
    <2>2. rpPage' \in RpView
      BY <1>3 DEF Persist, RpForms, RpView
    <2>3. slowRows' \subseteq RpRequests
      BY <1>3 DEF Persist, RpForms, RpPass
    <2> QED BY <1>3, <2>1, <2>2, <2>3, RpConstants DEF Persist, RpForms
  <1>4. CASE PersistFails
    BY <1>4, RpConstants DEF PersistFails, RpForms
  <1> QED BY <1>1, <1>2, <1>3, <1>4

LEMMA RpPageForms ==
  ASSUME RpForms, PageLive \/ PageLoad(minuteRows) \/ PageLoad(hourRows) \/ RpTick
  PROVE  RpForms'
  <1>1. CASE PageLive
    <2>1. rpPage' \in RpView
      BY <1>1 DEF PageLive, NoPage, RpView, RpShown
    <2> QED BY <1>1, <2>1 DEF PageLive, RpForms
  <1>2. ASSUME NEW rows \in RpShown, PageLoad(rows) PROVE RpForms'
    <2> DEFINE shown == Upserted(rows, rpPage.live)
    <2>m. shown \in RpShown /\ rpPage' = [rpPage EXCEPT !.stage = "shown", !.shown = shown]
      BY <1>2, RowForms DEF PageLoad
    <2> HIDE DEF shown
    <2>1. rpPage' \in RpView
      BY <2>m DEF RpForms, RpView
    <2> QED BY <1>2, <2>1 DEF PageLoad, RpForms
  <1>3. CASE RpTick
    BY <1>3, RpConstants DEF RpTick, RpForms
  <1> QED BY <1>1, <1>2, <1>3 DEF RpForms

LEMMA RpFormsStep ==
  ASSUME RpForms, CellsInv, [RpNext]_rpVars
  PROVE  RpForms'
  <1>1. \A r \in RpRequests : rpReq[r].stage # "running" => rpReq[r].cell \in RpRequests
    BY DEF CellsInv
  <1>2. CASE UNCHANGED rpVars
    BY <1>2 DEF rpVars, RpForms
  <1>3. CASE RpNext
    BY <1>1, <1>3, RpRequestForms, RpDrainForms, RpPassForms, RpPageForms DEF RpNext
  <1> QED BY <1>2, <1>3

-----------------------------------------------------------------------------
(* Each request is in one place.                                           *)

RpClaims == CellsInv /\ \A r \in RpRequests : RequestInv(r)

\* What the rows of requests, cells, and the pass are after a step.
LEMMA RpFields ==
  ASSUME RpForms, NEW r \in RpRequests
  PROVE  /\ \A s : /\ [rpReq EXCEPT ![r].stage = s][r].stage = s
                   /\ \A q \in RpRequests :
                         /\ [rpReq EXCEPT ![r].stage = s][q].cell = rpReq[q].cell
                         /\ [rpReq EXCEPT ![r].stage = s][q].minute = rpReq[q].minute
                         /\ q # r => [rpReq EXCEPT ![r].stage = s][q] = rpReq[q]
         /\ \A c \in RpRequests :
              /\ [cell EXCEPT ![c].counted = @ \cup {r}][c].counted = cell[c].counted \cup {r}
              /\ \A d \in RpRequests :
                    d # c => [cell EXCEPT ![c].counted = @ \cup {r}][d] = cell[d]
              /\ \A d \in RpRequests :
                    [cell EXCEPT ![c].banded = @ \cup {r}][d].counted = cell[d].counted
  BY DEF RpForms, RpRow, RpCell

\* What decides where requests are stands.
RpPlacesKept ==
  /\ \A r \in RpRequests : /\ rpReq'[r].cell = rpReq[r].cell
                           /\ rpReq'[r].minute = rpReq[r].minute
                           /\ rpReq'[r].stage = "running" <=> rpReq[r].stage = "running"
                           /\ Counted(r)' <=> Counted(r)
                           /\ cell'[r].counted = cell[r].counted
  /\ registry' = registry
  /\ rpFlush'.todo = rpFlush.todo /\ rpFlush'.done \subseteq rpFlush.done
  /\ rpFlush'.counted = rpFlush.counted
  /\ rpFlush'.stage = rpFlush.stage
  /\ UNCHANGED <<minuteRows, hourRows, rpLate, rpLost>>

LEMMA RpKeptStep == ASSUME RpForms, RpClaims, RpPlacesKept PROVE RpClaims'
  <1>1. \A c : Held(c)' <=> Held(c)
    BY DEF Held, RpPlacesKept
  <1>2. CellsInv'
    <2>1. CellsInv /\ RpPlacesKept
      BY DEF RpClaims
    <2>2. \A m \in Minutes : registry[m] # NoCell => registry[m] \in RpRequests
      BY DEF RpForms
    <2>3. rpFlush.todo \subseteq RpRequests /\ rpFlush.done \subseteq RpRequests
      BY RpUpdates DEF RpForms
    <2>4. \A m \in Minutes : registry'[m] # NoCell =>
             /\ rpReq'[registry'[m]].stage # "running"
             /\ rpReq'[registry'[m]].minute = m
             /\ registry'[m] \notin rpFlush'.todo \cup rpFlush'.done
      BY <2>1, <2>2 DEF CellsInv, RpPlacesKept
    <2>5. \A c \in rpFlush'.todo \cup rpFlush'.done : rpReq'[c].stage # "running"
      BY <2>1, <2>3 DEF CellsInv, RpPlacesKept
    <2>6. \A r \in RpRequests : rpReq'[r].stage # "running" =>
             rpReq'[r].cell \in RpRequests /\ rpReq'[rpReq'[r].cell].stage # "running"
      BY <2>1 DEF CellsInv, RpPlacesKept
    <2>7. /\ rpFlush'.todo \cap rpFlush'.done = {}
          /\ rpFlush'.stage = "idle" => rpFlush'.counted = {}
          /\ rpFlush'.stage # "read" => rpFlush'.todo = {}
      BY <2>1 DEF CellsInv, RpPlacesKept
    <2> QED BY <2>4, <2>5, <2>6, <2>7 DEF CellsInv
  <1>3. ASSUME NEW r \in RpRequests PROVE RequestInv(r)'
    <2>1. RequestInv(r) /\ (Nowhere(r)' <=> Nowhere(r)) /\ (InOnePlace(r)' <=> InOnePlace(r))
      BY <1>1 DEF RpClaims, Nowhere, InOnePlace, RpPlacesKept
    <2> QED BY <2>1 DEF RequestInv, RpPlacesKept
  <1> QED BY <1>2, <1>3 DEF RpClaims

LEMMA RpFindStep == ASSUME RpForms, RpClaims, NEW r \in RpRequests, Find(r) PROVE RpClaims'
  <1> DEFINE found == IF registry[rpMinute] = NoCell THEN r ELSE registry[rpMinute]
  <1>1. /\ rpReq[r].stage = "running"
        /\ registry' = [registry EXCEPT ![rpMinute] = found]
        /\ rpReq' = [rpReq EXCEPT ![r] = [stage |-> "found", minute |-> rpMinute,
                                          cell |-> found]]
        /\ UNCHANGED <<rpMinute, cell, slowWindow, rpFlush, minuteRows, hourRows,
                       slowRows, rpPage, rpLate, rpLost, rpFaults>>
    BY DEF Find
  <1>2. /\ found \in RpRequests /\ found # NoCell /\ rpMinute \in Minutes
        /\ registry[rpMinute] = NoCell => found = r
        /\ registry[rpMinute] # NoCell => found = registry[rpMinute]
    BY RpConstants DEF RpForms
  <1> HIDE DEF found
  <1>3. /\ rpReq'[r].stage = "found" /\ rpReq'[r].minute = rpMinute /\ rpReq'[r].cell = found
        /\ \A q \in RpRequests : q # r => rpReq'[q] = rpReq[q]
        /\ registry'[rpMinute] = found
        /\ \A m \in Minutes : m # rpMinute => registry'[m] = registry[m]
    BY <1>1, <1>2 DEF RpForms
  <1>4. CellsInv
    BY DEF RpClaims
  <1>5. CellsInv'
    <2>1. ASSUME NEW m \in Minutes, registry'[m] # NoCell
          PROVE  /\ rpReq'[registry'[m]].stage # "running"
                 /\ rpReq'[registry'[m]].minute = m
                 /\ registry'[m] \notin rpFlush.todo \cup rpFlush.done
      <3>1. CASE registry'[m] = r /\ m = rpMinute
        BY <1>1, <1>3, <1>4, <3>1 DEF CellsInv
      <3>2. CASE registry'[m] = registry[m]
        BY <1>1, <1>3, <1>4, <2>1, <3>2 DEF CellsInv, RpForms
      <3> QED BY <1>2, <1>3, <2>1, <3>1, <3>2
    <2>2. \A c \in rpFlush.todo \cup rpFlush.done : rpReq'[c].stage # "running"
      BY <1>1, <1>3, <1>4, RpUpdates DEF CellsInv, RpForms
    <2>3. rpReq'[found].stage # "running"
      BY <1>1, <1>2, <1>3, <1>4 DEF CellsInv
    <2>4. ASSUME NEW q \in RpRequests, rpReq'[q].stage # "running"
          PROVE  rpReq'[q].cell \in RpRequests /\ rpReq'[rpReq'[q].cell].stage # "running"
      <3>1. CASE q = r
        BY <1>2, <1>3, <2>3, <3>1
      <3>2. CASE q # r
        BY <1>1, <1>3, <1>4, <2>4, <3>2 DEF CellsInv
      <3> QED BY <3>1, <3>2
    <2> QED BY <1>1, <1>4, <2>1, <2>2, <2>4 DEF CellsInv
  <1>6. \A c \in RpRequests : c # r => (Held(c)' <=> Held(c))
    BY <1>1, <1>2, <1>3, RpConstants DEF Held
  <1>7. ASSUME NEW q \in RpRequests PROVE RequestInv(q)'
    <2>1. (Counted(q)' <=> Counted(q)) /\ (Counted(q) => q # r)
      BY <1>1, <1>3 DEF Counted
    <2>2. (Nowhere(q)' <=> Nowhere(q)) /\ RequestInv(q)
      BY <1>1 DEF Nowhere, RpClaims
    <2>3. Counted(q) => /\ rpReq'[q].cell = rpReq[q].cell /\ rpReq[q].cell \in RpRequests
                        /\ rpReq[q].cell # r
      BY <1>1, <1>3, <1>4, <2>1 DEF CellsInv, Counted
    <2>4. Counted(q) => (InOnePlace(q)' <=> InOnePlace(q))
      BY <1>1, <1>6, <2>2, <2>3 DEF InOnePlace
    <2> QED BY <1>1, <2>1, <2>2, <2>3, <2>4 DEF RequestInv
  <1> QED BY <1>5, <1>7 DEF RpClaims

LEMMA RpCountStep == ASSUME RpForms, RpClaims, NEW r \in RpRequests, Count(r) PROVE RpClaims'
  <1> DEFINE c == rpReq[r].cell
  <1>1. /\ rpReq[r].stage = "found"
        /\ cell' = [cell EXCEPT ![c].counted = @ \cup {r}]
        /\ rpReq' = [rpReq EXCEPT ![r].stage = "counted"]
        /\ rpLate' = IF CountIsRead(c) THEN rpLate \cup {r} ELSE rpLate
        /\ UNCHANGED <<rpMinute, registry, slowWindow, rpFlush, minuteRows, hourRows,
                       slowRows, rpPage, rpLost, rpFaults>>
    BY DEF Count
  <1>2. CellsInv
    BY DEF RpClaims
  <1>3. c \in RpRequests
    BY <1>1, <1>2 DEF CellsInv
  <1>4. /\ rpReq'[r].stage = "counted"
        /\ \A q \in RpRequests : /\ rpReq'[q].cell = rpReq[q].cell
                                 /\ rpReq'[q].minute = rpReq[q].minute
                                 /\ q # r => rpReq'[q] = rpReq[q]
    <2>1. rpReq' = [rpReq EXCEPT ![r].stage = "counted"]
      BY <1>1
    <2> QED BY <2>1, RpFields
  <1>5. /\ cell'[c].counted = cell[c].counted \cup {r}
        /\ \A d \in RpRequests : d # c => cell'[d] = cell[d]
    BY <1>1, <1>3, RpFields
  <1>6. CountIsRead(c) <=> ~Held(c)
    <2>1. c # NoCell /\ \A m \in Minutes : registry[m] = c => c \notin rpFlush.done
      BY <1>2, <1>3, RpConstants DEF CellsInv
    <2>2. c \in rpFlush.done => c \notin rpFlush.todo
      BY <1>2 DEF CellsInv
    <2> QED BY <2>1, <2>2, RpConstants DEF CountIsRead, Held
  <1> HIDE DEF c
  <1>7. \A q \in RpRequests : rpReq'[q].stage = "running" <=> rpReq[q].stage = "running"
    BY <1>1, <1>4
  <1>8. CellsInv'
    BY <1>1, <1>2, <1>4, <1>7 DEF CellsInv, RpForms, RpPass
  <1>9. \A d : Held(d)' <=> Held(d)
    BY <1>1 DEF Held
  <1>10. c = rpReq[r].cell
    BY DEF c
  <1>11. RequestInv(r)'
    <2>1. ~Counted(r) /\ Counted(r)' /\ RequestInv(r) /\ Nowhere(r)
      BY <1>1, <1>4 DEF Counted, RpClaims, RequestInv
    <2>2. InOnePlace(r)'
      BY <1>1, <1>4, <1>6, <1>9, <1>10, <2>1 DEF InOnePlace, Nowhere
    <2>3. \A d \in RpRequests : r \in cell'[d].counted <=> d = rpReq'[r].cell
      BY <1>3, <1>4, <1>5, <1>10, <2>1 DEF RequestInv
    <2> QED BY <1>1, <2>1, <2>2, <2>3 DEF RequestInv
  <1>12. ASSUME NEW q \in RpRequests, q # r PROVE RequestInv(q)'
    <2>1. RequestInv(q) /\ rpReq'[q] = rpReq[q] /\ (Counted(q)' <=> Counted(q))
      BY <1>4, <1>12 DEF RpClaims, Counted
    <2>2. /\ \A d \in RpRequests : q \in cell'[d].counted <=> q \in cell[d].counted
          /\ q \in rpLate' <=> q \in rpLate
      BY <1>1, <1>3, <1>5, <1>12
    <2>3. (Nowhere(q)' <=> Nowhere(q)) /\ (InOnePlace(q)' <=> InOnePlace(q))
      BY <1>1, <1>9, <2>1, <2>2 DEF Nowhere, InOnePlace
    <2> QED BY <1>1, <2>1, <2>2, <2>3 DEF RequestInv
  <1> QED BY <1>8, <1>11, <1>12 DEF RpClaims

LEMMA RpTakeStep == ASSUME RpForms, RpClaims, TakeClosed PROVE RpClaims'
  <1> DEFINE taken == {registry[m] : m \in ClosedCells(rpMinute)}
  <1>1. /\ rpFlush.stage = "idle"
        /\ rpFlush' = [NoFlush EXCEPT !.stage = "read", !.todo = taken]
        /\ registry' = Unregistered(rpMinute)
        /\ UNCHANGED <<rpReq, cell, minuteRows, hourRows, rpLate, rpLost>>
    BY DEF TakeClosed
  <1>2. CellsInv /\ rpFlush.todo = {} /\ rpFlush.counted = {}
    BY <1>1 DEF RpClaims, CellsInv
  <1>3. /\ rpFlush'.stage = "read" /\ rpFlush'.todo = taken
        /\ rpFlush'.done = {} /\ rpFlush'.counted = {}
    BY <1>1 DEF NoFlush
  <1>4. \A m \in Minutes : registry'[m] = IF m \in ClosedCells(rpMinute) THEN NoCell ELSE registry[m]
    BY <1>1 DEF Unregistered
  <1>5. \A m \in ClosedCells(rpMinute) : m \in Minutes /\ registry[m] # NoCell
    BY DEF ClosedCells
  <1>6. \A c \in taken : \E m \in Minutes : m \in ClosedCells(rpMinute) /\ registry[m] = c
    BY <1>5
  <1>7. ASSUME NEW m \in ClosedCells(rpMinute) PROVE registry[m] \in taken
    OBVIOUS
  <1> HIDE DEF taken
  <1>8. CellsInv'
    <2>1. ASSUME NEW m \in Minutes, registry'[m] # NoCell
          PROVE  /\ rpReq'[registry'[m]].stage # "running"
                 /\ rpReq'[registry'[m]].minute = m
                 /\ registry'[m] \notin rpFlush'.todo \cup rpFlush'.done
      <3>1. registry'[m] = registry[m] /\ m \notin ClosedCells(rpMinute)
        BY <1>4, <2>1
      <3>2. /\ rpReq[registry[m]].stage # "running" /\ rpReq[registry[m]].minute = m
            /\ \A n \in Minutes : registry[n] = registry[m] => n = m
        BY <1>2, <2>1, <3>1 DEF CellsInv
      <3>3. registry[m] \notin taken
        BY <1>6, <3>1, <3>2
      <3> QED BY <1>1, <1>3, <3>1, <3>2, <3>3
    <2>2. \A c \in rpFlush'.todo \cup rpFlush'.done : rpReq'[c].stage # "running"
      BY <1>1, <1>2, <1>3, <1>5, <1>6 DEF CellsInv
    <2>3. /\ rpFlush'.todo \cap rpFlush'.done = {} /\ rpFlush'.stage = "read"
          /\ rpReq' = rpReq
      BY <1>1, <1>3
    <2> QED BY <1>2, <2>1, <2>2, <2>3 DEF CellsInv
  <1>9. \A c \in RpRequests : Held(c)' <=> Held(c)
    BY <1>2, <1>3, <1>4, <1>5, <1>6, <1>7, RpConstants DEF Held
  <1>10. ASSUME NEW r \in RpRequests PROVE RequestInv(r)'
    <2>1. RequestInv(r) /\ (Nowhere(r)' <=> Nowhere(r)) /\ (Counted(r)' <=> Counted(r))
      BY <1>1, <1>2, <1>3 DEF RpClaims, Nowhere, Counted
    <2>2. Counted(r) => rpReq[r].cell \in RpRequests
      BY <1>2 DEF CellsInv, Counted
    <2>3. Counted(r) => (InOnePlace(r)' <=> InOnePlace(r))
      BY <1>1, <1>2, <1>3, <1>9, <2>1, <2>2 DEF InOnePlace
    <2> QED BY <1>1, <2>1, <2>2, <2>3 DEF RequestInv
  <1> QED BY <1>8, <1>10 DEF RpClaims

LEMMA RpDrainStep == ASSUME RpForms, RpClaims, NEW c \in RpRequests, DrainCounts(c) PROVE RpClaims'
  <1>1. /\ rpFlush.stage = "read" /\ c \in rpFlush.todo
        /\ UNCHANGED <<rpReq, registry, cell, minuteRows, hourRows, rpLate, rpLost>>
    BY DEF DrainCounts
  <1>2. /\ rpFlush'.stage = "read" /\ rpFlush'.counted = rpFlush.counted \cup cell[c].counted
        /\ rpFlush'.todo = rpFlush.todo \ {c}
        /\ rpFlush'.done = IF cell[c].counted = {} THEN rpFlush.done ELSE rpFlush.done \cup {c}
    <2>1. rpFlush' = [rpFlush EXCEPT !.counted = @ \cup cell[c].counted,
                        !.todo = @ \ {c},
                        !.done = IF cell[c].counted = {} THEN @ ELSE @ \cup {c}]
      BY DEF DrainCounts
    <2> QED BY <1>1, <2>1 DEF RpForms, RpPass
  <1>3. CellsInv
    BY DEF RpClaims
  <1>4. CellsInv'
    <2>1. /\ rpFlush'.todo \cup rpFlush'.done \subseteq rpFlush.todo \cup rpFlush.done
          /\ rpFlush'.todo \cap rpFlush'.done = {}
      BY <1>1, <1>2, <1>3 DEF CellsInv
    <2> QED BY <1>1, <1>2, <1>3, <2>1 DEF CellsInv
  <1>5. /\ Held(c) /\ ~Held(c)'
        /\ \A d \in RpRequests : d # c => (Held(d)' <=> Held(d))
    <2>1. \A m \in Minutes : registry[m] # c
      BY <1>1, <1>3, RpConstants DEF CellsInv
    <2> QED BY <1>1, <1>2, <2>1 DEF Held
  <1>6. ASSUME NEW r \in RpRequests PROVE RequestInv(r)'
    <2>1. RequestInv(r) /\ (Counted(r)' <=> Counted(r))
      BY <1>1 DEF RpClaims, Counted
    <2>2. CASE Counted(r) /\ rpReq[r].cell = c
      <3>1. Nowhere(r) /\ r \in cell[c].counted
        BY <1>5, <2>1, <2>2 DEF RequestInv, InOnePlace
      <3>2. InOnePlace(r)'
        BY <1>1, <1>2, <1>5, <2>2, <3>1 DEF InOnePlace, Nowhere
      <3> QED BY <1>1, <2>1, <2>2, <3>2 DEF RequestInv
    <2>3. CASE ~(Counted(r) /\ rpReq[r].cell = c)
      <3>1. r \notin cell[c].counted
        BY <2>1, <2>3 DEF RequestInv
      <3>2. (Nowhere(r)' <=> Nowhere(r)) /\ (r \in rpFlush'.counted <=> r \in rpFlush.counted)
        BY <1>1, <1>2, <3>1 DEF Nowhere
      <3>3. Counted(r) => rpReq[r].cell \in RpRequests /\ rpReq[r].cell # c
        BY <1>3, <2>3 DEF CellsInv, Counted
      <3>4. Counted(r) => (InOnePlace(r)' <=> InOnePlace(r))
        BY <1>1, <1>5, <3>2, <3>3 DEF InOnePlace
      <3> QED BY <1>1, <2>1, <3>2, <3>4 DEF RequestInv
    <2> QED BY <2>2, <2>3
  <1> QED BY <1>4, <1>6 DEF RpClaims

\* The pass ends: what it had counted is in the buckets or lost.
LEMMA RpEndStep == ASSUME RpForms, RpClaims, Persist \/ PersistFails PROVE RpClaims'
  <1>1. /\ rpFlush.stage = "write" /\ rpFlush' = NoFlush
        /\ UNCHANGED <<rpReq, registry, cell, rpLate>>
    BY DEF Persist, PersistFails
  <1>2. CellsInv /\ rpFlush.todo = {}
    BY <1>1 DEF RpClaims, CellsInv
  <1>3. rpFlush'.stage = "idle" /\ rpFlush'.todo = {} /\ rpFlush'.done = {} /\ rpFlush'.counted = {}
    BY <1>1 DEF NoFlush
  <1>4. CellsInv'
    BY <1>1, <1>2, <1>3 DEF CellsInv
  <1>5. \A c : Held(c)' <=> Held(c)
    BY <1>1, <1>2, <1>3 DEF Held
  <1>6. ASSUME NEW r \in RpRequests PROVE RequestInv(r)'
    <2>1. /\ RequestInv(r) /\ (Counted(r)' <=> Counted(r))
          /\ minuteRows[r] \in Nat /\ hourRows[r] \in Nat
      BY <1>1 DEF RpClaims, Counted, RpForms, RpShown
    <2>2. /\ minuteRows'[r] <= hourRows'[r]
          /\ \/ /\ hourRows'[r] = IF r \in rpFlush.counted THEN hourRows[r] + 1 ELSE hourRows[r]
                /\ rpLost' = rpLost
             \/ hourRows'[r] = hourRows[r] /\ rpLost' = rpLost \cup rpFlush.counted
      <3>1. CASE Persist
        <4> DEFINE more == Upserted(minuteRows, rpFlush.counted)
        <4>1. /\ more \in RpShown
              /\ more[r] = IF r \in rpFlush.counted THEN minuteRows[r] + 1 ELSE minuteRows[r]
              /\ hourRows'[r] = IF r \in rpFlush.counted THEN hourRows[r] + 1 ELSE hourRows[r]
              /\ rpLost' = rpLost /\ minuteRows' = Pruned(more)
          <5>1. /\ minuteRows \in RpShown /\ hourRows \in RpShown /\ rpLost' = rpLost
                /\ minuteRows' = Pruned(more) /\ hourRows' = Upserted(hourRows, rpFlush.counted)
            BY <3>1 DEF Persist, RpForms
          <5>2. hourRows'[r] = IF r \in rpFlush.counted THEN hourRows[r] + 1 ELSE hourRows[r]
            BY <5>1 DEF Upserted
          <5>3. /\ more \in RpShown
                /\ more[r] = IF r \in rpFlush.counted THEN minuteRows[r] + 1 ELSE minuteRows[r]
            BY <5>1 DEF Upserted, RpShown
          <5> QED BY <5>1, <5>2, <5>3
        <4> HIDE DEF more
        <4>2. Pruned(more)[r] <= more[r] /\ Pruned(more)[r] \in Nat /\ more[r] \in Nat
          BY <4>1, RowForms DEF RpShown
        <4>3. minuteRows[r] <= hourRows[r]
          BY <2>1 DEF RequestInv
        <4> QED BY <2>1, <4>1, <4>2, <4>3
      <3>2. CASE PersistFails
        BY <2>1, <3>2 DEF PersistFails, RequestInv
      <3> QED BY <3>1, <3>2
    <2>3. Nowhere(r) => Nowhere(r)'
      BY <1>1, <1>3, <2>1, <2>2 DEF Nowhere
    <2>4. InOnePlace(r) => InOnePlace(r)'
      <3>1. CASE Held(rpReq[r].cell)
        BY <1>1, <1>5, <2>3, <3>1 DEF InOnePlace
      <3>2. CASE ~Held(rpReq[r].cell)
        BY <1>1, <1>3, <1>5, <2>1, <2>2, <3>2 DEF InOnePlace
      <3> QED BY <3>1, <3>2
    <2> QED BY <1>1, <2>1, <2>2, <2>3, <2>4 DEF RequestInv
  <1> QED BY <1>4, <1>6 DEF RpClaims

LEMMA RpSlowEnd == ASSUME RpForms, RpClaims, TakeSlow PROVE RpClaims'
  <1>1. /\ rpFlush.stage = "read" /\ rpFlush.todo = {} /\ rpFlush.done = {}
        /\ UNCHANGED <<rpReq, registry, cell, minuteRows, hourRows, rpLate, rpLost>>
    BY DEF TakeSlow
  <1>2. rpFlush'.todo = {} /\ rpFlush'.done = {} /\ rpFlush'.counted = rpFlush.counted
    BY <1>1 DEF TakeSlow, NoFlush, RpForms, RpPass
  <1>3. rpFlush'.stage = "idle" => rpFlush.counted = {}
    BY <1>1 DEF TakeSlow, RpForms, RpPass
  <1>4. CellsInv'
    BY <1>1, <1>2, <1>3 DEF RpClaims, CellsInv
  <1>5. \A c : Held(c)' <=> Held(c)
    BY <1>1, <1>2 DEF Held
  <1>6. ASSUME NEW r \in RpRequests PROVE RequestInv(r)'
    <2>1. /\ RequestInv(r) /\ (Counted(r)' <=> Counted(r)) /\ (Nowhere(r)' <=> Nowhere(r))
          /\ (InOnePlace(r)' <=> InOnePlace(r))
      BY <1>1, <1>2, <1>5 DEF RpClaims, Counted, Nowhere, InOnePlace
    <2> QED BY <1>1, <2>1 DEF RequestInv
  <1> QED BY <1>4, <1>6 DEF RpClaims

LEMMA RpClaimsStep == ASSUME RpForms, RpClaims, [RpNext]_rpVars PROVE RpClaims'
  <1>1. ASSUME NEW r \in RpRequests, Band(r) PROVE RpPlacesKept
    <2>1. rpReq[r].cell \in RpRequests
      BY <1>1 DEF Band, RpClaims, CellsInv
    <2>2. /\ rpReq' = [rpReq EXCEPT ![r].stage = "banded"] /\ rpReq[r].stage = "counted"
          /\ cell' = [cell EXCEPT ![rpReq[r].cell].banded = @ \cup {r}]
          /\ UNCHANGED <<registry, rpFlush, minuteRows, hourRows, rpLate, rpLost>>
      BY <1>1 DEF Band
    <2>3. \A q \in RpRequests : cell'[q].counted = cell[q].counted
      BY <2>1, <2>2, RpFields
    <2>4. /\ rpReq'[r].stage = "banded"
          /\ \A q \in RpRequests : /\ rpReq'[q].cell = rpReq[q].cell
                                   /\ rpReq'[q].minute = rpReq[q].minute
                                   /\ q # r => rpReq'[q] = rpReq[q]
      BY <2>2, RpFields
    <2> QED BY <2>2, <2>3, <2>4 DEF RpPlacesKept, Counted
  <1>2. ASSUME NEW r \in RpRequests, Slow(r) PROVE RpPlacesKept
    <2>1. /\ rpReq' = [rpReq EXCEPT ![r].stage = "done"] /\ rpReq[r].stage = "banded"
          /\ UNCHANGED <<registry, cell, rpFlush, minuteRows, hourRows, rpLate, rpLost>>
      BY <1>2 DEF Slow
    <2>2. /\ rpReq'[r].stage = "done"
          /\ \A q \in RpRequests : /\ rpReq'[q].cell = rpReq[q].cell
                                   /\ rpReq'[q].minute = rpReq[q].minute
                                   /\ q # r => rpReq'[q] = rpReq[q]
      BY <2>1, RpFields
    <2> QED BY <2>1, <2>2 DEF RpPlacesKept, Counted
  <1>3. ASSUME NEW c \in RpRequests, DrainBands(c) PROVE RpPlacesKept
    <2>1. rpFlush' = [rpFlush EXCEPT !.banded = @ \cup cell[c].banded, !.done = @ \ {c}]
      BY <1>3 DEF DrainBands
    <2>2. /\ rpFlush'.todo = rpFlush.todo /\ rpFlush'.done \subseteq rpFlush.done
          /\ rpFlush'.counted = rpFlush.counted /\ rpFlush'.stage = rpFlush.stage
      BY <2>1 DEF RpForms, RpPass
    <2> QED BY <1>3, <2>2 DEF DrainBands, RpPlacesKept, Counted
  <1>4. CASE PageLive \/ PageLoad(minuteRows) \/ PageLoad(hourRows) \/ RpTick \/ UNCHANGED rpVars
    <2>1. UNCHANGED <<rpReq, registry, cell, rpFlush, minuteRows, hourRows, rpLate, rpLost>>
      BY <1>4 DEF PageLive, PageLoad, RpTick, rpVars
    <2>2. RpPlacesKept
      BY <2>1 DEF RpPlacesKept, Counted
    <2> QED BY <2>2, RpKeptStep
  <1> QED BY <1>1, <1>2, <1>3, <1>4, RpKeptStep, RpFindStep, RpCountStep, RpTakeStep, RpDrainStep,
             RpEndStep, RpSlowEnd DEF RpNext

-----------------------------------------------------------------------------
(* Pages.                                                                  *)

\* In the buckets nothing counts twice, and what is registered not at all.
LEMMA RpRowsOnce ==
  ASSUME RpForms, RpClaims, NEW r \in RpRequests
  PROVE  /\ hourRows[r] <= 1 /\ minuteRows[r] <= hourRows[r]
         /\ hourRows[r] \in Nat /\ minuteRows[r] \in Nat
         /\ Registered(r) => hourRows[r] = 0
  <1>1. RequestInv(r) /\ hourRows[r] \in Nat /\ minuteRows[r] \in Nat
    BY DEF RpClaims, RpForms, RpShown
  <1>2. hourRows[r] <= 1
    BY <1>1 DEF RequestInv, Nowhere, InOnePlace
  <1>3. Registered(r) => Counted(r) /\ Held(rpReq[r].cell)
    BY <1>1 DEF Registered, RequestInv, Held, RpForms
  <1> QED BY <1>1, <1>2, <1>3 DEF RequestInv, InOnePlace, Nowhere

LEMMA RpPageStep == ASSUME RpForms, RpClaims, PageInv, [RpNext]_rpVars PROVE PageInv'
  <1>1. CASE UNCHANGED <<rpPage, hourRows>>
    BY <1>1 DEF PageInv
  <1>2. CASE PageLive
    <2>1. /\ rpPage'.stage = "live" /\ hourRows' = hourRows
          /\ rpPage'.live = {r \in RpRequests : Registered(r)}
      BY <1>2 DEF PageLive, NoPage
    <2> QED BY <2>1, RpRowsOnce DEF PageInv
  <1>3. ASSUME NEW rows \in RpShown, PageLoad(rows), \A r \in RpRequests : rows[r] <= hourRows[r]
        PROVE  PageInv'
    <2> DEFINE shown == Upserted(rows, rpPage.live)
    <2>1. /\ rpPage.stage = "live" /\ hourRows' = hourRows
          /\ rpPage' = [rpPage EXCEPT !.stage = "shown", !.shown = shown]
      BY <1>3 DEF PageLoad
    <2>2. \A r \in RpRequests : shown[r] = IF r \in rpPage.live THEN rows[r] + 1 ELSE rows[r]
      BY RowForms
    <2> HIDE DEF shown
    <2>3. /\ rpPage'.stage = "shown" /\ rpPage'.shown = shown
          /\ rpPage'.crossed = rpPage.crossed
      BY <2>1 DEF RpForms, RpView
    <2>4. ASSUME ~rpPage.crossed, NEW r \in RpRequests PROVE shown[r] <= 1
      <3>1. r \in rpPage.live => hourRows[r] = 0
        BY <2>1, <2>4 DEF PageInv
      <3>2. rows[r] \in Nat /\ rows[r] <= hourRows[r] /\ hourRows[r] <= 1 /\ hourRows[r] \in Nat
        BY <1>3, RpRowsOnce DEF RpShown
      <3> QED BY <2>2, <3>1, <3>2
    <2> QED BY <2>3, <2>4 DEF PageInv
  <1>4. CASE Persist
    <2>1. rpPage'.stage = rpPage.stage /\ rpPage'.live = rpPage.live /\ rpPage'.shown = rpPage.shown
          /\ (rpPage.crossed \/ rpPage.stage = "live" => rpPage'.crossed)
      BY <1>4 DEF Persist, RpForms, RpView
    <2> QED BY <2>1 DEF PageInv
  <1>5. \A r \in RpRequests : minuteRows[r] <= hourRows[r] /\ hourRows[r] <= hourRows[r]
    BY RpRowsOnce
  <1>6. minuteRows \in RpShown /\ hourRows \in RpShown
    BY DEF RpForms
  <1>7. PageLoad(minuteRows) \/ PageLoad(hourRows) => PageInv'
    BY <1>3, <1>5, <1>6
  <1> QED BY <1>1, <1>2, <1>4, <1>7
          DEF RpNext, rpVars, Find, Count, Band, Slow, DrainCounts, DrainBands, TakeClosed,
              TakeSlow, PersistFails, RpTick

LEMMA RecordInit == RpInit => RecordInv
  <1> SUFFICES ASSUME RpInit PROVE RecordInv
    OBVIOUS
  <1>1. RpForms
    BY RpInitForms
  <1>2. \A r \in RpRequests : rpReq[r].stage = "running" /\ cell[r].counted = {} /\ hourRows[r] = 0
                              /\ minuteRows[r] = 0
    BY DEF RpInit
  <1>3. /\ rpFlush.stage = "idle" /\ rpFlush.todo = {} /\ rpFlush.done = {}
        /\ rpFlush.counted = {} /\ rpLate = {} /\ rpLost = {} /\ rpPage.stage = "none"
        /\ \A m \in Minutes : registry[m] = NoCell
    BY DEF RpInit, NoFlush, NoPage
  <1>4. CellsInv
    BY <1>2, <1>3 DEF CellsInv
  <1>5. \A r \in RpRequests : RequestInv(r)
    BY <1>2, <1>3 DEF RequestInv, Counted, Nowhere
  <1>6. PageInv
    BY <1>3 DEF PageInv
  <1> QED BY <1>1, <1>4, <1>5, <1>6 DEF RecordInv

LEMMA RecordStep == RecordInv /\ [RpNext]_rpVars => RecordInv'
  <1> SUFFICES ASSUME RecordInv, [RpNext]_rpVars PROVE RecordInv'
    OBVIOUS
  <1>1. RpForms /\ RpClaims /\ PageInv /\ CellsInv
    BY DEF RecordInv, RpClaims
  <1> QED BY <1>1, RpFormsStep, RpClaimsStep, RpPageStep DEF RecordInv, RpClaims

\* Every counted request is in one place.
LEMMA OnePlace == RecordInv => RecordedOnce
  <1> SUFFICES ASSUME RecordInv PROVE RecordedOnce
    OBVIOUS
  <1>1. RpForms /\ RpClaims /\ PageInv /\ CellsInv
    BY DEF RecordInv, RpClaims
  <1>2. ASSUME NEW r \in RpRequests
        PROVE  hourRows[r] + (IF Registered(r) THEN 1 ELSE 0)
                 + (IF InHand(r) THEN 1 ELSE 0)
                 + (IF r \in rpLost \cup rpLate THEN 1 ELSE 0)
                 = IF Counted(r) THEN 1 ELSE 0
    <2> DEFINE c == rpReq[r].cell
    <2>1. RequestInv(r)
      BY <1>1 DEF RpClaims
    <2>2. Counted(r) => c \in RpRequests
      BY <1>1 DEF CellsInv, Counted
    <2>3. Registered(r) <=> Counted(r) /\ \E m \in Minutes : registry[m] = c
      BY <1>1, <2>1, <2>2, RpConstants DEF Registered, RequestInv, RpForms
    <2>4. InHand(r) <=> r \in rpFlush.counted \/ (Counted(r) /\ c \in rpFlush.todo)
      BY <1>1, <2>1, <2>2, RpUpdates DEF InHand, RequestInv, RpForms
    <2>5. ~(c \in rpFlush.todo /\ \E m \in Minutes : registry[m] = c) \/ c = NoCell
      BY <1>1 DEF CellsInv
    <2>6. CASE ~Counted(r)
      BY <2>1, <2>3, <2>4, <2>6 DEF RequestInv, Nowhere
    <2>7. CASE Counted(r) /\ Held(c)
      <3>1. Nowhere(r) /\ c # NoCell
        BY <2>1, <2>2, <2>7, RpConstants DEF RequestInv, InOnePlace
      <3> QED BY <2>3, <2>4, <2>5, <2>7, <3>1 DEF Held, Nowhere
    <2>8. CASE Counted(r) /\ ~Held(c)
      <3>1. ~Registered(r) /\ (InHand(r) <=> r \in rpFlush.counted)
        BY <2>3, <2>4, <2>8 DEF Held
      <3> QED BY <2>1, <2>8, <3>1 DEF RequestInv, InOnePlace
    <2> QED BY <2>6, <2>7, <2>8
  <1> QED BY <1>1, <1>2 DEF RecordedOnce, PageInv

LEMMA RpTypes == RpForms => RpTypeOK
  BY DEF RpForms, RpTypeOK, RpRow, RpStages, RpCell, RpPass, RpShown, RpView

\* A request that was counted is in one place: the cell of its minute, the
\* hands of the pass that flushes, or the table, unless its transaction failed
\* or it added to a cell the pass had read; and a page that no pass crossed shows
\* it once (record_in, take_closed, drain, persist, live and load).
THEOREM RoutesAreCountedOnce == RpSpec => []RecordedOnce
  BY RecordInit, RecordStep, OnePlace, PTL DEF RpSpec

-----------------------------------------------------------------------------
(* The recorder of statements: the invariant.                             *)

\* A statement, a slot, the counters of a key, and who walks the table.
SqStages == {"started", "probe", "claim", "add", "band", "done"}
SqRow == [stage : SqStages, key : SqlKeys, offset : 0..PROBE, slot : Slots]
SlotRow == [key : SqlKeys \cup {0}, statements : Nat, bands : Nat]
KeyCounter == [statements : Nat, bands : Nat]
SqWalk == [who : {"nobody", "flush", "page"}, slot : 0..SLOTS, read : Nat \cup {-1}]
SqView == [stage : {"none", "rows", "shown"}, shown : Counters]
Ended == {e \in Executions : sqExec[e].stage = "done"}

SqForms ==
  /\ sqEnabled \in BOOLEAN
  /\ sqExec \in [Executions -> SqRow]
  /\ \A e \in Executions : sqExec[e].stage = "claim" => sqExec[e].offset # PROBE
  /\ table \in [Slots -> SlotRow]
  /\ lastSeen \in Counters /\ sqTaken \in Counters /\ sqRows \in Counters
  /\ unattributed \in Nat /\ unattributed <= Cardinality(Ended)
  /\ sqReader \in SqWalk
  /\ sqPage \in SqView

\* The walk holds a count of a slot that has a key; a page walks for its rows.
WalkInv ==
  /\ sqReader.read # -1 => sqReader.slot \in Slots /\ table[sqReader.slot].key # 0
  /\ sqReader.who = "page" => sqPage.stage = "rows"

\* Nothing is known of a key without a slot.
UnknownInv(k) ==
  SlotsOf(k) = {} =>
    /\ sqRows[k].statements = 0 /\ sqTaken[k].statements = 0 /\ lastSeen[k].statements = 0
    /\ sqRows[k].bands = 0 /\ sqTaken[k].bands = 0 /\ lastSeen[k].bands = 0
    /\ sqPage.shown[k].statements = 0

\* The counters of a key with one slot.  What the walk read of it is not less
\* than what was seen; a page has not shown more than was seen before it comes
\* to the slot.
SumInv(k) ==
  /\ sqRows[k].statements + sqTaken[k].statements <= lastSeen[k].statements
  /\ k \notin sqLost =>
        sqRows[k].statements + sqTaken[k].statements = lastSeen[k].statements
  /\ sqRows[k].bands + sqTaken[k].bands <= lastSeen[k].bands
SlotInv(k, s) ==
  /\ lastSeen[k].statements <= table[s].statements
  /\ lastSeen[k].bands <= table[s].bands
  /\ sqPage.shown[k].statements <= table[s].statements
  /\ sqPage.stage = "rows" /\ ~(sqReader.who = "page" /\ sqReader.slot > s) =>
        sqPage.shown[k].statements <= lastSeen[k].statements
  /\ sqReader.read # -1 /\ sqReader.slot = s =>
        /\ lastSeen[k].statements <= sqReader.read
        /\ sqReader.read <= table[s].statements
KnownInv(k) == \A s \in Slots : SlotsOf(k) = {s} => SumInv(k) /\ SlotInv(k, s)

SumsInv == SqForms /\ WalkInv /\ \A k \in SqlKeys : UnknownInv(k) /\ KnownInv(k)

-----------------------------------------------------------------------------
(* Forms of the recorder of statements.                                    *)

LEMMA SqConstants ==
  /\ SLOTS \in Nat /\ SLOTS > 0 /\ PROBE \in Nat /\ PROBE > 0
  /\ 0 \in Slots /\ Slots \subseteq Nat /\ \A s \in Slots : s < SLOTS
  /\ \A s \in 0..SLOTS : s < SLOTS => s \in Slots /\ s + 1 \in 0..SLOTS
  /\ SqlKeys \subseteq Nat /\ 0 \notin SqlKeys
  /\ IsFiniteSet(Executions)
  BY SqlPerfAssumption DEF Slots

LEMMA ProbedSlotForm == \A q \in SqRow : ProbedSlot(q) \in Slots
  <1> SUFFICES ASSUME NEW q \in SqRow PROVE ProbedSlot(q) \in Slots
    OBVIOUS
  <1>1. q.key \in Nat /\ q.offset \in Nat /\ SLOTS \in Nat /\ SLOTS > 0
    <2>1. q.key \in SqlKeys /\ q.offset \in 0..PROBE
      BY DEF SqRow
    <2>2. SLOTS \in Nat /\ SLOTS > 0 /\ PROBE \in Nat
      BY SqConstants
    <2>3. q.key \in Nat
      BY <2>1, SqConstants
    <2> QED BY <2>1, <2>2, <2>3
  <1>2. (q.key % SLOTS) \in Nat
    BY <1>1
  <1>3. (q.key % SLOTS) + q.offset \in Nat
    BY <1>1, <1>2
  <1>4. \A n \in Nat : (n % SLOTS) \in 0..(SLOTS - 1)
    BY <1>1
  <1> QED BY <1>3, <1>4 DEF ProbedSlot, Slots

\* The rows a drain or a page adds to, key by key.
LEMMA CounterForms ==
  ASSUME NEW rows \in Counters, NEW k \in SqlKeys
  PROVE  /\ rows[k].statements \in Nat /\ rows[k].bands \in Nat
         /\ \A c \in KeyCounter :
              /\ AddedTo(rows, k, c) \in Counters
              /\ AddedTo(rows, k, c)[k].statements = rows[k].statements + c.statements
              /\ AddedTo(rows, k, c)[k].bands = rows[k].bands + c.bands
              /\ \A j \in SqlKeys : j # k => AddedTo(rows, k, c)[j] = rows[j]
              /\ [rows EXCEPT ![k] = c] \in Counters
              /\ [rows EXCEPT ![k] = c][k] = c
              /\ \A j \in SqlKeys : j # k => [rows EXCEPT ![k] = c][j] = rows[j]
  BY DEF Counters, AddedTo, KeyCounter

LEMMA SinceForm ==
  ASSUME NEW a \in KeyCounter, NEW b \in KeyCounter
  PROVE  /\ Since(a, b) \in KeyCounter
         /\ Since(a, b).statements = Monus(a.statements, b.statements)
         /\ Since(a, b).bands <= Monus(a.bands, b.bands)
  BY DEF Since, KeyCounter, Zero, Monus

LEMMA NoRowsForm ==
  /\ NoRows \in Counters
  /\ \A k \in SqlKeys : NoRows[k].statements = 0 /\ NoRows[k].bands = 0
  BY DEF NoRows, Zero, Counters

\* What steps make of a statement.
LEMMA ExecForms ==
  ASSUME SqForms, NEW e \in Executions
  PROVE  /\ sqExec[e] \in SqRow
         /\ sqExec[e].offset # PROBE => sqExec[e].offset + 1 \in 0..PROBE
         /\ \A s \in SqStages : /\ [sqExec[e] EXCEPT !.stage = s] \in SqRow
                                /\ [sqExec[e] EXCEPT !.stage = s].stage = s
                                /\ [sqExec[e] EXCEPT !.stage = s].offset = sqExec[e].offset
  BY SqConstants DEF SqForms, SqRow

\* A statement that goes on has a form, and has not ended unless it says so.
LEMMA ExecStepForms ==
  ASSUME SqForms, NEW e \in Executions, NEW q \in SqRow, ExecStep(e, q),
         q.stage = "claim" => q.offset # PROBE,
         sqExec[e].stage # "done"
  PROVE  /\ sqExec' \in [Executions -> SqRow]
         /\ \A d \in Executions : sqExec'[d].stage = "claim" => sqExec'[d].offset # PROBE
         /\ Cardinality(Ended) \in Nat /\ Cardinality(Ended') \in Nat
         /\ Cardinality(Ended) <= Cardinality(Ended')
         /\ q.stage = "done" => Cardinality(Ended') = Cardinality(Ended) + 1
  <1>1. /\ sqExec' = [sqExec EXCEPT ![e] = q] /\ sqExec \in [Executions -> SqRow]
        /\ sqExec' \in [Executions -> SqRow]
    BY DEF ExecStep, SqForms
  <1>2. sqExec'[e] = q /\ \A d \in Executions : d # e => sqExec'[d] = sqExec[d]
    BY <1>1
  <1>3. \A d \in Executions : sqExec'[d].stage = "claim" => sqExec'[d].offset # PROBE
    BY <1>2 DEF SqForms
  <1>4. Ended' = IF q.stage = "done" THEN Ended \cup {e} ELSE Ended
    BY <1>2 DEF Ended
  <1>5. IsFiniteSet(Ended) /\ e \notin Ended
    <2>1. Ended \subseteq Executions
      BY DEF Ended
    <2>2. e \notin Ended
      BY DEF Ended
    <2> QED BY <2>1, <2>2, SqConstants, FS_Subset
  <1>6. /\ Cardinality(Ended) \in Nat
        /\ Cardinality(Ended \cup {e}) = Cardinality(Ended) + 1
    BY <1>5, FS_CardinalityType, FS_AddElement
  <1> QED BY <1>1, <1>3, <1>4, <1>6

LEMMA SqInitForms == SqInit => SqForms
  <1> SUFFICES ASSUME SqInit PROVE SqForms
    OBVIOUS
  <1>1. /\ sqExec \in [Executions -> SqRow]
        /\ \A e \in Executions : sqExec[e].stage = "started"
    BY SqConstants DEF SqInit, SqRow, SqStages
  <1>2. table \in [Slots -> SlotRow]
    BY DEF SqInit, SlotRow
  <1>3. Ended = {} /\ Cardinality(Ended) = 0
    BY <1>1, FS_EmptySet DEF Ended
  <1>4. sqReader \in SqWalk
    BY SqConstants DEF SqInit, SqWalk, NoReader
  <1>5. sqPage \in SqView
    BY NoRowsForm DEF SqInit, SqView
  <1> QED BY <1>1, <1>2, <1>3, <1>4, <1>5, NoRowsForm DEF SqInit, SqForms

\* Statements.
LEMMA SqStatementForms ==
  ASSUME SqForms, NEW e \in Executions, Start(e) \/ Probe(e) \/ Claim(e) \/ Add(e) \/ AddBand(e)
  PROVE  SqForms'
  <1> DEFINE x == sqExec[e]
             Rest == UNCHANGED <<sqEnabled, lastSeen, sqReader, sqTaken, sqRows, sqPage>>
  <1>1. x \in SqRow /\ ProbedSlot(x) \in Slots /\ x.slot \in Slots
    BY ExecForms, ProbedSlotForm DEF SqRow
  <1>2. ASSUME NEW q \in SqRow, ExecStep(e, q), q.stage = "claim" => q.offset # PROBE,
               x.stage # "done", Rest, table' \in [Slots -> SlotRow],
               \/ unattributed' = unattributed
               \/ unattributed' = unattributed + 1 /\ q.stage = "done"
        PROVE  SqForms'
    <2>1. /\ sqExec' \in [Executions -> SqRow]
          /\ \A d \in Executions : sqExec'[d].stage = "claim" => sqExec'[d].offset # PROBE
          /\ Cardinality(Ended) \in Nat /\ Cardinality(Ended') \in Nat
          /\ Cardinality(Ended) <= Cardinality(Ended')
          /\ q.stage = "done" => Cardinality(Ended') = Cardinality(Ended) + 1
      BY <1>2, ExecStepForms
    <2>2. unattributed' \in Nat /\ unattributed' <= Cardinality(Ended')
      <3>1. unattributed \in Nat /\ unattributed <= Cardinality(Ended)
        BY DEF SqForms
      <3> QED BY <1>2, <2>1, <3>1
    <2> QED BY <1>2, <2>1, <2>2 DEF SqForms
  <1>3. ASSUME NEW s \in Slots
        PROVE  /\ [table EXCEPT ![s].key = x.key] \in [Slots -> SlotRow]
               /\ [table EXCEPT ![s].statements = @ + 1] \in [Slots -> SlotRow]
               /\ [table EXCEPT ![s].bands = @ + 1] \in [Slots -> SlotRow]
    <2>1. table[s] \in SlotRow /\ x.key \in SqlKeys
      BY <1>1 DEF SqForms, SqRow
    <2>2. /\ [table[s] EXCEPT !.key = x.key] \in SlotRow
          /\ [table[s] EXCEPT !.statements = @ + 1] \in SlotRow
          /\ [table[s] EXCEPT !.bands = @ + 1] \in SlotRow
      BY <2>1 DEF SlotRow
    <2> QED BY <2>2 DEF SqForms
  <1>4. table \in [Slots -> SlotRow]
    BY DEF SqForms
  <1>5. CASE Start(e)
    <2> DEFINE s == IF sqEnabled THEN "probe" ELSE "done"
    <2>1. x.stage = "started" /\ ExecStep(e, [x EXCEPT !.stage = s]) /\ s \in SqStages /\ s # "claim"
      BY <1>5 DEF Start, SqStages
    <2>2. [x EXCEPT !.stage = s] \in SqRow /\ [x EXCEPT !.stage = s].stage = s
      BY <2>1, ExecForms
    <2> HIDE DEF s
    <2>3. Rest /\ UNCHANGED <<table, unattributed>>
      BY <1>5 DEF Start
    <2> QED BY <1>2, <1>4, <2>1, <2>2, <2>3
  <1>6. CASE Probe(e)
    <2>1. x.stage = "probe" /\ Rest /\ table' = table
      BY <1>6 DEF Probe
    <2>2. CASE x.offset = PROBE
      <3>1. ExecStep(e, [x EXCEPT !.stage = "done"]) /\ unattributed' = unattributed + 1
        BY <1>6, <2>2 DEF Probe
      <3>2. [x EXCEPT !.stage = "done"] \in SqRow /\ [x EXCEPT !.stage = "done"].stage = "done"
        BY ExecForms DEF SqStages
      <3> QED BY <1>2, <1>4, <2>1, <3>1, <3>2
    <2>3. CASE x.offset # PROBE
      <3> DEFINE q == Probed(x, table[ProbedSlot(x)].key)
      <3>1. ExecStep(e, q) /\ unattributed' = unattributed
        BY <1>6, <2>3 DEF Probe
      <3>2. q \in SqRow /\ (q.stage = "claim" => q.offset # PROBE)
        <4>1. x.offset + 1 \in 0..PROBE
          BY <2>3, ExecForms
        <4> QED BY <1>1, <2>1, <2>3, <4>1 DEF Probed, SqRow, SqStages
      <3> HIDE DEF q
      <3> QED BY <1>2, <1>4, <2>1, <3>1, <3>2
    <2> QED BY <2>2, <2>3
  <1>7. CASE Claim(e)
    <2>1. x.stage = "claim" /\ Rest /\ unattributed' = unattributed /\ x.offset # PROBE
      BY <1>7 DEF Claim, SqForms
    <2>2. CASE table[ProbedSlot(x)].key = 0
      <3> DEFINE q == [x EXCEPT !.stage = "add", !.slot = ProbedSlot(x)]
      <3>1. ExecStep(e, q) /\ table' = [table EXCEPT ![ProbedSlot(x)].key = x.key]
        BY <1>7, <2>2 DEF Claim
      <3>2. q \in SqRow /\ q.stage = "add"
        BY <1>1 DEF SqRow, SqStages
      <3>3. table' \in [Slots -> SlotRow]
        BY <1>1, <1>3, <3>1
      <3> HIDE DEF q
      <3> QED BY <1>2, <2>1, <3>1, <3>2, <3>3
    <2>3. CASE table[ProbedSlot(x)].key # 0
      <3> DEFINE q == [x EXCEPT !.stage = "probe", !.offset = @ + 1]
      <3>1. ExecStep(e, q) /\ table' = table
        BY <1>7, <2>3 DEF Claim
      <3>2. x.offset + 1 \in 0..PROBE
        BY <2>1, ExecForms
      <3>3. q \in SqRow /\ q.stage = "probe"
        BY <1>1, <3>2 DEF SqRow, SqStages
      <3> HIDE DEF q
      <3> QED BY <1>2, <1>4, <2>1, <3>1, <3>3
    <2> QED BY <2>2, <2>3
  <1>8. CASE Add(e)
    <2>1. /\ x.stage = "add" /\ Rest /\ unattributed' = unattributed
          /\ ExecStep(e, [x EXCEPT !.stage = "band"])
          /\ table' = [table EXCEPT ![x.slot].statements = @ + 1]
      BY <1>8 DEF Add
    <2>2. [x EXCEPT !.stage = "band"] \in SqRow /\ [x EXCEPT !.stage = "band"].stage = "band"
      BY ExecForms DEF SqStages
    <2>3. table' \in [Slots -> SlotRow]
      BY <1>1, <1>3, <2>1
    <2> QED BY <1>2, <2>1, <2>2, <2>3
  <1>9. CASE AddBand(e)
    <2>1. /\ x.stage = "band" /\ Rest /\ unattributed' = unattributed
          /\ ExecStep(e, [x EXCEPT !.stage = "done"])
          /\ table' = [table EXCEPT ![x.slot].bands = @ + 1]
      BY <1>9 DEF AddBand
    <2>2. [x EXCEPT !.stage = "done"] \in SqRow /\ [x EXCEPT !.stage = "done"].stage = "done"
      BY ExecForms DEF SqStages
    <2>3. table' \in [Slots -> SlotRow]
      BY <1>1, <1>3, <2>1
    <2> QED BY <1>2, <2>1, <2>2, <2>3
  <1> QED BY <1>5, <1>6, <1>7, <1>8, <1>9

\* What a walk reads of a slot, and what is new of it.
ReadNow == [statements |-> sqReader.read, bands |-> table[sqReader.slot].bands]
Gained(k) == Since(ReadNow, lastSeen[k])

LEMMA ReadForms ==
  ASSUME SqForms, WalkInv, sqReader.read # -1
  PROVE  /\ sqReader.slot \in Slots /\ table[sqReader.slot].key \in SqlKeys
         /\ ReadNow \in KeyCounter /\ ReadNow.statements = sqReader.read
         /\ ReadNow.bands = table[sqReader.slot].bands
         /\ \A k \in SqlKeys : Gained(k) \in KeyCounter /\ lastSeen[k] \in KeyCounter
  <1>1. sqReader.slot \in Slots /\ table[sqReader.slot].key # 0
    BY DEF WalkInv
  <1>2. table[sqReader.slot].key \in SqlKeys /\ table[sqReader.slot].bands \in Nat
    BY <1>1 DEF SqForms, SlotRow
  <1>3. sqReader.read \in Nat
    BY DEF SqForms, SqWalk
  <1>4. /\ ReadNow \in KeyCounter /\ ReadNow.statements = sqReader.read
        /\ ReadNow.bands = table[sqReader.slot].bands
    BY <1>2, <1>3 DEF ReadNow, KeyCounter
  <1>5. \A k \in SqlKeys : lastSeen[k] \in KeyCounter
    BY DEF SqForms, Counters, KeyCounter
  <1>6. \A k \in SqlKeys : Gained(k) \in KeyCounter
    BY <1>4, <1>5, SinceForm DEF Gained
  <1> QED BY <1>1, <1>2, <1>4, <1>5, <1>6

LEMMA NextSlotForm ==
  ASSUME SqForms, sqReader.slot < SLOTS
  PROVE  /\ NextSlot \in SqWalk /\ NextSlot.read = -1 /\ NextSlot.who = sqReader.who
         /\ NextSlot.slot = sqReader.slot + 1
  BY SqConstants DEF NextSlot, SqForms, SqWalk

\* Readers.
LEMMA SqReaderForms ==
  ASSUME SqForms, WalkInv,
         \/ SetEnabled \/ ReadStatements \/ ReadBands("flush") \/ ReadBands("page")
         \/ FlushStart \/ FlushWalked \/ SqPersist \/ SqPersistFails
         \/ PageRows \/ PageDifferences \/ PageShown
  PROVE  SqForms'
  <1>1. UNCHANGED <<sqExec, table, unattributed>> /\ UNCHANGED Ended /\ sqEnabled' \in BOOLEAN
    BY DEF SetEnabled, ReadStatements, ReadBands, FlushStart, FlushWalked, SqPersist, SqPersistFails,
           PageRows, PageDifferences, PageShown, Ended, SqForms
  <1>2. ASSUME lastSeen' \in Counters, sqTaken' \in Counters, sqRows' \in Counters,
               sqReader' \in SqWalk, sqPage' \in SqView
        PROVE  SqForms'
    BY <1>1, <1>2 DEF SqForms
  <1>3. /\ lastSeen \in Counters /\ sqTaken \in Counters /\ sqRows \in Counters
        /\ sqReader \in SqWalk /\ sqPage \in SqView
    BY DEF SqForms
  <1>4. /\ [who |-> "flush", slot |-> 0, read |-> -1] \in SqWalk
        /\ [who |-> "page", slot |-> 0, read |-> -1] \in SqWalk
        /\ NoReader \in SqWalk
    BY SqConstants DEF SqWalk, NoReader
  <1>5. CASE SetEnabled
    BY <1>2, <1>3, <1>5 DEF SetEnabled
  <1>6. CASE ReadStatements
    <2>1. /\ sqReader.slot < SLOTS /\ UNCHANGED <<lastSeen, sqTaken, sqRows, sqPage>>
          /\ \/ sqReader' = NextSlot
             \/ sqReader' = [sqReader EXCEPT !.read = table[sqReader.slot].statements]
      BY <1>6 DEF ReadStatements
    <2>2. table[sqReader.slot].statements \in Nat
      BY <1>3, <2>1, SqConstants DEF SqForms, SqWalk, SlotRow
    <2>3. sqReader' \in SqWalk
      BY <1>3, <2>1, <2>2, NextSlotForm DEF SqWalk
    <2> QED BY <1>2, <1>3, <2>1, <2>3
  <1>7. ASSUME NEW who, ReadBands(who) PROVE SqForms'
    <2> DEFINE k == table[sqReader.slot].key
    <2>1. /\ sqReader.read # -1 /\ sqReader.slot < SLOTS /\ sqReader' = NextSlot /\ sqRows' = sqRows
          /\ lastSeen' = IF Consumes(who) THEN [lastSeen EXCEPT ![k] = ReadNow] ELSE lastSeen
          /\ \/ sqTaken' = AddedTo(sqTaken, k, Gained(k)) /\ sqPage' = sqPage
             \/ /\ sqPage' = [sqPage EXCEPT !.shown = AddedTo(@, k, Gained(k))]
                /\ sqTaken' = sqTaken
      BY <1>7 DEF ReadBands, Walk, ReadNow, Gained
    <2>2. k \in SqlKeys /\ ReadNow \in KeyCounter /\ Gained(k) \in KeyCounter
      BY <2>1, ReadForms
    <2> HIDE DEF k
    <2>3. sqPage.shown \in Counters
      BY <1>3 DEF SqView
    <2>4. lastSeen' \in Counters /\ sqTaken' \in Counters
      <3>1. [lastSeen EXCEPT ![k] = ReadNow] \in Counters
        BY <1>3, <2>2, CounterForms
      <3>2. AddedTo(sqTaken, k, Gained(k)) \in Counters
        BY <1>3, <2>2, CounterForms
      <3> QED BY <1>3, <2>1, <3>1, <3>2
    <2>5. AddedTo(sqPage.shown, k, Gained(k)) \in Counters
      BY <2>2, <2>3, CounterForms
    <2>6. sqPage' \in SqView
      BY <1>3, <2>1, <2>5 DEF SqView
    <2> QED BY <1>2, <1>3, <2>1, <2>4, <2>6, NextSlotForm
  <1>8. CASE FlushStart \/ FlushWalked \/ PageDifferences
    BY <1>2, <1>3, <1>4, <1>8 DEF FlushStart, FlushWalked, PageDifferences
  <1>9. CASE SqPersist
    <2>1. \A k \in SqlKeys : sqTaken[k] \in KeyCounter
      BY <1>3 DEF Counters, KeyCounter
    <2>2. \A k \in SqlKeys : AddedTo(sqRows, k, sqTaken[k])[k] \in [statements : Nat, bands : Nat]
      BY <1>3, <2>1, CounterForms DEF Counters
    <2>3. sqRows' \in Counters
      BY <1>9, <2>2 DEF SqPersist, Counters
    <2> QED BY <1>2, <1>3, <1>9, <2>3, NoRowsForm DEF SqPersist
  <1>10. CASE SqPersistFails
    BY <1>2, <1>3, <1>10, NoRowsForm DEF SqPersistFails
  <1>11. CASE PageRows
    <2>1. sqPage' \in SqView
      BY <1>3, <1>11 DEF PageRows, SqView
    <2> QED BY <1>2, <1>3, <1>11, <2>1 DEF PageRows
  <1>12. CASE PageShown
    <2>1. sqPage' \in SqView
      BY <1>3, <1>12 DEF PageShown, SqView
    <2> QED BY <1>2, <1>3, <1>4, <1>12, <2>1 DEF PageShown
  <1> QED BY <1>5, <1>6, <1>7, <1>8, <1>9, <1>10, <1>11, <1>12

-----------------------------------------------------------------------------
(* The sums of a key.                                                      *)

SqClaims(k) == UnknownInv(k) /\ KnownInv(k)

\* What a key has, as numbers.
LEMMA KeyForms ==
  ASSUME SqForms, NEW k \in SqlKeys
  PROVE  /\ sqRows[k].statements \in Nat /\ sqTaken[k].statements \in Nat
         /\ lastSeen[k].statements \in Nat /\ sqPage.shown[k].statements \in Nat
         /\ sqRows[k].bands \in Nat /\ sqTaken[k].bands \in Nat /\ lastSeen[k].bands \in Nat
         /\ \A s \in Slots : table[s].statements \in Nat /\ table[s].bands \in Nat
         /\ sqReader.read \in Nat \cup {-1} /\ sqReader.slot \in Nat
  BY SqConstants DEF SqForms, Counters, SqView, SlotRow, SqWalk

\* Slots keep their keys, and their counters only grow.
TableGrows ==
  /\ \A s \in Slots : /\ table[s].key # 0 => table'[s].key = table[s].key
                      /\ table'[s].statements >= table[s].statements
                      /\ table'[s].bands >= table[s].bands

LEMMA GrownSlots ==
  ASSUME TableGrows, NEW k \in SqlKeys
  PROVE  SlotsOf(k) \subseteq SlotsOf(k)'
  BY SqConstants DEF TableGrows, SlotsOf

\* Statements add to slots or claim free ones: what was read and seen stands.
LEMMA GrowStep ==
  ASSUME SqForms, SqForms', TableGrows, NEW k \in SqlKeys, SqClaims(k),
         UNCHANGED <<lastSeen, sqReader, sqTaken, sqRows, sqPage, sqLost>>,
         WalkInv
  PROVE  SqClaims(k)'
  <1>1. SlotsOf(k) \subseteq SlotsOf(k)'
    BY GrownSlots
  <1>2. UnknownInv(k)'
    BY <1>1 DEF SqClaims, UnknownInv
  <1>3. ASSUME NEW s \in Slots, SlotsOf(k)' = {s} PROVE (SumInv(k) /\ SlotInv(k, s))'
    <2>1. /\ table'[s].statements >= table[s].statements /\ table'[s].bands >= table[s].bands
          /\ table'[s].statements \in Nat /\ table'[s].bands \in Nat
          /\ table[s].statements \in Nat /\ table[s].bands \in Nat
      BY DEF TableGrows, SqForms, SlotRow
    <2>2. CASE SlotsOf(k) = {s}
      <3>1. SumInv(k) /\ SlotInv(k, s)
        BY <2>2 DEF SqClaims, KnownInv
      <3>2. SumInv(k)'
        BY <3>1 DEF SumInv
      <3>3. SlotInv(k, s)'
        BY <2>1, <3>1, KeyForms DEF SlotInv
      <3> QED BY <3>2, <3>3
    <2>3. CASE SlotsOf(k) = {}
      <3>1. /\ sqRows[k].statements = 0 /\ sqTaken[k].statements = 0 /\ lastSeen[k].statements = 0
            /\ sqRows[k].bands = 0 /\ sqTaken[k].bands = 0 /\ lastSeen[k].bands = 0
            /\ sqPage.shown[k].statements = 0
        BY <2>3 DEF SqClaims, UnknownInv
      <3>2. SumInv(k)'
        BY <3>1 DEF SumInv
      <3>3. table[s].key = 0
        <4>1. table'[s].key = k /\ table[s].key # k
          BY <1>3, <2>3 DEF SlotsOf
        <4> QED BY <4>1 DEF TableGrows
      <3>4. ~(sqReader.read # -1 /\ sqReader.slot = s)
        BY <3>3 DEF WalkInv
      <3>5. SlotInv(k, s)'
        BY <2>1, <3>1, <3>4 DEF SlotInv
      <3> QED BY <3>2, <3>5
    <2> QED BY <1>1, <1>3, <2>2, <2>3
  <1> QED BY <1>2, <1>3 DEF SqClaims, KnownInv

LEMMA StatementStep ==
  ASSUME SqForms, SqForms', WalkInv, NEW e \in Executions,
         Start(e) \/ Probe(e) \/ Claim(e) \/ Add(e) \/ AddBand(e)
  PROVE  WalkInv' /\ \A k \in SqlKeys : SqClaims(k) => SqClaims(k)'
  <1>1. UNCHANGED <<lastSeen, sqReader, sqTaken, sqRows, sqPage, sqLost>>
    BY DEF Start, Probe, Claim, Add, AddBand
  <1>2. TableGrows
    <2>1. /\ table \in [Slots -> SlotRow] /\ sqExec[e].slot \in Slots
          /\ ProbedSlot(sqExec[e]) \in Slots
      BY ExecForms, ProbedSlotForm DEF SqForms, SqRow
    <2>2. \A s \in Slots : table[s].statements \in Nat /\ table[s].bands \in Nat
      BY <2>1 DEF SlotRow
    <2>3. CASE UNCHANGED table
      BY <2>2, <2>3 DEF TableGrows
    <2>4. ASSUME NEW x \in Slots, NEW key, table[x].key = 0, table' = [table EXCEPT ![x].key = key]
          PROVE  TableGrows
      BY <2>1, <2>2, <2>4 DEF TableGrows, SlotRow
    <2>5. ASSUME NEW x \in Slots, table' = [table EXCEPT ![x].statements = @ + 1] PROVE TableGrows
      BY <2>1, <2>2, <2>5 DEF TableGrows, SlotRow
    <2>6. ASSUME NEW x \in Slots, table' = [table EXCEPT ![x].bands = @ + 1] PROVE TableGrows
      BY <2>1, <2>2, <2>6 DEF TableGrows, SlotRow
    <2>7. CASE Start(e) \/ Probe(e)
      BY <2>3, <2>7 DEF Start, Probe
    <2>8. CASE Claim(e)
      <3>1. \/ /\ table[ProbedSlot(sqExec[e])].key = 0
               /\ table' = [table EXCEPT ![ProbedSlot(sqExec[e])].key = sqExec[e].key]
            \/ table' = table
        BY <2>8 DEF Claim
      <3> QED BY <2>1, <2>3, <2>4, <3>1
    <2>9. CASE Add(e)
      BY <2>1, <2>5, <2>9 DEF Add
    <2>10. CASE AddBand(e)
      BY <2>1, <2>6, <2>10 DEF AddBand
    <2> QED BY <2>7, <2>8, <2>9, <2>10
  <1>3. WalkInv'
    BY <1>1, <1>2 DEF WalkInv, TableGrows
  <1> QED BY <1>1, <1>2, <1>3, GrowStep

\* Steps that leave the table.
LEMMA SameSlots == ASSUME UNCHANGED table PROVE \A k : SlotsOf(k)' = SlotsOf(k)
  BY DEF SlotsOf

\* A page or the flush begins, or comes to the counters of a slot.
LEMMA WalkStep ==
  ASSUME SqForms, SqForms', WalkInv,
         ReadStatements \/ FlushStart \/ FlushWalked \/ PageDifferences \/ SetEnabled
  PROVE  WalkInv' /\ \A k \in SqlKeys : SqClaims(k) => SqClaims(k)'
  <1>1. /\ UNCHANGED <<table, lastSeen, sqTaken, sqRows, sqPage, sqLost>>
        /\ \A k : SlotsOf(k)' = SlotsOf(k)
    BY SameSlots DEF ReadStatements, FlushStart, FlushWalked, PageDifferences, SetEnabled
  <1>2. sqReader \in SqWalk
    BY DEF SqForms
  <1>3. \/ sqReader' = sqReader
        \/ sqReader'.read = -1 /\ (sqReader'.who = "page" => sqPage.stage = "rows")
             /\ (sqReader.who = "page" => sqReader'.who = "page" /\ sqReader'.slot > sqReader.slot)
        \/ /\ sqReader'.who = sqReader.who /\ sqReader'.slot = sqReader.slot
           /\ sqReader.slot \in Slots /\ table[sqReader.slot].key # 0
           /\ sqReader'.read = table[sqReader.slot].statements
    <2>1. CASE ReadStatements
      <3>1. /\ sqReader.slot < SLOTS /\ sqReader.slot \in Slots
            /\ \/ sqReader' = NextSlot
               \/ /\ table[sqReader.slot].key # 0
                  /\ sqReader' = [sqReader EXCEPT !.read = table[sqReader.slot].statements]
        BY <1>2, <2>1, SqConstants DEF ReadStatements, SqWalk
      <3> QED BY <1>2, <3>1, NextSlotForm, SqConstants DEF SqWalk, WalkInv
    <2>2. CASE FlushStart \/ FlushWalked \/ PageDifferences
      BY <2>2 DEF FlushStart, FlushWalked, PageDifferences, NoReader
    <2>3. CASE SetEnabled
      BY <2>3 DEF SetEnabled
    <2> QED BY <2>1, <2>2, <2>3
  <1>4. WalkInv'
    BY <1>1, <1>3 DEF WalkInv
  <1>5. ASSUME NEW k \in SqlKeys, SqClaims(k) PROVE SqClaims(k)'
    <2>1. UnknownInv(k)'
      BY <1>1, <1>5 DEF SqClaims, UnknownInv
    <2>2. ASSUME NEW s \in Slots, SlotsOf(k) = {s} PROVE (SumInv(k) /\ SlotInv(k, s))'
      <3>1. SumInv(k) /\ SlotInv(k, s)
        BY <1>5, <2>2 DEF SqClaims, KnownInv
      <3>2. SumInv(k)'
        BY <1>1, <3>1 DEF SumInv
      <3>3. table[s].statements \in Nat /\ sqReader.slot \in Nat /\ s \in Nat
        BY KeyForms, SqConstants
      <3>4. SlotInv(k, s)'
        <4>1. CASE sqReader' = sqReader
          BY <1>1, <3>1, <4>1 DEF SlotInv
        <4>2. CASE /\ sqReader'.read = -1
                   /\ sqReader.who = "page" => sqReader'.who = "page" /\ sqReader'.slot > sqReader.slot
          <5>1. sqReader'.slot \in Nat
            BY SqConstants DEF SqForms, SqWalk
          <5>2. sqReader.who = "page" /\ sqReader.slot > s => sqReader'.who = "page" /\ sqReader'.slot > s
            BY <3>3, <4>2, <5>1
          <5> QED BY <1>1, <3>1, <4>2, <5>2 DEF SlotInv
        <4>3. CASE /\ sqReader'.who = sqReader.who /\ sqReader'.slot = sqReader.slot
                   /\ sqReader'.read = table[sqReader.slot].statements
          BY <1>1, <3>1, <3>3, <4>3 DEF SlotInv
        <4> QED BY <1>3, <4>1, <4>2, <4>3
      <3> QED BY <3>2, <3>4
    <2> QED BY <1>1, <2>1, <2>2 DEF SqClaims, KnownInv
  <1> QED BY <1>4, <1>5

\* One slot is read: the flush sees what it takes, a page only looks.
LEMMA ReadStep ==
  ASSUME SqForms, WalkInv, NEW who \in {"flush", "page"}, ReadBands(who)
  PROVE  WalkInv' /\ \A k \in SqlKeys : SqClaims(k) => SqClaims(k)'
  <1> DEFINE slot == sqReader.slot
  <1>k. table[slot].key \in SqlKeys
    BY ReadForms DEF ReadBands
  <1> PICK key \in SqlKeys : key = table[slot].key
    BY <1>k
  <1>1. /\ sqReader.who = who /\ sqReader.read # -1 /\ slot < SLOTS /\ sqReader' = NextSlot
        /\ lastSeen' = IF who = "flush" THEN [lastSeen EXCEPT ![key] = ReadNow] ELSE lastSeen
        /\ who = "flush" => sqTaken' = AddedTo(sqTaken, key, Gained(key)) /\ sqPage' = sqPage
        /\ who = "page" => /\ sqPage' = [sqPage EXCEPT !.shown = AddedTo(@, key, Gained(key))]
                           /\ sqTaken' = sqTaken
        /\ UNCHANGED <<table, sqRows, sqLost>>
    BY DEF ReadBands, Walk, ReadNow, Gained, Consumes
  <1>2. /\ slot \in Slots /\ slot \in Nat /\ key \in SqlKeys
        /\ ReadNow \in KeyCounter /\ ReadNow.statements = sqReader.read
        /\ ReadNow.bands = table[slot].bands
        /\ Gained(key) \in KeyCounter /\ lastSeen[key] \in KeyCounter
    BY <1>1, ReadForms, SqConstants
  <1>3. /\ Gained(key).statements = Monus(sqReader.read, lastSeen[key].statements)
        /\ Gained(key).bands <= Monus(table[slot].bands, lastSeen[key].bands)
    BY <1>2, SinceForm DEF Gained
  <1>4. sqReader'.read = -1 /\ sqReader'.who = who /\ sqReader'.slot = slot + 1
    BY <1>1, NextSlotForm
  <1>5. /\ sqPage.shown \in Counters /\ sqPage'.stage = sqPage.stage
        /\ who = "page" => sqPage'.shown = AddedTo(sqPage.shown, key, Gained(key))
    BY <1>1 DEF SqForms, SqView
  <1>6. WalkInv'
    BY <1>1, <1>4, <1>5 DEF WalkInv
  <1>7. \A k : SlotsOf(k)' = SlotsOf(k)
    BY <1>1, SameSlots
  <1>8. slot \in SlotsOf(key)
    BY <1>2 DEF SlotsOf
  <1>9. lastSeen \in Counters /\ sqTaken \in Counters
    BY DEF SqForms
  <1>a. \A rows \in Counters :
           /\ AddedTo(rows, key, Gained(key))[key].statements =
                 rows[key].statements + Gained(key).statements
           /\ AddedTo(rows, key, Gained(key))[key].bands = rows[key].bands + Gained(key).bands
           /\ \A j \in SqlKeys : j # key => AddedTo(rows, key, Gained(key))[j] = rows[j]
    <2> DEFINE gained == Gained(key)
    <2>1. gained \in KeyCounter /\ key \in SqlKeys
      BY <1>2
    <2> HIDE DEF gained
    <2>2. \A rows \in Counters :
             /\ AddedTo(rows, key, gained)[key].statements = rows[key].statements + gained.statements
             /\ AddedTo(rows, key, gained)[key].bands = rows[key].bands + gained.bands
             /\ \A j \in SqlKeys : j # key => AddedTo(rows, key, gained)[j] = rows[j]
      BY <2>1 DEF AddedTo, Counters, KeyCounter
    <2> QED BY <2>2 DEF gained
  <1>10. ASSUME NEW k \in SqlKeys, SqClaims(k), k # key PROVE SqClaims(k)'
    <2>1. lastSeen'[k] = lastSeen[k] /\ sqTaken'[k] = sqTaken[k]
      <3>1. sqTaken'[k] = sqTaken[k]
        BY <1>1, <1>9, <1>10, <1>a
      <3>2. [lastSeen EXCEPT ![key] = ReadNow][k] = lastSeen[k]
        BY <1>9, <1>10 DEF Counters
      <3> QED BY <1>1, <3>1, <3>2
    <2>2. sqPage'.shown[k] = sqPage.shown[k]
      BY <1>1, <1>5, <1>10, <1>a
    <2>3. UnknownInv(k)'
      BY <1>1, <1>7, <1>10, <2>1, <2>2 DEF SqClaims, UnknownInv
    <2>4. ASSUME NEW s \in Slots, SlotsOf(k) = {s} PROVE (SumInv(k) /\ SlotInv(k, s))'
      <3>1. SumInv(k) /\ SlotInv(k, s)
        BY <1>10, <2>4 DEF SqClaims, KnownInv
      <3>2. SumInv(k)'
        BY <1>1, <2>1, <3>1 DEF SumInv
      <3>3. sqReader.slot > s => sqReader'.slot > s
        BY <1>2, <1>4, SqConstants
      <3>4. SlotInv(k, s)'
        BY <1>1, <1>4, <1>5, <2>1, <2>2, <3>1, <3>3 DEF SlotInv
      <3> QED BY <3>2, <3>4
    <2> QED BY <1>7, <2>3, <2>4 DEF SqClaims, KnownInv
  <1>11. ASSUME SqClaims(key) PROVE SqClaims(key)'
    <2>1. UnknownInv(key)'
      BY <1>7, <1>8 DEF UnknownInv
    <2>2. ASSUME NEW s \in Slots, SlotsOf(key) = {s} PROVE (SumInv(key) /\ SlotInv(key, s))'
      <3>1. s = slot /\ SumInv(key) /\ SlotInv(key, s)
        BY <1>2, <1>8, <1>11, <2>2 DEF SqClaims, KnownInv
      <3>2. /\ sqRows[key].statements \in Nat /\ sqTaken[key].statements \in Nat
            /\ lastSeen[key].statements \in Nat /\ sqPage.shown[key].statements \in Nat
            /\ sqRows[key].bands \in Nat /\ sqTaken[key].bands \in Nat /\ lastSeen[key].bands \in Nat
            /\ table[s].statements \in Nat /\ table[s].bands \in Nat /\ sqReader.read \in Nat
        BY <1>1, <1>2, KeyForms
      <3>3. /\ lastSeen[key].statements <= sqReader.read /\ sqReader.read <= table[s].statements
            /\ Gained(key).statements = sqReader.read - lastSeen[key].statements
        BY <1>1, <1>3, <3>1, <3>2 DEF SlotInv, Monus
      <3>4. /\ lastSeen[key].bands <= table[s].bands
            /\ Gained(key).bands <= table[s].bands - lastSeen[key].bands
            /\ Gained(key).bands \in Nat
        BY <1>2, <1>3, <3>1, <3>2 DEF SlotInv, Monus, KeyCounter
      <3>5. CASE who = "flush"
        <4>1. /\ lastSeen'[key].statements = sqReader.read /\ lastSeen'[key].bands = table[s].bands
              /\ sqTaken'[key].statements = sqTaken[key].statements + Gained(key).statements
              /\ sqTaken'[key].bands = sqTaken[key].bands + Gained(key).bands
              /\ sqPage' = sqPage
          <5>1. lastSeen'[key] = ReadNow
            BY <1>1, <1>2, <1>9, <3>5, CounterForms
          <5>2. sqTaken' = AddedTo(sqTaken, key, Gained(key)) /\ sqPage' = sqPage
            BY <1>1, <3>5
          <5>3. /\ AddedTo(sqTaken, key, Gained(key))[key].statements =
                      sqTaken[key].statements + Gained(key).statements
                /\ AddedTo(sqTaken, key, Gained(key))[key].bands =
                      sqTaken[key].bands + Gained(key).bands
            BY <1>9, <1>a
          <5> QED BY <1>2, <3>1, <5>1, <5>2, <5>3
        <4>2. SumInv(key)'
          <5>1. sqRows' = sqRows /\ sqLost' = sqLost
            BY <1>1
          <5>2. /\ sqRows[key].statements + sqTaken'[key].statements <= lastSeen'[key].statements
                /\ key \notin sqLost =>
                     sqRows[key].statements + sqTaken'[key].statements = lastSeen'[key].statements
            <6>1. /\ sqRows[key].statements + sqTaken[key].statements <= lastSeen[key].statements
                  /\ key \notin sqLost =>
                       sqRows[key].statements + sqTaken[key].statements = lastSeen[key].statements
              BY <3>1 DEF SumInv
            <6> QED BY <3>2, <3>3, <4>1, <6>1
          <5>3. sqRows[key].bands + sqTaken'[key].bands <= lastSeen'[key].bands
            <6>1. sqRows[key].bands + sqTaken[key].bands <= lastSeen[key].bands
              BY <3>1 DEF SumInv
            <6> QED BY <3>2, <3>4, <4>1, <6>1
          <5> QED BY <5>1, <5>2, <5>3 DEF SumInv
        <4>3. SlotInv(key, s)'
          <5>1. table' = table /\ sqReader'.read = -1
            BY <1>1, <1>4
          <5>2. /\ lastSeen'[key].statements <= table[s].statements
                /\ lastSeen'[key].bands <= table[s].bands
            BY <3>2, <3>3, <4>1
          <5>3. sqPage.shown[key].statements <= table[s].statements
            BY <3>1 DEF SlotInv
          <5>4. sqPage.stage = "rows" => sqPage.shown[key].statements <= lastSeen'[key].statements
            <6>1. ~(sqReader.who = "page")
              BY <1>1, <3>5
            <6>2. sqPage.stage = "rows" =>
                    sqPage.shown[key].statements <= lastSeen[key].statements
              BY <3>1, <6>1 DEF SlotInv
            <6> QED BY <3>2, <3>3, <4>1, <6>2
          <5> QED BY <4>1, <5>1, <5>2, <5>3, <5>4 DEF SlotInv
        <4> QED BY <4>2, <4>3
      <3>6. CASE who = "page"
        <4>1. lastSeen' = lastSeen /\ sqTaken' = sqTaken
          BY <1>1, <3>6
        <4>2. sqPage'.shown[key].statements = sqPage.shown[key].statements + Gained(key).statements
          BY <1>5, <1>a, <3>6
        <4>3. sqPage.shown[key].statements <= lastSeen[key].statements
          <5>1. sqPage.stage = "rows" /\ ~(sqReader.slot > s)
            BY <1>1, <1>2, <3>1, <3>6 DEF WalkInv
          <5> QED BY <3>1, <5>1 DEF SlotInv
        <4>4. sqReader'.slot > s
          BY <1>2, <1>4, <3>1
        <4>5. SumInv(key)'
          BY <1>1, <3>1, <4>1 DEF SumInv
        <4>6. SlotInv(key, s)'
          <5>1. table' = table /\ sqReader'.read = -1 /\ sqReader'.who = "page"
            BY <1>1, <1>4, <3>6
          <5>2. /\ lastSeen[key].statements <= table[s].statements
                /\ lastSeen[key].bands <= table[s].bands
            BY <3>1 DEF SlotInv
          <5>3. sqPage'.shown[key].statements <= table[s].statements
            BY <3>2, <3>3, <4>2, <4>3
          <5> QED BY <4>1, <4>4, <5>1, <5>2, <5>3 DEF SlotInv
        <4> QED BY <4>5, <4>6
      <3> QED BY <3>5, <3>6
    <2> QED BY <1>7, <2>1, <2>2 DEF SqClaims, KnownInv
  <1> QED BY <1>6, <1>10, <1>11

\* What was taken is written, or lost with its keys.
LEMMA WriteStep ==
  ASSUME SqForms, WalkInv, SqPersist \/ SqPersistFails
  PROVE  WalkInv' /\ \A k \in SqlKeys : SqClaims(k) => SqClaims(k)'
  <1>1. /\ UNCHANGED <<table, lastSeen, sqReader, sqPage>> /\ sqTaken' = NoRows
        /\ \A k : SlotsOf(k)' = SlotsOf(k)
    BY SameSlots DEF SqPersist, SqPersistFails
  <1>2. WalkInv'
    BY <1>1 DEF WalkInv
  <1>3. ASSUME NEW k \in SqlKeys, SqClaims(k) PROVE SqClaims(k)'
    <2>1. sqTaken'[k].statements = 0 /\ sqTaken'[k].bands = 0
      BY <1>1, NoRowsForm
    <2>2. sqTaken[k] \in KeyCounter
      BY DEF SqForms, Counters, KeyCounter
    <2>3. \/ /\ sqRows'[k].statements = sqRows[k].statements + sqTaken[k].statements
             /\ sqRows'[k].bands = sqRows[k].bands + sqTaken[k].bands
             /\ sqLost' = sqLost
          \/ /\ sqRows' = sqRows
             /\ k \notin sqLost' => k \notin sqLost /\ sqTaken[k] = Zero
      <3>1. CASE SqPersist
        <4>1. sqRows'[k] = AddedTo(sqRows, k, sqTaken[k])[k] /\ sqLost' = sqLost
          BY <3>1 DEF SqPersist
        <4>2. sqRows \in Counters
          BY DEF SqForms
        <4>3. /\ sqRows'[k].statements = sqRows[k].statements + sqTaken[k].statements
              /\ sqRows'[k].bands = sqRows[k].bands + sqTaken[k].bands
          BY <2>2, <4>1, <4>2 DEF AddedTo, Counters, KeyCounter
        <4> QED BY <4>1, <4>3
      <3>2. CASE SqPersistFails
        BY <3>2 DEF SqPersistFails
      <3> QED BY <3>1, <3>2
    <2>4. UnknownInv(k)'
      BY <1>1, <1>3, <2>1, <2>3, KeyForms DEF SqClaims, UnknownInv
    <2>5. ASSUME NEW s \in Slots, SlotsOf(k) = {s} PROVE (SumInv(k) /\ SlotInv(k, s))'
      <3>1. SumInv(k) /\ SlotInv(k, s)
        BY <1>3, <2>5 DEF SqClaims, KnownInv
      <3>2. SlotInv(k, s)'
        BY <1>1, <3>1 DEF SlotInv
      <3>3. SumInv(k)'
        BY <1>1, <2>1, <2>3, <3>1, KeyForms DEF SumInv, Zero
      <3> QED BY <3>2, <3>3
    <2> QED BY <1>1, <2>4, <2>5 DEF SqClaims, KnownInv
  <1> QED BY <1>2, <1>3

\* A page takes the rows, or is shown.
LEMMA PageStep ==
  ASSUME SqForms, WalkInv, PageRows \/ PageShown
  PROVE  WalkInv' /\ \A k \in SqlKeys : SqClaims(k) => SqClaims(k)'
  <1>1. /\ UNCHANGED <<table, lastSeen, sqTaken, sqRows, sqLost>>
        /\ \A k : SlotsOf(k)' = SlotsOf(k)
    BY SameSlots DEF PageRows, PageShown
  <1>2. CASE PageRows
    <2>1. /\ sqPage.stage # "rows" /\ sqReader' = sqReader
          /\ sqPage'.stage = "rows" /\ sqPage'.shown = sqRows
      BY <1>2 DEF PageRows
    <2>2. WalkInv'
      BY <1>1, <2>1 DEF WalkInv
    <2>3. ASSUME NEW k \in SqlKeys, SqClaims(k) PROVE SqClaims(k)'
      <3>1. UnknownInv(k)'
        BY <1>1, <2>1, <2>3 DEF SqClaims, UnknownInv
      <3>2. ASSUME NEW s \in Slots, SlotsOf(k) = {s} PROVE (SumInv(k) /\ SlotInv(k, s))'
        <4>1. SumInv(k) /\ SlotInv(k, s)
          BY <2>3, <3>2 DEF SqClaims, KnownInv
        <4>2. SumInv(k)'
          BY <1>1, <4>1 DEF SumInv
        <4>3. sqRows[k].statements <= lastSeen[k].statements
          BY <4>1, KeyForms DEF SumInv
        <4>4. SlotInv(k, s)'
          BY <1>1, <2>1, <4>1, <4>3, KeyForms DEF SlotInv
        <4> QED BY <4>2, <4>4
      <3> QED BY <1>1, <3>1, <3>2 DEF SqClaims, KnownInv
    <2> QED BY <2>2, <2>3
  <1>3. CASE PageShown
    <2>1. /\ sqReader' = NoReader /\ sqPage'.stage = "shown" /\ sqPage'.shown = sqPage.shown
          /\ sqReader'.who = "nobody" /\ sqReader'.read = -1
      BY <1>3 DEF PageShown, NoReader, SqForms, SqView
    <2>2. WalkInv'
      BY <2>1 DEF WalkInv
    <2>3. ASSUME NEW k \in SqlKeys, SqClaims(k) PROVE SqClaims(k)'
      <3>1. UnknownInv(k)'
        BY <1>1, <2>1, <2>3 DEF SqClaims, UnknownInv
      <3>2. ASSUME NEW s \in Slots, SlotsOf(k) = {s} PROVE (SumInv(k) /\ SlotInv(k, s))'
        BY <1>1, <2>1, <2>3, <3>2 DEF SqClaims, KnownInv, SumInv, SlotInv
      <3> QED BY <1>1, <3>1, <3>2 DEF SqClaims, KnownInv
    <2> QED BY <2>2, <2>3
  <1> QED BY <1>2, <1>3

LEMMA SumsInit == SqInit => SumsInv
  <1> SUFFICES ASSUME SqInit PROVE SumsInv
    OBVIOUS
  <1>1. SqForms
    BY SqInitForms
  <1>2. WalkInv
    BY DEF SqInit, NoReader, WalkInv
  <1>3. ASSUME NEW k \in SqlKeys PROVE UnknownInv(k) /\ KnownInv(k)
    <2>1. SlotsOf(k) = {}
      BY SqConstants DEF SqInit, SlotsOf
    <2>2. UnknownInv(k)
      BY NoRowsForm DEF SqInit, UnknownInv
    <2> QED BY <2>1, <2>2 DEF KnownInv
  <1> QED BY <1>1, <1>2, <1>3 DEF SumsInv

LEMMA SumsStep == SumsInv /\ [SqNext]_sqVars => SumsInv'
  <1> SUFFICES ASSUME SumsInv, [SqNext]_sqVars PROVE SumsInv'
    OBVIOUS
  <1>1. SqForms /\ WalkInv /\ \A k \in SqlKeys : SqClaims(k)
    BY DEF SumsInv, SqClaims
  <1>2. SqForms'
    <2>1. CASE UNCHANGED sqVars
      BY <1>1, <2>1 DEF sqVars, SqForms, Ended
    <2>2. CASE SqNext
      BY <1>1, <2>2, SqStatementForms, SqReaderForms DEF SqNext
    <2> QED BY <2>1, <2>2
  <1>3. WalkInv' /\ \A k \in SqlKeys : SqClaims(k) => SqClaims(k)'
    <2>1. CASE UNCHANGED sqVars
      BY <1>1, <2>1
      DEF sqVars, WalkInv, SqClaims, UnknownInv, KnownInv, SumInv, SlotInv, SlotsOf
    <2>2. CASE SqNext
      BY <1>1, <1>2, <2>2, StatementStep, WalkStep, ReadStep, WriteStep, PageStep DEF SqNext
    <2> QED BY <2>1, <2>2
  <1> QED BY <1>1, <1>2, <1>3 DEF SumsInv, SqClaims

\* The sums of a key with one slot.
LEMMA SumsAddUp == SumsInv => SqlAddsUp
  <1> SUFFICES ASSUME SumsInv, NEW k \in SqlKeys \ sqLost, NEW s \in Slots, SlotsOf(k) = {s}
               PROVE  /\ sqRows[k].statements + sqTaken[k].statements = lastSeen[k].statements
                      /\ lastSeen[k].statements <= table[s].statements
                      /\ sqRows[k].bands + sqTaken[k].bands <= table[s].bands
                      /\ sqPage.shown[k].statements <= table[s].statements
    BY DEF SqlAddsUp
  <1>1. SumInv(k) /\ SlotInv(k, s) /\ SqForms
    BY DEF SumsInv, KnownInv
  <1> QED BY <1>1, KeyForms DEF SumInv, SlotInv

LEMMA SqTypes == SqForms => SqTypeOK
  <1> SUFFICES ASSUME SqForms PROVE SqTypeOK
    OBVIOUS
  <1>1. Cardinality(Ended) \in Nat /\ Cardinality(Ended) <= Cardinality(Executions)
    BY SqConstants, FS_Subset, FS_CardinalityType DEF Ended
  <1>2. unattributed \in 0..Cardinality(Executions)
    BY <1>1, SqConstants, FS_CardinalityType DEF SqForms
  <1> QED BY <1>2 DEF SqForms, SqTypeOK, SqRow, SqStages, SlotRow, SqWalk, SqView

\* While a key has one slot and no transaction of it failed, what was written of
\* it and what the pass holds add up to what the pass saw of its slot, however
\* executions, passes and pages interleave; a page never shows more statements
\* than were executed (slot_for, record, differences, persist_at and load).
THEOREM StatementsAddUp == SqSpec => []SqlAddsUp
  BY SumsInit, SumsStep, SumsAddUp, PTL DEF SqSpec

-----------------------------------------------------------------------------
(* The six beside each other.                                              *)

\* Each part keeps its invariant: one of them takes the steps, the others rest.
DevicesInv ==
  /\ PairingInv /\ UpTypeOK /\ UpgradeInv /\ ShTypeInv /\ ExeTypeOK
  /\ RecordInv /\ SumsInv

LEMMA DevicesStart == DevicesInit => DevicesInv
  BY PairInitInv, UpTypeInit, UpInitInv, ShTypeInit, ExeInitType, RecordInit, SumsInit
  DEF DevicesInit, DevicesInv

\* A step of the six is a step of each or leaves it alone.
LEMMA DevicesSteps ==
  [DevicesNext]_devicesVars
    => /\ [PairNext]_pairVars /\ [UpNext]_upVars /\ [ShNext]_shVars
       /\ [ExeNext]_exeVars /\ [RpNext]_rpVars /\ [SqNext]_sqVars
  BY Zenon
  DEF DevicesNext, PairOnly, UpOnly, ShOnly, ExeOnly, RpOnly, SqOnly,
      devicesVars, recorderVars

LEMMA DevicesStep == DevicesInv /\ [DevicesNext]_devicesVars => DevicesInv'
  <1> SUFFICES ASSUME DevicesInv, [DevicesNext]_devicesVars PROVE DevicesInv'
    OBVIOUS
  <1>1. /\ PairingInv' /\ UpgradeInv' /\ ShTypeInv' /\ RecordInv' /\ SumsInv'
    BY DevicesSteps, PairStep, UpgradeStep, ShTypeStep, RecordStep, SumsStep DEF DevicesInv
  <1>2. UpTypeOK'
    BY DevicesSteps, UpTypeStep DEF DevicesInv
  <1>3. ExeTypeOK'
    BY DevicesSteps, ExeStep DEF DevicesInv
  <1> QED BY <1>1, <1>2, <1>3 DEF DevicesInv

\* Every variable of these components keeps its type, whichever of them takes
\* the steps.
THEOREM DevicesTypes == DevicesSpec => []DevicesTypeOK
  <1>1. DevicesInv => DevicesTypeOK
    BY ShTypes, RpTypes, SqTypes DEF DevicesInv, DevicesTypeOK, PairingInv, RecordInv, SumsInv
  <1> QED BY <1>1, DevicesStart, DevicesStep, PTL DEF DevicesSpec

\* RecordedOnce and SqlAddsUp beside the components whose routes and statements
\* are measured.
THEOREM MeasuredIsOnce == DevicesSpec => []MeasuredOnce
  <1>1. DevicesInv => MeasuredOnce
    BY OnePlace, SumsAddUp DEF DevicesInv, MeasuredOnce
  <1> QED BY <1>1, DevicesStart, DevicesStep, PTL DEF DevicesSpec

=============================================================================
