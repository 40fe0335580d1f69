------------------------- MODULE BudgetLedgerProofs -------------------------
(***************************************************************************)
(* Proofs about BudgetLedger, for any number of sessions, launchers,       *)
(* cleaners and approvals.                                                 *)
(***************************************************************************)
EXTENDS BudgetLedger, Sums, TLAPS

(* What closing an attempt changes in a budget dictionary, field by field. *)
LEMMA CostPendingFields ==
  ASSUME NEW b \in Ledger, NEW s \in Session, NEW at \in Nat
  PROVE  /\ CostPending(b, s, at) \in Ledger
         /\ CostPending(b, s, at).status = [b.status EXCEPT ![s] = Pending]
         /\ CostPending(b, s, at).verifiedAt = [b.verifiedAt EXCEPT ![s] = at]
         /\ CostPending(b, s, at).cost = b.cost
         /\ CostPending(b, s, at).approved = b.approved
<1>1. CostPending(b, s, at) = [approved |-> b.approved, cost |-> b.cost,
         status |-> [b.status EXCEPT ![s] = Pending],
         verifiedAt |-> [b.verifiedAt EXCEPT ![s] = at]]
  <2> DEFINE c == [b EXCEPT !.status[s] = Pending]
  <2>1. c = [approved |-> b.approved, cost |-> b.cost, verifiedAt |-> b.verifiedAt,
             status |-> [b.status EXCEPT ![s] = Pending]]
    BY DEF Ledger
  <2>2. CostPending(b, s, at) = [c EXCEPT !.verifiedAt[s] = at]
    BY DEF CostPending
  <2> HIDE DEF c
  <2> QED
    BY <2>1, <2>2
<1>2. [b.status EXCEPT ![s] = Pending] \in [Session -> Status]
  BY DEF Ledger, Status
<1>3. [b.verifiedAt EXCEPT ![s] = at] \in [Session -> Nat]
  BY DEF Ledger
<1> QED
  BY <1>1, <1>2, <1>3 DEF Ledger

(* What charging an attempt changes in a budget dictionary. *)
LEMMA ChargedFields ==
  ASSUME NEW b \in Ledger, NEW s \in Session, NEW x \in Nat
  PROVE  /\ Charged(b, s, x) \in Ledger
         /\ Charged(b, s, x).status = [b.status EXCEPT ![s] = "completed"]
         /\ Charged(b, s, x).cost = [b.cost EXCEPT ![s] = x]
         /\ Charged(b, s, x).verifiedAt = b.verifiedAt
         /\ Charged(b, s, x).approved = b.approved
<1>1. Charged(b, s, x) = [approved |-> b.approved, verifiedAt |-> b.verifiedAt,
         status |-> [b.status EXCEPT ![s] = "completed"],
         cost |-> [b.cost EXCEPT ![s] = x]]
  <2> DEFINE c == [b EXCEPT !.status[s] = "completed"]
  <2>1. c = [approved |-> b.approved, cost |-> b.cost, verifiedAt |-> b.verifiedAt,
             status |-> [b.status EXCEPT ![s] = "completed"]]
    BY DEF Ledger
  <2>2. Charged(b, s, x) = [c EXCEPT !.cost[s] = x]
    BY DEF Charged
  <2> HIDE DEF c
  <2> QED
    BY <2>1, <2>2
<1>2. [b.status EXCEPT ![s] = "completed"] \in [Session -> Status]
  BY DEF Ledger, Status
<1>3. [b.cost EXCEPT ![s] = x] \in [Session -> Nat]
  BY DEF Ledger
<1> QED
  BY <1>1, <1>2, <1>3 DEF Ledger

(* The ranks of the four statuses. *)
LEMMA RankValues ==
  Rank("absent") = 0 /\ Rank("active") = 1 /\ Rank(Pending) = 2 /\ Rank("completed") = 3
  BY DEF Rank, Pending

(* Two processes are never inside the critical section of budget.lock. *)
LEMMA OneHolder ==
  ASSUME Inv, NEW p \in Process, NEW q \in Process,
         pc[p] \in InBudgetLock, pc[q] \in InBudgetLock
  PROVE  p = q
  BY DEF Inv, BudgetLockInv

(* Nobody is inside it while the lock is free. *)
LEMMA NoHolder ==
  ASSUME Inv, budgetLock = Free, NEW p \in Process
  PROVE  pc[p] \notin InBudgetLock
  BY StoreAssumption DEF Inv, BudgetLockInv, Process

(* The initial states satisfy the invariant. *)
LEMMA InitInv == Init => Inv
<1> SUFFICES ASSUME Init PROVE Inv
  OBVIOUS
<1>1. StoreTypeOK
  <2>1. sessionFile \in [Session -> Request \cup {NoFile}]
    BY DEF Init
  <2>2. attemptFile \in [Session -> Status]
    BY DEF Init, Status
  <2> QED
    BY <2>1, <2>2 DEF Init, StoreTypeOK
<1>2. MarkerTypeOK
  <2>1. verified \in [Session -> Nat \cup {NoFile}]
    BY DEF Init
  <2>2. costFile \in [Session -> Nat \cup {NoFile}]
    BY StoreAssumption DEF Init
  <2> QED
    BY <2>1, <2>2 DEF Init, MarkerTypeOK
<1>3. LockTypeOK /\ PcTypeOK
  BY DEF Init, LockTypeOK, PcTypeOK, LauncherPC, CleanerPC, Process
<1>4. LocalTypeOK
  BY DEF Init, LocalTypeOK
<1>5. BudgetLockInv /\ CleanupLockInv /\ RunDirInv /\ LauncherInv /\ CleanerInv
  BY StoreAssumption DEF Init, BudgetLockInv, CleanupLockInv, RunDirInv, LauncherInv,
     CleanerInv, InBudgetLock, LedgerStatus, Process, Pending, CleanerPC
<1>6. NoOverlap /\ ChargedAfterCleanup /\ AttemptFileLeads /\ SingleUseOnce
  BY DEF Init, NoOverlap, OpenAttempts, ChargedAfterCleanup, AttemptFileLeads,
     SingleUseOnce, LedgerStatus, Rank
<1> QED
  BY <1>1, <1>2, <1>3, <1>4, <1>5, <1>6 DEF Inv, TypeOK

(* A launcher that has passed the checks before the lock owns nothing yet. *)
LEMMA RequestAdmissionInv ==
  ASSUME Inv, NEW l \in Launcher, NEW a \in Approval, RequestAdmission(l, a)
  PROVE  Inv'
<1> USE DEF RequestAdmission, files, locks
<1>1. StoreTypeOK' /\ MarkerTypeOK' /\ LockTypeOK'
  BY DEF Inv, TypeOK, StoreTypeOK, MarkerTypeOK, LockTypeOK
<1>2. PcTypeOK'
  BY StoreAssumption DEF Inv, TypeOK, PcTypeOK, LauncherPC, CleanerPC, Process
<1>3. LocalTypeOK'
  <2>1. [approval |-> a, started |-> now] \in Request
    BY DEF Inv, TypeOK, MarkerTypeOK, Request
  <2> QED
    BY <2>1 DEF Inv, TypeOK, LocalTypeOK, Process
<1>4. BudgetLockInv' /\ CleanupLockInv' /\ RunDirInv'
  BY StoreAssumption DEF Inv, TypeOK, PcTypeOK, BudgetLockInv, CleanupLockInv, RunDirInv,
     InBudgetLock, LedgerStatus, Process
<1>5. LauncherInv' /\ CleanerInv'
  <2>1. request'[l] # NoFile
    BY NoFileAssumption DEF Inv, TypeOK, LocalTypeOK, MarkerTypeOK, Request, Process
  <2>2. \A p \in Process : p # l => pc'[p] = pc[p] /\ request'[p] = request[p]
    BY DEF Inv, TypeOK, PcTypeOK, LocalTypeOK
  <2>3. pc'[l] = "waiting"
    BY DEF Inv, TypeOK, PcTypeOK, Process
  <2>4. LauncherInv'
    BY <2>1, <2>2, <2>3 DEF Inv, LauncherInv, InBudgetLock, Process, Settled, NotReused, CostUpper
  <2>5. CleanerInv'
    BY <2>2, StoreAssumption DEF Inv, CleanerInv, Process
  <2> QED
    BY <2>4, <2>5
<1>6. NoOverlap' /\ ChargedAfterCleanup' /\ AttemptFileLeads' /\ SingleUseOnce'
  BY DEF Inv, NoOverlap, OpenAttempts, ChargedAfterCleanup, AttemptFileLeads,
     SingleUseOnce, LedgerStatus, CostUpper
<1> QED
  BY <1>1, <1>2, <1>3, <1>4, <1>5, <1>6 DEF Inv, TypeOK

(* Loading keeps every attempt; the first ledger has at most the legacy one,
   settled, and the launcher's copy is what is on disk. *)
LEMMA LoadBudgetInv ==
  ASSUME Inv, NEW l \in Launcher, LoadBudget(l)
  PROVE  Inv'
<1> USE DEF LoadBudget, files
<1>1. /\ ledger' \in Ledger
      /\ ledger' # NoFile
      /\ mem'[l] = ledger'
  <2>1. request[l] \in Request
    BY DEF Inv, TypeOK, LauncherInv, LauncherPC, PcTypeOK, LocalTypeOK, Process
  <2>2. LoadedBudget(request[l].approval) \in Ledger
    BY <2>1, ApprovalAssumption DEF Inv, TypeOK, StoreTypeOK, LoadedBudget, FirstLedger, Ledger,
       Status, Request
  <2> QED
    BY <2>1, <2>2, NoFileAssumption DEF Inv, TypeOK, LocalTypeOK, Process
<1>2. StoreTypeOK' /\ MarkerTypeOK' 
  BY <1>1 DEF Inv, TypeOK, StoreTypeOK, MarkerTypeOK
<1>3. LockTypeOK' /\ PcTypeOK'
  BY StoreAssumption DEF Inv, TypeOK, PcTypeOK, LockTypeOK, LauncherPC, CleanerPC, Process
<1>4. LocalTypeOK'
  BY <1>1 DEF Inv, TypeOK, LocalTypeOK, Process
(* What loading may change of the ledger. *)
<1>5. /\ ledger = NoFile => ledger' = FirstLedger(request[l].approval)
      /\ ledger # NoFile => /\ ledger'.status = ledger.status
                            /\ ledger'.cost = ledger.cost
                            /\ ledger'.verifiedAt = ledger.verifiedAt
  BY DEF LoadedBudget, Inv, TypeOK, StoreTypeOK, Ledger
<1>6. \A s \in Session :
        \/ LedgerStatus(s)' = LedgerStatus(s)
        \/ ledger = NoFile /\ s = Legacy /\ LedgerStatus(s)' = "completed" /\ verified[s] # NoFile
  BY <1>1, <1>5 DEF LedgerStatus, FirstLedger, CanLoad, CanInitialize
<1>7. BudgetLockInv' /\ CleanupLockInv'
  BY StoreAssumption DEF Inv, TypeOK, PcTypeOK, BudgetLockInv, CleanupLockInv,
     InBudgetLock, Process, LauncherPC, CleanerPC
<1>8. RunDirInv'
  <2>1. sessionFile'[Legacy] = NoFile
    BY DEF Inv, RunDirInv
  <2>2. LedgerStatus(Legacy)' \in {"absent", "completed"}
    BY <1>6, StoreAssumption DEF Inv, RunDirInv
  <2>3. ASSUME NEW s \in Session, s # Legacy, LedgerStatus(s)' # "absent"
        PROVE  /\ ledger # NoFile /\ LedgerStatus(s)' = LedgerStatus(s)
               /\ ledger'.verifiedAt = ledger.verifiedAt
    BY <2>3, <1>5, <1>6 DEF LedgerStatus
  <2>4. ASSUME NEW s \in Session, LedgerStatus(s)' \in {Pending, "completed"}
        PROVE  verified'[s] # NoFile
    BY <2>4, <1>6 DEF Inv, RunDirInv
  <2>5. UNCHANGED <<sessionFile, verified>>
    OBVIOUS
  <2> QED
    BY <2>1, <2>2, <2>3, <2>4, <2>5 DEF Inv, RunDirInv, Pending
<1>9. \A p \in Process : p # l => pc'[p] \notin InBudgetLock
  BY NoHolder DEF Inv, TypeOK, PcTypeOK
<1>10. LauncherInv'
  BY <1>1, <1>9, StoreAssumption, NoFileAssumption DEF Inv, TypeOK, PcTypeOK, LauncherInv,
     InBudgetLock, Process
<1>11. CleanerInv'
  BY <1>9, StoreAssumption DEF CleanerInv, InBudgetLock, Process
<1>12. NoOverlap' /\ AttemptFileLeads'
  BY <1>1, <1>5, <1>6 DEF Inv, NoOverlap, OpenAttempts, AttemptFileLeads, LedgerStatus, Open,
     Pending
<1>13. ChargedAfterCleanup' /\ SingleUseOnce'
  BY <1>1, <1>5, <1>6 DEF Inv, ChargedAfterCleanup,  SingleUseOnce, LedgerStatus, CostUpper
<1> QED
  BY <1>2, <1>3, <1>4, <1>7, <1>8, <1>10, <1>11, <1>12, <1>13 DEF Inv, TypeOK

(* A cost reconciled in memory is the only difference to the disk, and
   attempt.json is already there. *)
LEMMA ReconcileCostInv ==
  ASSUME Inv, NEW l \in Launcher, NEW s \in Session, ReconcileCost(l, s)
  PROVE  Inv'
<1> USE DEF ReconcileCost, locks
<1>1. /\ mem[l] \in Ledger /\ ledger \in Ledger /\ ledger # NoFile
      /\ mem[l].verifiedAt = ledger.verifiedAt
      /\ costFile[s] \in Nat
  BY NoFileAssumption DEF Inv, TypeOK, StoreTypeOK, MarkerTypeOK, LocalTypeOK, LauncherInv,
     InBudgetLock, Process, ValidCost
<1>2. s # Legacy /\ ledger.status[s] = Pending
  BY <1>1 DEF Inv, LauncherInv, RunDirInv, LedgerStatus, Pending
<1>3. costFile[s] <= CostUpper(ledger, s)
  BY <1>1 DEF ValidCost, CostUpper
<1>4. /\ mem'[l] = Charged(mem[l], s, costFile[s])
      /\ \A p \in Process : p # l => mem'[p] = mem[p]
  BY DEF Inv, TypeOK, LocalTypeOK, Process
<1>5. /\ mem'[l] \in Ledger
      /\ mem'[l].status = [mem[l].status EXCEPT ![s] = "completed"]
      /\ mem'[l].cost = [mem[l].cost EXCEPT ![s] = costFile[s]]
      /\ mem'[l].verifiedAt = mem[l].verifiedAt
  BY <1>1, <1>4, ChargedFields
<1>6. /\ attemptFile'[s] = "completed"
      /\ \A t \in Session : t # s => attemptFile'[t] = attemptFile[t]
      /\ attemptFile' \in [Session -> Status]
  BY DEF Inv, TypeOK, StoreTypeOK, Status
<1>7. StoreTypeOK' /\ MarkerTypeOK' /\ LockTypeOK' /\ PcTypeOK'
  BY <1>6 DEF Inv, TypeOK, StoreTypeOK, MarkerTypeOK, LockTypeOK, PcTypeOK
<1>8. LocalTypeOK'
  BY <1>5, <1>4 DEF Inv, TypeOK, LocalTypeOK, Process
<1>9. BudgetLockInv' /\ CleanupLockInv' /\ RunDirInv'
  BY DEF Inv, BudgetLockInv, CleanupLockInv, RunDirInv, LedgerStatus
<1>10. \A p \in Process : p # l => pc[p] \notin InBudgetLock
  BY OneHolder DEF Process, InBudgetLock
<1>11. LauncherInv'
  <2>1. ASSUME NEW t \in Session
        PROVE  \/ /\ mem'[l].status[t] = ledger.status[t]
                  /\ mem'[l].cost[t] = ledger.cost[t]
               \/ /\ ledger.status[t] = Pending
                  /\ mem'[l].status[t] = "completed"
                  /\ mem'[l].cost[t] <= CostUpper(ledger, t)
                  /\ attemptFile'[t] = "completed"
    <3>1. CASE t = s
      BY <3>1, <1>1, <1>2, <1>3, <1>5, <1>6 DEF Ledger
    <3>2. CASE t # s
      BY <3>2, <1>1, <1>5, <1>6 DEF Inv, LauncherInv, Ledger
    <3> QED
      BY <3>1, <3>2
  <2>2. CostUpper(ledger, s)' = CostUpper(ledger, s)
    BY DEF CostUpper
  <2>3. ASSUME NEW m \in Launcher, m # l
        PROVE  pc[m] \notin InBudgetLock /\ mem'[m] = mem[m]
    BY <2>3, <1>10, <1>4 DEF Process
  <2>4. mem'[l] # NoFile
    BY <1>5, NoFileAssumption
  <2> QED
    BY <2>1, <2>3, <2>4, <1>1, <1>5 DEF Inv, LauncherInv, InBudgetLock, CostUpper
<1>12. CleanerInv'
  BY <1>4, <1>10, StoreAssumption DEF Inv, CleanerInv, InBudgetLock, Process
<1>13. NoOverlap' /\ SingleUseOnce' /\ ChargedAfterCleanup'
  BY DEF Inv, NoOverlap, OpenAttempts, SingleUseOnce, ChargedAfterCleanup, CostUpper
<1>14. AttemptFileLeads'
  <2>1. \A t \in Session : LedgerStatus(t)' = LedgerStatus(t)
    BY DEF LedgerStatus
  <2>2. LedgerStatus(s) = Pending
    BY <1>1, <1>2 DEF LedgerStatus
  <2> QED
    BY <2>1, <2>2, <1>6, RankValues DEF Inv, AttemptFileLeads
<1> QED
  BY <1>7, <1>8, <1>9, <1>11, <1>12, <1>13, <1>14 DEF Inv, TypeOK

(* The ledger that is written has every attempt settled, each charge within
   its bound. *)
LEMMA ChargeSpendInv ==
  ASSUME Inv, NEW l \in Launcher, ChargeSpend(l)
  PROVE  Inv'
<1> USE DEF ChargeSpend, files, locks
<1>1. /\ ledger' \in Ledger /\ ledger' # NoFile /\ ledger # NoFile
      /\ ledger'.verifiedAt = ledger.verifiedAt
  BY NoFileAssumption DEF Inv, TypeOK, LocalTypeOK, LauncherInv, InBudgetLock, Process
(* The ledger only moves to completed, and then with a bounded cost. *)
<1>2. ASSUME NEW s \in Session
      PROVE  \/ /\ ledger'.status[s] = ledger.status[s]
                /\ ledger'.cost[s] = ledger.cost[s]
             \/ /\ ledger.status[s] = Pending
                /\ ledger'.status[s] = "completed"
                /\ ledger'.cost[s] <= CostUpper(ledger, s)
                /\ attemptFile[s] = "completed"
  BY DEF Inv, LauncherInv
<1>3. \A s \in Session : ledger'.status[s] \in {"absent", "completed"}
  BY DEF Settled
<1>4. StoreTypeOK' /\ MarkerTypeOK' /\ LockTypeOK' /\ LocalTypeOK'
  BY <1>1 DEF Inv, TypeOK, StoreTypeOK, MarkerTypeOK, LockTypeOK, LocalTypeOK
<1>5. PcTypeOK'
  BY StoreAssumption DEF Inv, TypeOK, PcTypeOK, LauncherPC, CleanerPC, Process
<1>6. BudgetLockInv' /\ CleanupLockInv'
  BY StoreAssumption DEF Inv, TypeOK, PcTypeOK, BudgetLockInv, CleanupLockInv,
     InBudgetLock, Process, LauncherPC, CleanerPC
<1>7. RunDirInv'
  <2>1. \A s \in Session :
          \/ LedgerStatus(s)' = LedgerStatus(s)
          \/ LedgerStatus(s) = Pending /\ LedgerStatus(s)' = "completed"
    BY <1>1, <1>2 DEF LedgerStatus
  <2> QED
    BY <2>1, <1>1, StoreAssumption DEF Inv, RunDirInv, Pending
<1>8. /\ pc'[l] = "charged"
      /\ \A p \in Process : p # l => pc'[p] = pc[p] /\ pc'[p] \notin InBudgetLock
  BY OneHolder DEF Inv, TypeOK, PcTypeOK, Process, InBudgetLock
<1>9. LauncherInv'
  <2>1. mem'[l] = ledger' /\ Settled(ledger)' /\ NotReused(ledger, request[l].approval)'
    BY DEF Settled, NotReused
  <2> QED
    BY <2>1, <1>1, <1>8 DEF Inv, LauncherInv, InBudgetLock, Process, LauncherPC
<1>10. CleanerInv'
  BY <1>8, StoreAssumption DEF CleanerInv, InBudgetLock, Process
<1>11. NoOverlap'
  BY <1>3 DEF NoOverlap, OpenAttempts, Open, Pending
<1>12. ChargedAfterCleanup'
  BY <1>1, <1>2 DEF Inv, ChargedAfterCleanup, RunDirInv, LedgerStatus, CostUpper, Pending
<1>13. AttemptFileLeads'
  <2>1. \A s \in Session :
          \/ LedgerStatus(s)' = LedgerStatus(s)
          \/ LedgerStatus(s)' = "completed" /\ attemptFile[s] = "completed"
    BY <1>1, <1>2 DEF LedgerStatus
  <2> QED
    BY <2>1, RankValues DEF Inv, AttemptFileLeads
<1>14. SingleUseOnce'
  BY <1>1, <1>2 DEF Inv, SingleUseOnce, Pending
<1> QED
  BY <1>4, <1>5, <1>6, <1>7, <1>9, <1>10, <1>11, <1>12, <1>13, <1>14 DEF Inv, TypeOK

(* A new run directory disturbs no attempt of the ledger. *)
LEMMA ReserveSessionInv ==
  ASSUME Inv, NEW l \in Launcher, NEW s \in Session, ReserveSession(l, s)
  PROVE  Inv'
<1> USE DEF ReserveSession, locks
<1>1. /\ request[l] \in Request /\ ledger # NoFile /\ mem[l] = ledger
      /\ Settled(ledger) /\ NotReused(ledger, request[l].approval)
  BY NoFileAssumption DEF Inv, TypeOK, LocalTypeOK, LauncherInv, LauncherPC, InBudgetLock, Process
<1>2. ledger.status[s] = "absent"
  BY <1>1 DEF Inv, RunDirInv, LedgerStatus, TypeOK, StoreTypeOK, Ledger
<1>3. /\ sessionFile'[s] = request[l] /\ sessionFile'[s] # NoFile
      /\ \A t \in Session : t # s => sessionFile'[t] = sessionFile[t]
      /\ sessionFile' \in [Session -> Request \cup {NoFile}]
  BY <1>1, NoFileAssumption DEF Inv, TypeOK, StoreTypeOK
<1>4. StoreTypeOK' /\ MarkerTypeOK' /\ LockTypeOK'
  BY <1>3 DEF Inv, TypeOK, StoreTypeOK, MarkerTypeOK, LockTypeOK
<1>5. PcTypeOK'
  BY StoreAssumption DEF Inv, TypeOK, PcTypeOK, LauncherPC, CleanerPC, Process
<1>6. LocalTypeOK'
  BY DEF Inv, TypeOK, LocalTypeOK
<1>7. /\ pc'[l] = "reserved" /\ target'[l] = s
      /\ \A p \in Process : p # l => /\ pc'[p] = pc[p] /\ target'[p] = target[p]
                                     /\ pc'[p] \notin InBudgetLock
  BY OneHolder DEF Inv, TypeOK, PcTypeOK, LocalTypeOK, Process, InBudgetLock
<1>8. BudgetLockInv'
  BY <1>7 DEF Inv, BudgetLockInv, InBudgetLock, Process
<1>9. CleanupLockInv'
  BY <1>3, <1>7, StoreAssumption DEF Inv, CleanupLockInv, Process
<1>10. RunDirInv'
  BY <1>3 DEF Inv, RunDirInv, LedgerStatus
<1>11. LauncherInv'
  <2>1. Settled(ledger)' /\ NotReused(ledger, request[l].approval)'
    BY <1>1, <1>2, <1>3 DEF Settled, NotReused
  <2> QED
    BY <2>1, <1>1, <1>2, <1>3, <1>7 DEF Inv, LauncherInv, InBudgetLock, Process, LauncherPC
<1>12. CleanerInv'
  BY <1>7, StoreAssumption DEF CleanerInv, InBudgetLock, Process
<1>13. NoOverlap' /\ AttemptFileLeads'
  BY DEF Inv, NoOverlap, OpenAttempts, AttemptFileLeads, LedgerStatus
<1>14. ChargedAfterCleanup'
  BY <1>2, <1>3 DEF Inv, ChargedAfterCleanup, CostUpper
<1>15. SingleUseOnce'
  BY <1>2, <1>3 DEF Inv, SingleUseOnce
<1> QED
  BY <1>4, <1>5, <1>6, <1>8, <1>9, <1>10, <1>11, <1>12, <1>13, <1>14, <1>15 DEF Inv, TypeOK

(* attempt.json goes one step ahead of the ledger. *)
LEMMA RecordAttemptInv ==
  ASSUME Inv, NEW l \in Launcher, RecordAttempt(l)
  PROVE  Inv'
<1> USE DEF RecordAttempt, locks
<1> DEFINE s == target[l]
<1>1. /\ s \in Session \ {Legacy} /\ ledger # NoFile /\ mem[l] = ledger
      /\ ledger.status[s] = "absent" /\ sessionFile[s] = request[l]
      /\ Settled(ledger) /\ NotReused(ledger, request[l].approval)
  BY DEF Inv, LauncherInv, InBudgetLock
<1>2. /\ attemptFile'[s] = "active"
      /\ \A t \in Session : t # s => attemptFile'[t] = attemptFile[t]
      /\ attemptFile' \in [Session -> Status]
  BY <1>1 DEF Inv, TypeOK, StoreTypeOK, Status
<1>3. StoreTypeOK' /\ MarkerTypeOK' /\ LockTypeOK' /\ LocalTypeOK'
  BY <1>2 DEF Inv, TypeOK, StoreTypeOK, MarkerTypeOK, LockTypeOK, LocalTypeOK
<1>4. PcTypeOK'
  BY StoreAssumption DEF Inv, TypeOK, PcTypeOK, LauncherPC, CleanerPC, Process
<1>5. /\ pc'[l] = "recorded"
      /\ \A p \in Process : p # l => pc'[p] = pc[p] /\ pc'[p] \notin InBudgetLock
  BY OneHolder DEF Inv, TypeOK, PcTypeOK, Process, InBudgetLock
<1>6. BudgetLockInv'
  BY <1>5 DEF Inv, BudgetLockInv, InBudgetLock, Process
<1>7. CleanupLockInv' /\ RunDirInv'
  BY <1>5, StoreAssumption DEF Inv, CleanupLockInv, RunDirInv, LedgerStatus, Process
<1>8. LauncherInv'
  <2>1. Settled(ledger)' /\ NotReused(ledger, request[l].approval)'
    BY <1>1 DEF Settled, NotReused
  <2> QED
    BY <2>1, <1>1, <1>2, <1>5 DEF Inv, LauncherInv, InBudgetLock, Process, LauncherPC
<1>9. CleanerInv'
  BY <1>5, StoreAssumption DEF CleanerInv, InBudgetLock, Process
<1>10. NoOverlap' /\ ChargedAfterCleanup' /\ SingleUseOnce'
  BY DEF Inv, NoOverlap, OpenAttempts, ChargedAfterCleanup, SingleUseOnce, CostUpper
<1>11. AttemptFileLeads'
  <2>1. \A t \in Session : LedgerStatus(t)' = LedgerStatus(t)
    BY DEF LedgerStatus
  <2>2. LedgerStatus(s) = "absent"
    BY <1>1 DEF LedgerStatus
  <2> QED
    BY <2>1, <2>2, <1>2, RankValues DEF Inv, AttemptFileLeads
<1> QED
  BY <1>3, <1>4, <1>6, <1>7, <1>8, <1>9, <1>10, <1>11 DEF Inv, TypeOK

(* The admitted attempt is the only open one: nothing was open when the
   ledger was written, and nobody else could write it since. *)
LEMMA AdmitAttemptInv ==
  ASSUME Inv, NEW l \in Launcher, AdmitAttempt(l)
  PROVE  Inv'
<1> USE DEF AdmitAttempt, files
<1> DEFINE s == target[l]
<1>1. /\ s \in Session \ {Legacy} /\ ledger \in Ledger /\ ledger # NoFile /\ mem[l] = ledger
      /\ ledger.status[s] = "absent" /\ sessionFile[s] = request[l] /\ request[l] # NoFile
      /\ attemptFile[s] = "active"
      /\ Settled(ledger) /\ NotReused(ledger, request[l].approval)
  BY DEF Inv, TypeOK, StoreTypeOK, LauncherInv, InBudgetLock, LauncherPC
<1>2. /\ ledger' \in Ledger
      /\ ledger'.status[s] = "active"
      /\ \A t \in Session : t # s => ledger'.status[t] = ledger.status[t]
      /\ ledger'.cost = ledger.cost /\ ledger'.verifiedAt = ledger.verifiedAt
  BY <1>1 DEF Ledger, Status
<1>3. ledger' # NoFile
  BY <1>2, NoFileAssumption
<1>4. StoreTypeOK' /\ MarkerTypeOK'
  BY <1>2 DEF Inv, TypeOK, StoreTypeOK, MarkerTypeOK
<1>5. LockTypeOK' /\ LocalTypeOK'
  BY DEF Inv, TypeOK, LockTypeOK, LocalTypeOK
<1>6. PcTypeOK'
  BY StoreAssumption DEF Inv, TypeOK, PcTypeOK, LauncherPC, CleanerPC, Process
<1>7. /\ pc'[l] = "admitted"
      /\ \A p \in Process : p # l => pc'[p] = pc[p] /\ pc'[p] \notin InBudgetLock
  BY OneHolder DEF Inv, TypeOK, PcTypeOK, Process, InBudgetLock
<1>8. BudgetLockInv'
  BY <1>7, StoreAssumption DEF BudgetLockInv, InBudgetLock, Process
<1>9. CleanupLockInv'
  BY <1>7, StoreAssumption DEF Inv, CleanupLockInv, Process
<1>10. RunDirInv'
  BY <1>1, <1>2, <1>3 DEF Inv, RunDirInv, LedgerStatus, Pending
<1>11. LauncherInv'
  BY <1>7, <1>1 DEF Inv, LauncherInv, InBudgetLock, Process, LauncherPC
<1>12. CleanerInv'
  BY <1>7, StoreAssumption DEF CleanerInv, InBudgetLock, Process
<1>13. \A t \in Session : ledger.status[t] \in {"absent", "completed"}
  BY <1>1 DEF Settled
<1>14. NoOverlap'
  BY <1>2, <1>13 DEF NoOverlap, OpenAttempts, Open, Pending
<1>15. ChargedAfterCleanup'
  BY <1>1, <1>2 DEF Inv, ChargedAfterCleanup, CostUpper
<1>16. AttemptFileLeads'
  <2>1. \A t \in Session : t # s => LedgerStatus(t)' = LedgerStatus(t)
    BY <1>1, <1>2, <1>3 DEF LedgerStatus
  <2>2. LedgerStatus(s)' = "active"
    BY <1>2, <1>3 DEF LedgerStatus
  <2> QED
    BY <2>1, <2>2, <1>1, RankValues DEF Inv, AttemptFileLeads
<1>17. SingleUseOnce'
  <2>1. ASSUME NEW t \in Session \ {Legacy}, t # s, ledger'.status[t] # "absent",
               sessionFile[t].approval = sessionFile[s].approval
        PROVE  sessionFile[s].approval \notin SingleUse
    <3>1. sessionFile[t] # NoFile /\ ledger.status[t] # "absent"
      BY <2>1, <1>1, <1>2 DEF Inv, RunDirInv, LedgerStatus
    <3> QED
      BY <2>1, <3>1, <1>1 DEF NotReused
  <2> QED
    BY <2>1, <1>1, <1>2 DEF Inv, SingleUseOnce
<1> QED
  BY <1>4, <1>5, <1>6, <1>8, <1>9, <1>10, <1>11, <1>12, <1>14, <1>15, <1>16, <1>17 DEF Inv, TypeOK

(* A launcher that leaves holds no lock. *)
LEMMA LeaveAttemptInv ==
  ASSUME Inv, NEW l \in Launcher, LeaveAttempt(l)
  PROVE  Inv'
<1> USE DEF LeaveAttempt, Exit, files, locks
<1>1. StoreTypeOK' /\ MarkerTypeOK' /\ LockTypeOK' /\ LocalTypeOK'
  BY DEF Inv, TypeOK, StoreTypeOK, MarkerTypeOK, LockTypeOK, LocalTypeOK
<1>2. PcTypeOK'
  BY StoreAssumption DEF Inv, TypeOK, PcTypeOK, LauncherPC, CleanerPC, Process
<1>3. /\ pc'[l] = "idle"
      /\ \A p \in Process : p # l => /\ pc'[p] = pc[p] /\ request'[p] = request[p]
                                     /\ target'[p] = target[p] /\ mem'[p] = mem[p]
  BY DEF Inv, TypeOK, PcTypeOK, LocalTypeOK, Process
<1>4. BudgetLockInv'
  BY <1>3 DEF Inv, BudgetLockInv, InBudgetLock, Process
<1>5. CleanupLockInv' /\ RunDirInv'
  BY <1>3, StoreAssumption DEF Inv, CleanupLockInv, RunDirInv, LedgerStatus, Process
<1>6. LauncherInv'
  BY <1>3 DEF Inv, LauncherInv, InBudgetLock, Process, LauncherPC, Settled, NotReused, CostUpper
<1>7. CleanerInv'
  BY <1>3, StoreAssumption DEF Inv, CleanerInv, Process
<1>8. NoOverlap' /\ ChargedAfterCleanup' /\ AttemptFileLeads' /\ SingleUseOnce'
  BY DEF Inv, NoOverlap, OpenAttempts, ChargedAfterCleanup, AttemptFileLeads,
     SingleUseOnce, LedgerStatus, CostUpper
<1> QED
  BY <1>1, <1>2, <1>4, <1>5, <1>6, <1>7, <1>8 DEF Inv, TypeOK

(* A cleaner that starts holds no lock yet. *)
LEMMA StartCleanupInv ==
  ASSUME Inv, NEW c \in Cleaner, NEW s \in Session, StartCleanup(c, s)
  PROVE  Inv'
<1> USE DEF StartCleanup, files, locks
<1>1. StoreTypeOK' /\ MarkerTypeOK' /\ LockTypeOK' /\ LocalTypeOK'
  BY DEF Inv, TypeOK, StoreTypeOK, MarkerTypeOK, LockTypeOK, LocalTypeOK
<1>2. PcTypeOK'
  BY StoreAssumption DEF Inv, TypeOK, PcTypeOK, LauncherPC, CleanerPC, Process
<1>3. /\ pc'[c] = "contending" /\ target'[c] = s
      /\ \A p \in Process : p # c => pc'[p] = pc[p] /\ target'[p] = target[p]
  BY DEF Inv, TypeOK, PcTypeOK, LocalTypeOK, Process
<1>4. BudgetLockInv'
  BY <1>3 DEF Inv, BudgetLockInv, InBudgetLock, Process
<1>5. CleanupLockInv'
  BY <1>3, NoFileAssumption DEF Inv, CleanupLockInv, Process
<1>6. RunDirInv'
  BY DEF Inv, RunDirInv, LedgerStatus
<1>7. LauncherInv'
  BY <1>3, StoreAssumption DEF Inv, LauncherInv, InBudgetLock, Process, LauncherPC, Settled,
     NotReused, CostUpper
<1>8. CleanerInv'
  BY <1>3 DEF Inv, CleanerInv, Process
<1>9. NoOverlap' /\ ChargedAfterCleanup' /\ AttemptFileLeads' /\ SingleUseOnce'
  BY DEF Inv, NoOverlap, OpenAttempts, ChargedAfterCleanup, AttemptFileLeads,
     SingleUseOnce, LedgerStatus, CostUpper
<1> QED
  BY <1>1, <1>2, <1>4, <1>5, <1>6, <1>7, <1>8, <1>9 DEF Inv, TypeOK

(* A cleaner with the lock tears down only what has no marker. *)
LEMMA AcquireCleanupInv ==
  ASSUME Inv, NEW c \in Cleaner, AcquireCleanup(c)
  PROVE  Inv'
<1> USE DEF AcquireCleanup, files
<1>1. StoreTypeOK' /\ MarkerTypeOK' /\ LocalTypeOK'
  BY DEF Inv, TypeOK, StoreTypeOK, MarkerTypeOK, LocalTypeOK
<1>2. LockTypeOK'
  BY DEF Inv, TypeOK, LockTypeOK, Process
<1>3. PcTypeOK'
  BY StoreAssumption DEF Inv, TypeOK, PcTypeOK, LauncherPC, CleanerPC, Process
<1>4. /\ target[c] \in Session
      /\ pc'[c] = IF verified[target[c]] # NoFile THEN "verified" ELSE "cleaning"
      /\ cleanupLock'[target[c]] = c
      /\ \A s \in Session : s # target[c] => cleanupLock'[s] = cleanupLock[s]
      /\ \A p \in Process : p # c => pc'[p] = pc[p]
  BY DEF Inv, TypeOK, PcTypeOK, LocalTypeOK, LockTypeOK, CleanupLockInv, Process
<1>5. BudgetLockInv'
  BY <1>4 DEF Inv, BudgetLockInv, InBudgetLock, Process
<1>6. CleanupLockInv'
  <2>1. ASSUME NEW d \in Cleaner, d # c, pc[d] \in CleanerPC \ {"idle", "contending"}
        PROVE  cleanupLock'[target[d]] = d
    <3>1. target[d] \in Session /\ cleanupLock[target[d]] = d /\ d # Free
      BY <2>1, StoreAssumption DEF Inv, TypeOK, LocalTypeOK, CleanupLockInv, CleanerPC, Process
    <3> QED
      BY <3>1, <1>4
  <2> QED
    BY <2>1, <1>4 DEF Inv, CleanupLockInv, Process
<1>7. RunDirInv'
  BY DEF Inv, RunDirInv, LedgerStatus
<1>8. LauncherInv'
  BY <1>4, StoreAssumption DEF Inv, LauncherInv, InBudgetLock, Process, LauncherPC, Settled,
     NotReused, CostUpper
<1>9. CleanerInv'
  BY <1>4 DEF Inv, CleanerInv, Process
<1>10. NoOverlap' /\ ChargedAfterCleanup' /\ AttemptFileLeads' /\ SingleUseOnce'
  BY DEF Inv, NoOverlap, OpenAttempts, ChargedAfterCleanup, AttemptFileLeads,
     SingleUseOnce, LedgerStatus, CostUpper
<1> QED
  BY <1>1, <1>2, <1>3, <1>5, <1>6, <1>7, <1>8, <1>9, <1>10 DEF Inv, TypeOK

(* The marker is written once: no attempt that relies on it sees it change. *)
LEMMA VerifyCleanupInv ==
  ASSUME Inv, NEW c \in Cleaner, VerifyCleanup(c)
  PROVE  Inv'
<1> USE DEF VerifyCleanup, locks
<1> DEFINE s == target[c]
<1>1. /\ s \in Session /\ verified[s] = NoFile /\ cleanupLock[s] = c
      /\ s # Legacy /\ now \in Nat /\ now # NoFile
  BY NoFileAssumption DEF Inv, TypeOK, LocalTypeOK, MarkerTypeOK, CleanupLockInv, RunDirInv,
     CleanerPC, Process
<1>2. /\ verified'[s] = now
      /\ \A t \in Session : t # s => verified'[t] = verified[t]
      /\ verified' \in [Session -> Nat \cup {NoFile}]
  BY <1>1 DEF Inv, TypeOK, MarkerTypeOK
<1>3. LedgerStatus(s) \notin {Pending, "completed"}
  BY <1>1 DEF Inv, RunDirInv
<1>4. StoreTypeOK' /\ MarkerTypeOK' /\ LockTypeOK' /\ LocalTypeOK'
  BY <1>2 DEF Inv, TypeOK, StoreTypeOK, MarkerTypeOK, LockTypeOK, LocalTypeOK
<1>5. PcTypeOK'
  BY StoreAssumption DEF Inv, TypeOK, PcTypeOK, LauncherPC, CleanerPC, Process
<1>6. /\ pc'[c] = "verified"
      /\ \A p \in Process : p # c => pc'[p] = pc[p]
  BY DEF Inv, TypeOK, PcTypeOK, Process
<1>7. BudgetLockInv'
  BY <1>6 DEF Inv, BudgetLockInv, InBudgetLock, Process
<1>8. \A d \in Cleaner : d # c /\ pc[d] \in CleanerPC \ {"idle", "contending"} => target[d] # s
  BY <1>1 DEF Inv, CleanupLockInv
<1>9. CleanupLockInv'
  BY <1>1, <1>2, <1>6, <1>8 DEF Inv, TypeOK, LocalTypeOK, CleanupLockInv, CleanerPC, Process
<1>10. RunDirInv'
  BY <1>1, <1>2, <1>3 DEF Inv, RunDirInv, LedgerStatus
<1>11. LauncherInv'
  <2>1. Settled(ledger) => Settled(ledger)'
    BY <1>1, <1>2 DEF Settled
  <2> QED
    BY <2>1, <1>6, StoreAssumption DEF Inv, LauncherInv, InBudgetLock, Process, LauncherPC,
       NotReused, CostUpper
<1>12. CleanerInv'
  <2>1. \A d \in Cleaner : d # c /\ pc[d] \in {"marking", "marked"} =>
          target[d] \in Session /\ verified'[target[d]] = verified[target[d]]
    BY <1>2, <1>8 DEF Inv, TypeOK, LocalTypeOK, CleanupLockInv, CleanerPC, Process
  <2> QED
    BY <2>1, <1>6 DEF Inv, CleanerInv, Process
<1>13. NoOverlap' /\ AttemptFileLeads' /\ SingleUseOnce'
  BY DEF Inv, NoOverlap, OpenAttempts, AttemptFileLeads, SingleUseOnce, LedgerStatus
<1>14. ChargedAfterCleanup'
  BY <1>2, <1>3, <1>1 DEF Inv, ChargedAfterCleanup, LedgerStatus, CostUpper
<1> QED
  BY <1>4, <1>5, <1>7, <1>9, <1>10, <1>11, <1>12, <1>13, <1>14 DEF Inv, TypeOK

(* The cleaner's copy is the ledger with one attempt cost pending. *)
LEMMA LoadForMarkInv ==
  ASSUME Inv, NEW c \in Cleaner, LoadForMark(c)
  PROVE  Inv'
<1> USE DEF LoadForMark, files
<1> DEFINE s == target[c]
<1>1. /\ s \in Session /\ verified[s] \in Nat /\ ledger \in Ledger /\ ledger # NoFile
      /\ ledger.status[s] \in Open
  BY DEF Inv, TypeOK, LocalTypeOK, StoreTypeOK, MarkerTypeOK, CleanupLockInv, InLedger,
     Ledger, Status, Open, Process
<1>2. StoreTypeOK' /\ MarkerTypeOK'
  BY DEF Inv, TypeOK, StoreTypeOK, MarkerTypeOK
<1>3. LockTypeOK'
  BY DEF Inv, TypeOK, LockTypeOK, Process
<1>4. PcTypeOK'
  BY StoreAssumption DEF Inv, TypeOK, PcTypeOK, LauncherPC, CleanerPC, Process
<1>5. LocalTypeOK'
  BY <1>1, CostPendingFields DEF Inv, TypeOK, LocalTypeOK
<1>6. /\ pc'[c] = "marking" /\ mem'[c] = CostPending(ledger, s, verified[s])
      /\ \A p \in Process : p # c => /\ pc'[p] = pc[p] /\ mem'[p] = mem[p]
                                     /\ pc'[p] \notin InBudgetLock
  BY NoHolder DEF Inv, TypeOK, PcTypeOK, LocalTypeOK, Process
<1>7. BudgetLockInv'
  BY <1>6 DEF BudgetLockInv, InBudgetLock, Process
<1>8. CleanupLockInv'
  BY <1>6 DEF Inv, CleanupLockInv, Process, CleanerPC
<1>9. RunDirInv'
  BY DEF Inv, RunDirInv, LedgerStatus
<1>10. LauncherInv'
  BY <1>6, StoreAssumption DEF Inv, LauncherInv, InBudgetLock, Process
<1>11. CleanerInv'
  <2>1. CostPending(ledger, s, verified[s])' = CostPending(ledger, s, verified[s])
    BY DEF CostPending
  <2> QED
    BY <2>1, <1>1, <1>6 DEF CleanerInv, InBudgetLock, Process
<1>12. NoOverlap' /\ ChargedAfterCleanup' /\ AttemptFileLeads' /\ SingleUseOnce'
  BY DEF Inv, NoOverlap, OpenAttempts, ChargedAfterCleanup, AttemptFileLeads,
     SingleUseOnce, LedgerStatus, CostUpper
<1> QED
  BY <1>2, <1>3, <1>4, <1>5, <1>7, <1>8, <1>9, <1>10, <1>11, <1>12 DEF Inv, TypeOK

(* Finding the attempt completed changes nothing but locks. *)
LEMMA AlreadyCompletedInv ==
  ASSUME Inv, NEW c \in Cleaner, AlreadyCompleted(c)
  PROVE  Inv'
<1> USE DEF AlreadyCompleted, Exit, files
<1>1. StoreTypeOK' /\ MarkerTypeOK' /\ LocalTypeOK'
  BY DEF Inv, TypeOK, StoreTypeOK, MarkerTypeOK, LocalTypeOK
<1>2. LockTypeOK'
  BY DEF Inv, TypeOK, LockTypeOK
<1>3. PcTypeOK'
  BY StoreAssumption DEF Inv, TypeOK, PcTypeOK, LauncherPC, CleanerPC, Process
<1>4. /\ pc'[c] = "idle" /\ cleanupLock[target[c]] = c
      /\ \A s \in Session : s # target[c] => cleanupLock'[s] = cleanupLock[s]
      /\ \A p \in Process : p # c => /\ pc'[p] = pc[p] /\ request'[p] = request[p]
                                     /\ target'[p] = target[p] /\ mem'[p] = mem[p]
  BY DEF Inv, TypeOK, PcTypeOK, LocalTypeOK, LockTypeOK, CleanupLockInv, CleanerPC, Process
<1>5. BudgetLockInv'
  BY <1>4 DEF Inv, BudgetLockInv, InBudgetLock, Process
<1>6. CleanupLockInv'
  <2>1. ASSUME NEW d \in Cleaner, d # c, pc[d] \in CleanerPC \ {"idle", "contending"}
        PROVE  cleanupLock'[target[d]] = d
    <3>1. target[d] \in Session /\ cleanupLock[target[d]] = d
      BY <2>1 DEF Inv, TypeOK, LocalTypeOK, CleanupLockInv, CleanerPC, Process
    <3> QED
      BY <2>1, <3>1, <1>4
  <2> QED
    BY <2>1, <1>4 DEF Inv, CleanupLockInv, Process
<1>7. RunDirInv'
  BY DEF Inv, RunDirInv, LedgerStatus
<1>8. LauncherInv'
  BY <1>4, StoreAssumption DEF Inv, LauncherInv, InBudgetLock, Process, LauncherPC, Settled,
     NotReused, CostUpper
<1>9. CleanerInv'
  BY <1>4 DEF Inv, CleanerInv, Process
<1>10. NoOverlap' /\ ChargedAfterCleanup' /\ AttemptFileLeads' /\ SingleUseOnce'
  BY DEF Inv, NoOverlap, OpenAttempts, ChargedAfterCleanup, AttemptFileLeads,
     SingleUseOnce, LedgerStatus, CostUpper
<1> QED
  BY <1>1, <1>2, <1>3, <1>5, <1>6, <1>7, <1>8, <1>9, <1>10 DEF Inv, TypeOK

(* attempt.json goes to cost pending before the ledger does. *)
LEMMA MarkAttemptFileInv ==
  ASSUME Inv, NEW c \in Cleaner, MarkAttemptFile(c)
  PROVE  Inv'
<1> USE DEF MarkAttemptFile, locks
<1> DEFINE s == target[c]
<1>1. /\ s \in Session /\ ledger # NoFile /\ ledger.status[s] \in Open
  BY DEF Inv, TypeOK, LocalTypeOK, CleanerInv, CleanupLockInv, Process
<1>2. /\ attemptFile'[s] = Pending
      /\ \A t \in Session : t # s => attemptFile'[t] = attemptFile[t]
      /\ attemptFile' \in [Session -> Status]
  BY <1>1 DEF Inv, TypeOK, StoreTypeOK, Status
<1>3. StoreTypeOK' /\ MarkerTypeOK' /\ LockTypeOK' /\ LocalTypeOK'
  BY <1>2 DEF Inv, TypeOK, StoreTypeOK, MarkerTypeOK, LockTypeOK, LocalTypeOK
<1>4. PcTypeOK'
  BY StoreAssumption DEF Inv, TypeOK, PcTypeOK, LauncherPC, CleanerPC, Process
<1>5. /\ pc'[c] = "marked"
      /\ \A p \in Process : p # c => pc'[p] = pc[p] /\ pc'[p] \notin InBudgetLock
  BY OneHolder DEF Inv, TypeOK, PcTypeOK, Process, InBudgetLock
<1>6. BudgetLockInv'
  BY <1>5 DEF Inv, BudgetLockInv, InBudgetLock, Process
<1>7. CleanupLockInv'
  BY <1>5 DEF Inv, CleanupLockInv, Process, CleanerPC
<1>8. RunDirInv'
  BY DEF Inv, RunDirInv, LedgerStatus
<1>9. LauncherInv'
  BY <1>5, StoreAssumption DEF Inv, LauncherInv, InBudgetLock, Process
<1>10. CleanerInv'
  <2>1. CostPending(ledger, s, verified[s])' = CostPending(ledger, s, verified[s])
    BY DEF CostPending
  <2> QED
    BY <2>1, <1>2, <1>1, <1>5 DEF Inv, CleanerInv, InBudgetLock, Process
<1>11. NoOverlap' /\ ChargedAfterCleanup' /\ SingleUseOnce'
  BY DEF Inv, NoOverlap, OpenAttempts, ChargedAfterCleanup, SingleUseOnce, CostUpper
<1>12. AttemptFileLeads'
  <2>1. \A t \in Session : LedgerStatus(t)' = LedgerStatus(t)
    BY DEF LedgerStatus
  <2>2. LedgerStatus(s) \in {"active", Pending}
    BY <1>1 DEF LedgerStatus, Open
  <2> QED
    BY <2>1, <2>2, <1>2, RankValues DEF Inv, AttemptFileLeads
<1> QED
  BY <1>3, <1>4, <1>6, <1>7, <1>8, <1>9, <1>10, <1>11, <1>12 DEF Inv, TypeOK

(* The ledger is written from a copy that no one has overtaken. *)
LEMMA MarkLedgerInv ==
  ASSUME Inv, NEW c \in Cleaner, MarkLedger(c)
  PROVE  Inv'
<1> USE DEF MarkLedger, Exit, files
<1> PICK s \in Session : s = target[c]
  BY DEF Inv, TypeOK, LocalTypeOK, CleanupLockInv, Process
<1>1. /\ s \in Session /\ verified[s] \in Nat /\ verified[s] # NoFile
      /\ ledger \in Ledger /\ ledger # NoFile /\ ledger.status[s] \in Open
      /\ ledger' = CostPending(ledger, s, verified[s]) /\ attemptFile[s] = Pending
      /\ cleanupLock[s] = c
  BY DEF Inv, TypeOK, LocalTypeOK, StoreTypeOK, MarkerTypeOK, CleanupLockInv, CleanerInv,
     CleanerPC, Process
<1>2. /\ ledger' \in Ledger
      /\ ledger'.status = [ledger.status EXCEPT ![s] = Pending]
      /\ ledger'.verifiedAt = [ledger.verifiedAt EXCEPT ![s] = verified[s]]
      /\ ledger'.cost = ledger.cost
  BY <1>1, CostPendingFields
<1>3. /\ ledger'.status[s] = Pending /\ ledger'.verifiedAt[s] = verified[s]
      /\ \A t \in Session : t # s => /\ ledger'.status[t] = ledger.status[t]
                                     /\ ledger'.verifiedAt[t] = ledger.verifiedAt[t]
  BY <1>1, <1>2 DEF Ledger
<1>4. ledger' # NoFile
  BY <1>2, NoFileAssumption
<1>5. s # Legacy
  BY <1>1 DEF Inv, RunDirInv, LedgerStatus, Open, Pending
<1>6. StoreTypeOK' /\ MarkerTypeOK'
  BY <1>2 DEF Inv, TypeOK, StoreTypeOK, MarkerTypeOK
<1>7. LockTypeOK' /\ LocalTypeOK'
  BY DEF Inv, TypeOK, LockTypeOK, LocalTypeOK
<1>8. PcTypeOK'
  BY StoreAssumption DEF Inv, TypeOK, PcTypeOK, LauncherPC, CleanerPC, Process
<1>9. /\ pc'[c] = "idle"
      /\ \A t \in Session : t # s => cleanupLock'[t] = cleanupLock[t]
      /\ \A p \in Process : p # c => /\ pc'[p] = pc[p] /\ request'[p] = request[p]
                                     /\ target'[p] = target[p] /\ mem'[p] = mem[p]
                                     /\ pc'[p] \notin InBudgetLock
  BY OneHolder DEF Inv, TypeOK, PcTypeOK, LocalTypeOK, LockTypeOK, Process, InBudgetLock
<1>10. BudgetLockInv'
  BY <1>9, StoreAssumption DEF BudgetLockInv, InBudgetLock, Process
<1>11. CleanupLockInv'
  <2>1. ASSUME NEW d \in Cleaner, d # c, pc[d] \in CleanerPC \ {"idle", "contending"}
        PROVE  cleanupLock'[target[d]] = d
    <3>1. target[d] \in Session /\ cleanupLock[target[d]] = d
      BY <2>1 DEF Inv, TypeOK, LocalTypeOK, CleanupLockInv, CleanerPC, Process
    <3> QED
      BY <2>1, <3>1, <1>1, <1>9
  <2> QED
    BY <2>1, <1>9 DEF Inv, CleanupLockInv, Process
<1>12. RunDirInv'
  <2>1. \A t \in Session : t # s => LedgerStatus(t)' = LedgerStatus(t)
    BY <1>1, <1>3, <1>4 DEF LedgerStatus
  <2>2. sessionFile[s] # NoFile
    BY <1>1, <1>5 DEF Inv, RunDirInv, LedgerStatus, Open, Pending
  <2> QED
    BY <1>1, <1>3, <1>5, <2>1, <2>2, StoreAssumption DEF Inv, RunDirInv
<1>13. LauncherInv'
  BY <1>9, StoreAssumption DEF Inv, LauncherInv, InBudgetLock, Process
<1>14. CleanerInv'
  BY <1>9 DEF CleanerInv, InBudgetLock, Process
<1>15. NoOverlap'
  BY <1>1, <1>3, <1>4 DEF Inv, NoOverlap, OpenAttempts, Open
<1>16. ChargedAfterCleanup'
  BY <1>1, <1>2, <1>3 DEF Inv, ChargedAfterCleanup, CostUpper, Pending
<1>17. AttemptFileLeads'
  <2>1. \A t \in Session : t # s => LedgerStatus(t)' = LedgerStatus(t)
    BY <1>1, <1>3, <1>4 DEF LedgerStatus
  <2>2. LedgerStatus(s)' = Pending
    BY <1>3, <1>4 DEF LedgerStatus
  <2> QED
    BY <2>1, <2>2, <1>1, RankValues DEF Inv, AttemptFileLeads
<1>18. SingleUseOnce'
  BY <1>1, <1>3 DEF Inv, SingleUseOnce, Open, Pending
<1> QED
  BY <1>6, <1>7, <1>8, <1>10, <1>11, <1>12, <1>13, <1>14, <1>15, <1>16, <1>17, <1>18
  DEF Inv, TypeOK

(* A process may die anywhere: what it leaves on disk is consistent. *)
LEMMA StopInv ==
  ASSUME Inv, NEW p \in Process, Stop(p)
  PROVE  Inv'
<1> USE DEF Stop, Exit, files
<1>1. StoreTypeOK' /\ MarkerTypeOK' /\ LocalTypeOK'
  BY DEF Inv, TypeOK, StoreTypeOK, MarkerTypeOK, LocalTypeOK
<1>2. LockTypeOK'
  BY DEF Inv, TypeOK, LockTypeOK
<1>3. PcTypeOK'
  BY StoreAssumption DEF Inv, TypeOK, PcTypeOK, LauncherPC, CleanerPC, Process
<1>4. /\ pc'[p] = "idle"
      /\ \A s \in Session : cleanupLock[s] # p => cleanupLock'[s] = cleanupLock[s]
      /\ \A q \in Process : q # p => /\ pc'[q] = pc[q] /\ request'[q] = request[q]
                                     /\ target'[q] = target[q] /\ mem'[q] = mem[q]
  BY DEF Inv, TypeOK, PcTypeOK, LocalTypeOK, LockTypeOK
<1>5. BudgetLockInv'
  BY <1>4, StoreAssumption DEF Inv, BudgetLockInv, InBudgetLock, Process
<1>6. CleanupLockInv'
  <2>1. ASSUME NEW d \in Cleaner, d # p, pc[d] \in CleanerPC \ {"idle", "contending"}
        PROVE  cleanupLock'[target[d]] = d
    <3>1. target[d] \in Session /\ cleanupLock[target[d]] = d
      BY <2>1 DEF Inv, TypeOK, LocalTypeOK, CleanupLockInv, CleanerPC, Process
    <3> QED
      BY <2>1, <3>1, <1>4
  <2> QED
    BY <2>1, <1>4 DEF Inv, CleanupLockInv, Process
<1>7. RunDirInv'
  BY DEF Inv, RunDirInv, LedgerStatus
<1>8. LauncherInv'
  BY <1>4 DEF Inv, LauncherInv, InBudgetLock, Process, LauncherPC, Settled, NotReused, CostUpper
<1>9. CleanerInv'
  BY <1>4 DEF Inv, CleanerInv, Process
<1>10. NoOverlap' /\ ChargedAfterCleanup' /\ AttemptFileLeads' /\ SingleUseOnce'
  BY DEF Inv, NoOverlap, OpenAttempts, ChargedAfterCleanup, AttemptFileLeads,
     SingleUseOnce, LedgerStatus, CostUpper
<1> QED
  BY <1>1, <1>2, <1>3, <1>5, <1>6, <1>7, <1>8, <1>9, <1>10 DEF Inv, TypeOK

(* The steps that only touch what the invariant does not relate. *)
LEMMA EnvironmentInv ==
  ASSUME Inv,
         \/ \E s \in Session, x \in Costs : RecordCost(s, x)
         \/ EmergencyStop
         \/ Tick
  PROVE  Inv'
<1>1. /\ UNCHANGED <<ledger, sessionFile, attemptFile, verified, legacyRun, locks, procs>>
      /\ costFile' \in [Session -> Nat \cup {NoFile}]
      /\ manualStop' \in BOOLEAN /\ now' \in Nat
  <2>1. CASE \E s \in Session, x \in Costs : RecordCost(s, x)
    BY <2>1, StoreAssumption DEF Inv, TypeOK, MarkerTypeOK, RecordCost
  <2>2. CASE EmergencyStop
    BY <2>2 DEF Inv, TypeOK, MarkerTypeOK, EmergencyStop, files
  <2>3. CASE Tick
    BY <2>3 DEF Inv, TypeOK, MarkerTypeOK, Tick, files
  <2> QED
    BY <2>1, <2>2, <2>3
<1> USE <1>1 DEF locks, procs
<1>2. StoreTypeOK' /\ LockTypeOK' /\ PcTypeOK' /\ LocalTypeOK'
  BY DEF Inv, TypeOK, StoreTypeOK, LockTypeOK, PcTypeOK, LocalTypeOK
<1>3. MarkerTypeOK'
  BY DEF Inv, TypeOK, MarkerTypeOK
<1>4. BudgetLockInv' /\ CleanupLockInv' /\ RunDirInv'
  BY DEF Inv, BudgetLockInv, CleanupLockInv, RunDirInv, LedgerStatus
<1>5. LauncherInv'
  BY DEF Inv, LauncherInv, Settled, NotReused, CostUpper
<1>6. CleanerInv'
  <2>1. \A c \in Cleaner : CostPending(ledger, target[c], verified[target[c]])'
                             = CostPending(ledger, target[c], verified[target[c]])
    BY DEF CostPending
  <2> QED
    BY <2>1 DEF Inv, CleanerInv
<1>7. NoOverlap' /\ ChargedAfterCleanup' /\ AttemptFileLeads' /\ SingleUseOnce'
  BY DEF Inv, NoOverlap, OpenAttempts, ChargedAfterCleanup, AttemptFileLeads,
     SingleUseOnce, LedgerStatus, CostUpper
<1> QED
  BY <1>2, <1>3, <1>4, <1>5, <1>6, <1>7 DEF Inv, TypeOK

(* A step that changes nothing keeps the invariant. *)
LEMMA StutterInv ==
  ASSUME Inv, UNCHANGED ledgerVars
  PROVE  Inv'
<1> USE DEF ledgerVars, files, locks, procs
<1>1. TypeOK'
  BY DEF Inv, TypeOK, StoreTypeOK, LockTypeOK, PcTypeOK, LocalTypeOK, MarkerTypeOK
<1>2. BudgetLockInv' /\ CleanupLockInv' /\ RunDirInv'
  BY DEF Inv, BudgetLockInv, CleanupLockInv, RunDirInv, LedgerStatus
<1>3. LauncherInv'
  BY DEF Inv, LauncherInv, Settled, NotReused, CostUpper
<1>4. CleanerInv'
  BY DEF Inv, CleanerInv, CostPending
<1>5. NoOverlap' /\ ChargedAfterCleanup' /\ AttemptFileLeads' /\ SingleUseOnce'
  BY DEF Inv, NoOverlap, OpenAttempts, ChargedAfterCleanup, AttemptFileLeads,
     SingleUseOnce, LedgerStatus, CostUpper
<1> QED
  BY <1>1, <1>2, <1>3, <1>4, <1>5 DEF Inv

(* Every step of every process, and of the environment, keeps the invariant. *)
LEMMA StepInv == Inv /\ [Next]_ledgerVars => Inv'
<1> SUFFICES ASSUME Inv, [Next]_ledgerVars PROVE Inv'
  OBVIOUS
<1>1. ASSUME NEW l \in Launcher, LauncherStep(l) PROVE Inv'
  BY <1>1, RequestAdmissionInv, LoadBudgetInv, ReconcileCostInv, ChargeSpendInv,
     ReserveSessionInv, RecordAttemptInv, AdmitAttemptInv, LeaveAttemptInv DEF LauncherStep
<1>2. ASSUME NEW c \in Cleaner, CleanerStep(c) PROVE Inv'
  BY <1>2, StartCleanupInv, AcquireCleanupInv, VerifyCleanupInv, LoadForMarkInv,
     AlreadyCompletedInv, MarkAttemptFileInv, MarkLedgerInv DEF CleanerStep
<1>3. CASE Environment
  BY <1>3, StopInv, EnvironmentInv DEF Environment
<1>4. CASE UNCHANGED ledgerVars
  BY <1>4, StutterInv
<1> QED
  BY <1>1, <1>2, <1>3, <1>4 DEF Next

(* The invariant holds in every reachable state. *)
THEOREM Invariance == Spec => []Inv
<1>1. Init => Inv
  BY InitInv
<1>2. Inv /\ [Next]_ledgerVars => Inv'
  BY StepInv
<1> QED
  BY <1>1, <1>2, PTL DEF Spec

(* The variables of the session store always hold values of their types.   *)
THEOREM TypeCorrect == Spec => []TypeOK
  BY Invariance, PTL DEF Inv

(* At no time does the ledger hold two attempts that are not completed,    *)
(* for any number of launchers, guards and operators and wherever one of   *)
(* them dies between two file writes.                                      *)
THEOREM OverlapProhibited == Spec => []NoOverlap
  BY Invariance, PTL DEF Inv

(* Every charge follows a verified deletion and is bounded by the full     *)
(* rate over the time between start and verification.                      *)
THEOREM ChargesAreBounded == Spec => []ChargedAfterCleanup
  BY Invariance, PTL DEF Inv

(* attempt.json is never behind budget.json and never two steps ahead.     *)
THEOREM AttemptFilesLead == Spec => []AttemptFileLeads
  BY Invariance, PTL DEF Inv

(* A single-attempt approval never backs two attempts of the ledger.       *)
THEOREM ApprovalUsedOnce == Spec => []SingleUseOnce
  BY Invariance, PTL DEF Inv

-----------------------------------------------------------------------------
(* How one step moves the ledger *)

(* The status of one attempt becomes x, every other one stays. *)
MovesTo(s, x) ==
  /\ LedgerStatus(s)' = x
  /\ \A t \in Session \ {s} : LedgerStatus(t)' = LedgerStatus(t)

KeepsHistory ==
  /\ ledger # NoFile => ledger' # NoFile
  /\ \A s \in Session :
       LedgerStatus(s) = "completed" => ledger'.cost[s] = ledger.cost[s]

LedgerMove ==
  \/ \A s \in Session : LedgerStatus(s)' = LedgerStatus(s)
  \/ ledger = NoFile /\ MovesTo(Legacy, "completed")
  \/ /\ \A s \in Session : LedgerStatus(s) \in {"absent", "completed"}
     /\ \E s \in Session : LedgerStatus(s) = "absent" /\ MovesTo(s, "active")
  \/ \E s \in Session : LedgerStatus(s) = "active" /\ MovesTo(s, Pending)
  \/ \E s \in Session : LedgerStatus(s) = Pending /\ MovesTo(s, "completed")

(* Loading is no move of the ledger, or takes the legacy attempt over. *)
LEMMA LoadBudgetMove ==
  ASSUME Inv, NEW l \in Launcher, LoadBudget(l)
  PROVE  LedgerMove /\ KeepsHistory
<1>1. ledger' # NoFile
  BY LoadBudgetInv, NoFileAssumption
  DEF LoadBudget, Inv, TypeOK, LocalTypeOK, LauncherInv, InBudgetLock, LauncherPC,
      PcTypeOK, Process
<1>2. CASE ledger = NoFile
  <2>1. \A s \in Session \ {Legacy} : LedgerStatus(s)' = "absent"
    BY <1>1, <1>2 DEF LoadBudget, LoadedBudget, FirstLedger, LedgerStatus
  <2>2. LedgerStatus(Legacy)' \in {"absent", "completed"}
    BY <1>1, <1>2, StoreAssumption DEF LoadBudget, LoadedBudget, FirstLedger, LedgerStatus
  <2>3. \A s \in Session : LedgerStatus(s) = "absent"
    BY <1>2 DEF LedgerStatus
  <2> QED
    BY <1>2, <2>1, <2>2, <2>3, StoreAssumption DEF LedgerMove, MovesTo, KeepsHistory
<1>3. CASE ledger # NoFile
  <2>1. ledger'.status = ledger.status /\ ledger'.cost = ledger.cost
    BY <1>3 DEF LoadBudget, LoadedBudget, Inv, TypeOK, StoreTypeOK, Ledger
  <2>2. \A s \in Session : LedgerStatus(s)' = LedgerStatus(s)
    BY <1>1, <1>3, <2>1 DEF LedgerStatus
  <2> QED
    BY <1>1, <2>1, <2>2 DEF LedgerMove, KeepsHistory
<1> QED
  BY <1>2, <1>3

(* Charging settles the one attempt that was pending, if any. *)
LEMMA ChargeSpendMove ==
  ASSUME Inv, NEW l \in Launcher, ChargeSpend(l)
  PROVE  LedgerMove /\ KeepsHistory
<1>1. ledger' # NoFile /\ ledger # NoFile
  BY NoFileAssumption DEF ChargeSpend, Inv, LauncherInv, InBudgetLock
<1>2. ASSUME NEW s \in Session
      PROVE  \/ LedgerStatus(s)' = LedgerStatus(s) /\ ledger'.cost[s] = ledger.cost[s]
             \/ LedgerStatus(s) = Pending /\ LedgerStatus(s)' = "completed"
  BY <1>1 DEF Inv, LauncherInv, LedgerStatus, ChargeSpend
<1>3. \A s, t \in Session : LedgerStatus(s) = Pending /\ LedgerStatus(t) = Pending => s = t
  BY <1>1 DEF Inv, NoOverlap, OpenAttempts, Open, LedgerStatus
<1>4. LedgerMove
  <2>1. CASE \E s \in Session : LedgerStatus(s) = Pending /\ LedgerStatus(s)' = "completed"
    BY <2>1, <1>2, <1>3 DEF LedgerMove, MovesTo
  <2>2. CASE \A s \in Session : LedgerStatus(s)' = LedgerStatus(s)
    BY <2>2 DEF LedgerMove
  <2> QED
    BY <2>1, <2>2, <1>2
<1>5. KeepsHistory
  BY <1>1, <1>2 DEF KeepsHistory, Pending
<1> QED
  BY <1>4, <1>5

(* Admission opens one attempt when none is open. *)
LEMMA AdmitAttemptMove ==
  ASSUME Inv, NEW l \in Launcher, AdmitAttempt(l)
  PROVE  LedgerMove /\ KeepsHistory
<1> PICK s \in Session \ {Legacy} : s = target[l]
  BY DEF AdmitAttempt, Inv, LauncherInv
<1>1. /\ ledger \in Ledger /\ ledger # NoFile /\ ledger.status[s] = "absent"
      /\ ledger' = [ledger EXCEPT !.status[s] = "active"] /\ Settled(ledger)
  BY DEF AdmitAttempt, Inv, TypeOK, StoreTypeOK, LauncherInv, InBudgetLock
<1>2. /\ ledger' \in Ledger /\ ledger'.status = [ledger.status EXCEPT ![s] = "active"]
      /\ ledger'.cost = ledger.cost
  BY <1>1 DEF Ledger, Status
<1>3. ledger' # NoFile
  BY <1>2, NoFileAssumption
<1>4. LedgerStatus(s) = "absent" /\ MovesTo(s, "active")
  BY <1>1, <1>2, <1>3 DEF LedgerStatus, MovesTo, Ledger
<1>5. \A t \in Session : LedgerStatus(t) \in {"absent", "completed"}
  BY <1>1 DEF Settled, LedgerStatus
<1> QED
  BY <1>1, <1>2, <1>3, <1>4, <1>5 DEF LedgerMove, KeepsHistory

(* Marking takes one attempt from active to cost pending. *)
LEMMA MarkLedgerMove ==
  ASSUME Inv, NEW c \in Cleaner, MarkLedger(c)
  PROVE  LedgerMove /\ KeepsHistory
<1> PICK s \in Session : s = target[c]
  BY DEF MarkLedger, Inv, TypeOK, LocalTypeOK, CleanupLockInv, Process
<1>1. /\ ledger \in Ledger /\ ledger # NoFile /\ ledger.status[s] \in Open
      /\ ledger' = CostPending(ledger, s, verified[s]) /\ verified[s] \in Nat
  BY DEF MarkLedger, Inv, TypeOK, StoreTypeOK, MarkerTypeOK, CleanerInv, CleanupLockInv
<1>2. /\ ledger' \in Ledger /\ ledger'.status = [ledger.status EXCEPT ![s] = Pending]
      /\ ledger'.cost = ledger.cost
  BY <1>1, CostPendingFields
<1>3. ledger' # NoFile
  BY <1>2, NoFileAssumption
<1>4. LedgerStatus(s) \in Open /\ MovesTo(s, Pending)
  BY <1>1, <1>2, <1>3 DEF LedgerStatus, MovesTo, Ledger
<1>5. LedgerMove
  BY <1>4 DEF LedgerMove, MovesTo, Open
<1> QED
  BY <1>1, <1>2, <1>3, <1>5 DEF KeepsHistory

(* A step moves the ledger by one transition of one attempt, or not at all. *)
LEMMA StepMove ==
  ASSUME Inv, [Next]_ledgerVars
  PROVE  LedgerMove /\ KeepsHistory
<1>1. ASSUME UNCHANGED ledger PROVE LedgerMove /\ KeepsHistory
  BY <1>1 DEF LedgerMove, KeepsHistory, LedgerStatus
<1>2. ASSUME NEW l \in Launcher, LauncherStep(l) PROVE LedgerMove /\ KeepsHistory
  BY <1>1, <1>2, LoadBudgetMove, ChargeSpendMove, AdmitAttemptMove
  DEF LauncherStep, RequestAdmission, ReconcileCost, ReserveSession, RecordAttempt, LeaveAttempt
<1>3. ASSUME NEW c \in Cleaner, CleanerStep(c) PROVE LedgerMove /\ KeepsHistory
  BY <1>1, <1>3, MarkLedgerMove
  DEF CleanerStep, StartCleanup, AcquireCleanup, VerifyCleanup, LoadForMark, AlreadyCompleted,
      MarkAttemptFile
<1>4. CASE Environment
  BY <1>1, <1>4 DEF Environment, Stop, RecordCost, EmergencyStop, Tick
<1>5. CASE UNCHANGED ledgerVars
  BY <1>1, <1>5 DEF ledgerVars
<1> QED
  BY <1>2, <1>3, <1>4, <1>5 DEF Next

(* In a typed ledger every attempt has one of the four statuses. *)
LEMMA StatusIsKnown ==
  ASSUME Inv, NEW s \in Session
  PROVE  LedgerStatus(s) \in Status
  BY DEF Inv, TypeOK, StoreTypeOK, Ledger, LedgerStatus, Status

(* Writing budget.json whole, from a copy in memory, never loses an        *)
(* attempt, reopens one, or changes what a completed one was charged.      *)
THEOREM LedgerNeverForgets == Spec => NeverForgets
<1> DEFINE Keeps ==
      ledger # NoFile =>
        /\ ledger' # NoFile
        /\ \A s \in Session :
             /\ Rank(ledger'.status[s]) >= Rank(ledger.status[s])
             /\ ledger.status[s] = "completed" => ledger'.cost[s] = ledger.cost[s]
<1>1. Inv /\ [Next]_ledgerVars => [Keeps]_ledger
  <2> SUFFICES ASSUME Inv, [Next]_ledgerVars, ledger # NoFile, NEW s \in Session
               PROVE  /\ ledger' # NoFile
                      /\ Rank(LedgerStatus(s)') >= Rank(LedgerStatus(s))
                      /\ LedgerStatus(s) = "completed" => ledger'.cost[s] = ledger.cost[s]
    BY StepMove DEF KeepsHistory, LedgerStatus
  <2>1. LedgerMove /\ KeepsHistory
    BY StepMove
  <2>2. LedgerStatus(s) \in Status
    BY StatusIsKnown
  <2>3. Rank(LedgerStatus(s)') >= Rank(LedgerStatus(s))
    BY <2>1, <2>2, RankValues DEF LedgerMove, MovesTo, Status
  <2> QED
    BY <2>1, <2>3 DEF KeepsHistory
<1> QED
  BY <1>1, Invariance, PTL DEF Spec, NeverForgets

-----------------------------------------------------------------------------
(* The ledger implements RentalLifecycle *)
SettledAttempts == {s \in Session : ledger # NoFile /\ ledger.status[s] = "completed"}
CleanedAttempts == {s \in Session : ledger # NoFile /\ ledger.status[s] = Pending}

(* The sets of RentalLifecycle, in terms of the status of each attempt. *)
LEMMA SetsByStatus ==
  /\ OpenAttempts = {s \in Session : LedgerStatus(s) \in Open}
  /\ CleanedAttempts = {s \in Session : LedgerStatus(s) = Pending}
  /\ SettledAttempts = {s \in Session : LedgerStatus(s) = "completed"}
  BY DEF OpenAttempts, CleanedAttempts, SettledAttempts, LedgerStatus, Open, Pending

(* Every move of the ledger is a step of RentalLifecycle, or a stutter. *)
LEMMA MoveIsLifecycleStep ==
  ASSUME Inv, Inv', LedgerMove
  PROVE  [Lifecycle!Next]_(Lifecycle!vars)
<1> USE DEF Lifecycle!Next, Lifecycle!vars, Lifecycle!Adopt, Lifecycle!Admit,
        Lifecycle!Clean, Lifecycle!Settle
<1>1. /\ OpenAttempts' = {s \in Session : LedgerStatus(s)' \in Open}
      /\ CleanedAttempts' = {s \in Session : LedgerStatus(s)' = Pending}
      /\ SettledAttempts' = {s \in Session : LedgerStatus(s)' = "completed"}
  BY DEF OpenAttempts, CleanedAttempts, SettledAttempts, LedgerStatus, Open, Pending
<1>2. CASE \A s \in Session : LedgerStatus(s)' = LedgerStatus(s)
  <2>1. /\ OpenAttempts' = OpenAttempts
        /\ CleanedAttempts' = CleanedAttempts
        /\ SettledAttempts' = SettledAttempts
    BY <1>2, SetsByStatus, <1>1
  <2> QED
    BY <2>1 DEF CleanedAttempts, SettledAttempts
<1>3. CASE ledger = NoFile /\ MovesTo(Legacy, "completed")
  <2>1. \A s \in Session : LedgerStatus(s) = "absent"
    BY <1>3 DEF LedgerStatus
  <2>2. /\ OpenAttempts = {} /\ SettledAttempts = {} /\ CleanedAttempts = {}
    BY <2>1, SetsByStatus, <1>1 DEF Open, Pending
  <2>3. /\ OpenAttempts' = {} /\ SettledAttempts' = {Legacy} /\ CleanedAttempts' = {}
    BY <2>1, <1>3, SetsByStatus, <1>1, StoreAssumption DEF Open, Pending, MovesTo
  <2> QED
    BY <2>2, <2>3 DEF CleanedAttempts, SettledAttempts
<1>4. ASSUME NEW s \in Session, LedgerStatus(s) = "absent", MovesTo(s, "active"),
             \A t \in Session : LedgerStatus(t) \in {"absent", "completed"}
      PROVE  Lifecycle!Admit(s)
  <2>1. OpenAttempts = {} /\ s \notin SettledAttempts
    BY <1>4, SetsByStatus, <1>1 DEF Open, Pending
  <2>2. OpenAttempts' = {s}
    BY <1>4, SetsByStatus, <1>1 DEF Open, Pending, MovesTo
  <2>3. CleanedAttempts' = CleanedAttempts /\ SettledAttempts' = SettledAttempts
    BY <1>4, SetsByStatus, <1>1 DEF Pending, MovesTo
  <2> QED
    BY <2>1, <2>2, <2>3 DEF CleanedAttempts, SettledAttempts
<1>5. ASSUME NEW s \in Session, LedgerStatus(s) = "active", MovesTo(s, Pending)
      PROVE  Lifecycle!Clean(s)
  <2>1. OpenAttempts = {s}
    BY <1>5, SetsByStatus, <1>1 DEF Inv, NoOverlap, Open
  <2>2. s \in OpenAttempts \ CleanedAttempts
    BY <2>1, <1>5, SetsByStatus, <1>1 DEF Pending
  <2>3. CleanedAttempts' = {s}
    BY <2>1, <1>5, SetsByStatus, <1>1 DEF Open, MovesTo
  <2>4. OpenAttempts' = OpenAttempts /\ SettledAttempts' = SettledAttempts
    BY <1>5, SetsByStatus, <1>1 DEF Open, Pending, MovesTo
  <2> QED
    BY <2>2, <2>3, <2>4 DEF CleanedAttempts, SettledAttempts
<1>6. ASSUME NEW s \in Session, LedgerStatus(s) = Pending, MovesTo(s, "completed")
      PROVE  Lifecycle!Settle(s)
  <2>1. OpenAttempts = {s} /\ s \in CleanedAttempts
    BY <1>6, SetsByStatus, <1>1 DEF Inv, NoOverlap, Open
  <2>2. OpenAttempts' = OpenAttempts \ {s}
    BY <1>6, SetsByStatus, <1>1 DEF Open, Pending, MovesTo
  <2>3. CleanedAttempts' = {}
    BY <2>1, <2>2, SetsByStatus, <1>1 DEF Open
  <2>4. SettledAttempts' = SettledAttempts \cup {s}
    BY <1>6, SetsByStatus, <1>1 DEF Pending, MovesTo
  <2> QED
    BY <2>1, <2>2, <2>3, <2>4 DEF CleanedAttempts, SettledAttempts
<1> QED
  BY <1>2, <1>3, <1>4, <1>5, <1>6 DEF LedgerMove

(* The session store implements the one-rental-at-a-time lifecycle.        *)
THEOREM ImplementsLifecycle == Spec => OneRentalAtATime
<1>1. Init => Lifecycle!Init
  BY DEF Init, Lifecycle!Init, OpenAttempts
<1>2. Inv /\ [Next]_ledgerVars => [Lifecycle!Next]_(Lifecycle!vars)
  BY StepInv, StepMove, MoveIsLifecycleStep
<1> QED
  BY <1>1, <1>2, Invariance, PTL DEF Spec, OneRentalAtATime, Lifecycle!Spec

-----------------------------------------------------------------------------
(* The spending stays within the approved total *)

(* completed_spend is a sum over the completed attempts, in the sense of    *)
(* module Sums.                                                             *)
LEMMA SpendAsSum ==
  ASSUME NEW b
  PROVE  Spend(b) = SumOver(b.cost, Completed(b))
BY DEF Spend, MapThenSumSet, MapThenFoldSet, SumOver, IsSum, Chosen

(* At most one attempt enters the ledger in a step. *)
LEMMA AttemptsInvStep ==
  ASSUME Inv, AttemptsInv, [Next]_ledgerVars
  PROVE  AttemptsInv'
<1> DEFINE A == {s \in Session : LedgerStatus(s) # "absent"}
<1>1. PICK t : A' \subseteq A \cup {t}
  BY StepMove DEF LedgerMove, MovesTo
<1>2. IsFiniteSet(A \cup {t})
  BY FS_AddElement DEF AttemptsInv
<1>3. IsFiniteSet(A')
  BY <1>1, <1>2, FS_Subset
<1> QED
  BY <1>3 DEF AttemptsInv

(* So the recorded costs are a finite sum. *)
LEMMA CompletedIsFinite ==
  ASSUME AttemptsInv, ledger # NoFile
  PROVE  IsFiniteSet(Completed(ledger))
<1>1. Completed(ledger) \subseteq {s \in Session : LedgerStatus(s) # "absent"}
  BY DEF Completed, LedgerStatus
<1> QED
  BY <1>1, FS_Subset DEF AttemptsInv

(* A charge stays as it is: no step touches the cost, the marker or the     *)
(* session file of an attempt that is completed.                            *)
LEMMA ChargesStay ==
  ASSUME Inv, [Next]_ledgerVars, ledger # NoFile, NEW s \in Completed(ledger)
  PROVE  /\ ledger' # NoFile /\ s \in Completed(ledger)' /\ ledger'.cost[s] = ledger.cost[s]
         /\ verified'[s] = verified[s]
         /\ s # Legacy => sessionFile'[s] = sessionFile[s]
<1>1. LedgerMove /\ KeepsHistory
  BY StepMove
<1>2. ledger' # NoFile /\ s \in Completed(ledger)' /\ ledger'.cost[s] = ledger.cost[s]
  BY <1>1 DEF LedgerMove, MovesTo, KeepsHistory, Completed, LedgerStatus, Pending
<1>3. verified[s] # NoFile /\ (s # Legacy => sessionFile[s] # NoFile)
  BY DEF Inv, RunDirInv, LedgerStatus, Completed
<1>4. verified'[s] = verified[s]
  <2>1. ASSUME NEW c \in Cleaner, VerifyCleanup(c) PROVE verified'[s] = verified[s]
    BY <1>3, <2>1 DEF VerifyCleanup, Inv, CleanupLockInv, TypeOK, MarkerTypeOK
  <2> QED
    BY <2>1 DEF Next, LauncherStep, CleanerStep, Environment, ledgerVars, files,
       RequestAdmission, LoadBudget, ReconcileCost, ChargeSpend, ReserveSession, RecordAttempt,
       AdmitAttempt, LeaveAttempt, StartCleanup, AcquireCleanup, LoadForMark, AlreadyCompleted,
       MarkAttemptFile, MarkLedger, Stop, RecordCost, EmergencyStop, Tick
<1>5. s # Legacy => sessionFile'[s] = sessionFile[s]
  <2>1. ASSUME NEW l \in Launcher, NEW t \in Session, ReserveSession(l, t), s # Legacy
        PROVE  sessionFile'[s] = sessionFile[s]
    BY <1>3, <2>1 DEF ReserveSession, Inv, TypeOK, StoreTypeOK
  <2> QED
    BY <2>1 DEF Next, LauncherStep, CleanerStep, Environment, ledgerVars, files,
       RequestAdmission, LoadBudget, ReconcileCost, ChargeSpend, RecordAttempt, VerifyCleanup,
       AdmitAttempt, LeaveAttempt, StartCleanup, AcquireCleanup, LoadForMark, AlreadyCompleted,
       MarkAttemptFile, MarkLedger, Stop, RecordCost, EmergencyStop, Tick
<1> QED
  BY <1>2, <1>4, <1>5

(* So a charge that is outside its reserve stays outside it. *)
LEMMA ReserveStays ==
  ASSUME Inv, [Next]_ledgerVars, ledger # NoFile, EveryChargeWithinReserve'
  PROVE  EveryChargeWithinReserve
  BY ChargesStay DEF EveryChargeWithinReserve, WithinReserve, Completed

(* The spending changes only when an attempt is completed. *)
LEMMA SpendStays ==
  ASSUME Inv, AttemptsInv, [Next]_ledgerVars, ledger # NoFile,
         Completed(ledger)' \subseteq Completed(ledger)
  PROVE  Spend(ledger)' = Spend(ledger)
<1>1. Completed(ledger') = Completed(ledger)
  BY ChargesStay
<1>2. \A s \in Completed(ledger) : ledger'.cost[s] = ledger.cost[s]
  BY ChargesStay
<1>3. SumOver(ledger'.cost, Completed(ledger)) = SumOver(ledger.cost, Completed(ledger))
  BY <1>2, CompletedIsFinite, SameTerms
<1> QED
  BY <1>1, <1>3, SpendAsSum

(* The spending is a number. *)
LEMMA SpendIsNat ==
  ASSUME Inv, AttemptsInv, ledger # NoFile
  PROVE  Spend(ledger) \in Nat
<1>1. \A s \in Completed(ledger) : ledger.cost[s] \in Nat
  BY DEF Inv, TypeOK, StoreTypeOK, Ledger, Completed
<1> QED
  BY <1>1, CompletedIsFinite, SumIsNat, SpendAsSum

(* An open attempt has a run directory: it is not the legacy one. *)
LEMMA OpenHasRunDir ==
  ASSUME Inv, NEW s \in OpenAttempts
  PROVE  s # Legacy /\ sessionFile[s] \in Request
<1>1. s # Legacy
  BY DEF Inv, RunDirInv, OpenAttempts, LedgerStatus, Open, Pending
<1>2. sessionFile[s] # NoFile
  BY <1>1 DEF Inv, RunDirInv, OpenAttempts, LedgerStatus, Open, Pending
<1> QED
  BY <1>1, <1>2 DEF Inv, TypeOK, StoreTypeOK, OpenAttempts

(* A step that completes no attempt, opens none and reserves nothing keeps  *)
(* the reserve of the open one, as long as it does not lower the approved   *)
(* total.                                                                   *)
LEMMA ReserveFrame ==
  ASSUME Inv, AttemptsInv, ReserveInv, [Next]_ledgerVars,
         ledger # NoFile, ledger'.approved >= ledger.approved,
         Completed(ledger)' \subseteq Completed(ledger),
         \A s \in OpenAttempts' : s \in OpenAttempts /\ sessionFile'[s] = sessionFile[s],
         \A l \in Launcher : pc'[l] \in {"reserved", "recorded"} =>
           pc[l] \in {"reserved", "recorded"} /\ request'[l] = request[l]
  PROVE  ReserveInv'
<1> SUFFICES ASSUME EveryChargeWithinReserve', ledger' # NoFile
             PROVE  /\ Spend(ledger)' <= ledger'.approved
                    /\ \A s \in OpenAttempts' : AdmissionCovered(sessionFile[s].approval)'
                    /\ \A l \in Launcher : pc'[l] \in {"reserved", "recorded"} =>
                         AdmissionCovered(request[l].approval)'
  BY DEF ReserveInv
<1>1. EveryChargeWithinReserve
  BY ReserveStays
<1>2. Spend(ledger)' = Spend(ledger) /\ Spend(ledger) \in Nat
  BY SpendStays, SpendIsNat
<1>3. /\ Spend(ledger) <= ledger.approved
      /\ \A s \in OpenAttempts : AdmissionCovered(sessionFile[s].approval)
      /\ \A l \in Launcher : pc[l] \in {"reserved", "recorded"} =>
           AdmissionCovered(request[l].approval)
  BY <1>1 DEF ReserveInv
<1>4. ledger.approved \in Nat
  BY DEF Inv, TypeOK, StoreTypeOK, Ledger
<1>5. TypeOK'
  BY StepInv DEF Inv
<1>6. ledger'.approved \in Nat
  BY <1>5 DEF TypeOK, StoreTypeOK, Ledger
<1>7. ASSUME NEW a \in Approval, AdmissionCovered(a)
      PROVE  AdmissionCovered(a)'
  BY <1>2, <1>4, <1>6, <1>7, ApprovalAssumption DEF AdmissionCovered
<1>8. Spend(ledger)' <= ledger'.approved
  BY <1>2, <1>3, <1>4, <1>6
<1>9. ASSUME NEW s \in OpenAttempts'
      PROVE  AdmissionCovered(sessionFile[s].approval)'
  <2>1. s \in OpenAttempts /\ sessionFile'[s] = sessionFile[s]
    BY <1>9
  <2>2. sessionFile[s].approval \in Approval
    BY <2>1, OpenHasRunDir DEF Request
  <2> QED
    BY <1>3, <1>7, <2>1, <2>2 DEF AdmissionCovered
<1>10. ASSUME NEW l \in Launcher, pc'[l] \in {"reserved", "recorded"}
       PROVE  AdmissionCovered(request[l].approval)'
  <2>1. pc[l] \in {"reserved", "recorded"} /\ request'[l] = request[l]
    BY <1>10
  <2>2. request[l].approval \in Approval
    BY <2>1 DEF Inv, LauncherInv, LauncherPC, TypeOK, LocalTypeOK, Process, Request
  <2> QED
    BY <1>3, <1>7, <2>1, <2>2 DEF AdmissionCovered
<1> QED
  BY <1>8, <1>9, <1>10

(* A step that leaves the ledger alone and lets no launcher into the lock   *)
(* changes nothing the spending depends on.                                 *)
LEMMA QuietStep ==
  ASSUME Inv, SpendingInv, [Next]_ledgerVars, UNCHANGED ledger,
         \A s \in OpenAttempts : sessionFile'[s] = sessionFile[s],
         \A l \in Launcher : pc'[l] \in InBudgetLock =>
           /\ pc[l] \in InBudgetLock /\ request'[l] = request[l]
           /\ mem'[l].approved = mem[l].approved
           /\ pc'[l] \in {"reserved", "recorded"} => pc[l] \in {"reserved", "recorded"}
  PROVE  ApprovedInv' /\ ReserveInv'
<1>1. ApprovedInv'
  BY DEF SpendingInv, ApprovedInv
<1>2. CASE ledger = NoFile
  BY <1>1, <1>2 DEF ReserveInv
<1>3. CASE ledger # NoFile
  <2>1. ledger'.approved >= ledger.approved /\ Completed(ledger)' \subseteq Completed(ledger)
    BY <1>3 DEF Completed, Inv, TypeOK, StoreTypeOK, Ledger
  <2>2. \A s \in OpenAttempts' : s \in OpenAttempts /\ sessionFile'[s] = sessionFile[s]
    BY DEF OpenAttempts
  <2>3. \A l \in Launcher : pc'[l] \in {"reserved", "recorded"} =>
           pc[l] \in {"reserved", "recorded"} /\ request'[l] = request[l]
    BY DEF InBudgetLock
  <2> QED
    BY <1>1, <1>3, <2>1, <2>2, <2>3, ReserveFrame DEF SpendingInv
<1> QED
  BY <1>2, <1>3

(* The launcher's quiet steps. *)
LEMMA LauncherSpending ==
  ASSUME Inv, SpendingInv, [Next]_ledgerVars, NEW l \in Launcher,
         \/ \E a \in Approval : RequestAdmission(l, a)
         \/ \E s \in Session : ReconcileCost(l, s)
         \/ RecordAttempt(l)
         \/ LeaveAttempt(l)
  PROVE  ApprovedInv' /\ ReserveInv'
<1>1. ASSUME NEW a \in Approval, RequestAdmission(l, a)
      PROVE  ApprovedInv' /\ ReserveInv'
  BY <1>1, QuietStep
  DEF RequestAdmission, files, InBudgetLock, Inv, TypeOK, PcTypeOK, LocalTypeOK, Process
<1>2. ASSUME NEW s \in Session, ReconcileCost(l, s)
      PROVE  ApprovedInv' /\ ReserveInv'
  <2>1. mem[l] \in Ledger /\ costFile[s] \in Nat
    BY <1>2, NoFileAssumption DEF ReconcileCost, ValidCost, Inv, TypeOK, MarkerTypeOK,
       LocalTypeOK, LauncherInv, InBudgetLock, Process
  <2>2. mem'[l].approved = mem[l].approved /\ \A k \in Launcher \ {l} : mem'[k] = mem[k]
    BY <1>2, <2>1, ChargedFields DEF ReconcileCost, Inv, TypeOK, LocalTypeOK, Process
  <2> QED
    BY <1>2, <2>2, QuietStep DEF ReconcileCost
<1>3. CASE RecordAttempt(l)
  BY <1>3, QuietStep
  DEF RecordAttempt, InBudgetLock, Inv, TypeOK, PcTypeOK, Process
<1>4. CASE LeaveAttempt(l)
  BY <1>4, QuietStep
  DEF LeaveAttempt, Exit, files, InBudgetLock, Inv, TypeOK, PcTypeOK, LocalTypeOK, Process
<1> QED
  BY <1>1, <1>2, <1>3, <1>4

(* The cleaner's quiet steps: all but the ledger's own write. *)
LEMMA CleanerSpending ==
  ASSUME Inv, SpendingInv, [Next]_ledgerVars, NEW c \in Cleaner, CleanerStep(c), ~MarkLedger(c)
  PROVE  ApprovedInv' /\ ReserveInv'
<1>1. UNCHANGED <<ledger, sessionFile>>
  BY DEF CleanerStep, StartCleanup, AcquireCleanup, VerifyCleanup, LoadForMark,
     AlreadyCompleted, MarkAttemptFile, files
<1>2. \A l \in Launcher : pc'[l] = pc[l] /\ request'[l] = request[l] /\ mem'[l] = mem[l]
  BY StoreAssumption DEF CleanerStep, StartCleanup, AcquireCleanup, VerifyCleanup, LoadForMark,
     AlreadyCompleted, MarkAttemptFile, Exit, Inv, TypeOK, PcTypeOK, LocalTypeOK, Process
<1> QED
  BY <1>1, <1>2, QuietStep

(* What happens to the processes from outside is quiet. *)
LEMMA EnvironmentSpending ==
  ASSUME Inv, SpendingInv, [Next]_ledgerVars, Environment \/ UNCHANGED ledgerVars
  PROVE  ApprovedInv' /\ ReserveInv'
<1>1. ASSUME NEW p \in Process, Stop(p)
      PROVE  ApprovedInv' /\ ReserveInv'
  BY <1>1, QuietStep
  DEF Stop, Exit, files, InBudgetLock, Inv, TypeOK, PcTypeOK, LocalTypeOK, Process
<1>2. ASSUME UNCHANGED <<ledger, sessionFile, procs>>
      PROVE  ApprovedInv' /\ ReserveInv'
  BY <1>2, QuietStep DEF procs
<1> QED
  BY <1>1, <1>2 DEF Environment, RecordCost, EmergencyStop, Tick, ledgerVars, files

(* A first ledger starts with the historical spending its approval covers;  *)
(* a smaller budget is adopted only when nothing is open and it covers the  *)
(* spending.                                                                *)
LEMMA LoadBudgetSpending ==
  ASSUME Inv, SpendingInv, [Next]_ledgerVars, NEW l \in Launcher, LoadBudget(l)
  PROVE  ApprovedInv' /\ ReserveInv'
<1> DEFINE a == request[l].approval
<1>1. a \in Approval /\ Budget[a] \in Nat /\ Historical[a] \in Nat /\ Historical[a] <= Budget[a]
  <2>1. request[l] \in Request
    BY DEF LoadBudget, Inv, LauncherInv, LauncherPC, TypeOK, LocalTypeOK, Process
  <2> QED
    BY <2>1, ApprovalAssumption, AdmissionCoversTarget DEF Request
<1>2. /\ \A k \in Launcher : pc'[k] \in InBudgetLock => k = l
      /\ pc'[l] = "loaded" /\ request'[l] = request[l] /\ mem'[l] = ledger'
  BY NoHolder DEF LoadBudget, Inv, TypeOK, PcTypeOK, LocalTypeOK, Process
<1>3. ledger'.approved = Budget[a]
  BY DEF LoadBudget, LoadedBudget, FirstLedger, Inv, TypeOK, StoreTypeOK, Ledger
<1>4. ApprovedInv'
  BY <1>2, <1>3 DEF ApprovedInv
<1>5. ReserveInv'
  <2>1. \A k \in Launcher : pc'[k] \notin {"reserved", "recorded"}
    BY <1>2 DEF InBudgetLock
  <2>2. CASE ledger = NoFile
    <3>1. ledger' = FirstLedger(a)
      BY <2>2 DEF LoadBudget, LoadedBudget
    <3>2. OpenAttempts' = {}
      BY <3>1 DEF OpenAttempts, FirstLedger, Open, Pending
    <3>3. Completed(ledger') \subseteq {Legacy}
      BY <3>1 DEF Completed, FirstLedger
    <3>4. Spend(ledger') <= Budget[a]
      <4>1. CASE Completed(ledger') = {}
        <5>1. SumOver(ledger'.cost, {}) = 0
          BY FS_EmptySet, SumEquation
        <5> QED
          BY <1>1, <4>1, <5>1, SpendAsSum
      <4>2. CASE Completed(ledger') = {Legacy}
        <5>1. ledger'.cost[Legacy] = Historical[a]
          BY <4>2, <3>1, StoreAssumption DEF Completed, FirstLedger
        <5>2. Chosen({Legacy}) = Legacy /\ {Legacy} \ {Legacy} = {}
          BY ChosenIn
        <5>3. SumOver(ledger'.cost, {}) = 0
          BY FS_EmptySet, SumEquation
        <5>4. SumOver(ledger'.cost, {Legacy}) = ledger'.cost[Legacy] + 0
          <6>1. IsFiniteSet({Legacy}) /\ {Legacy} # {}
            BY FS_Singleton
          <6>2. SumOver(ledger'.cost, {Legacy})
                  = ledger'.cost[Chosen({Legacy})]
                      + SumOver(ledger'.cost, {Legacy} \ {Chosen({Legacy})})
            BY <6>1, SumEquation
          <6> QED
            BY <5>2, <5>3, <6>2
        <5> QED
          BY <1>1, <4>2, <5>1, <5>4, SpendAsSum
      <4> QED
        BY <3>3, <4>1, <4>2
    <3> QED
      BY <1>3, <2>1, <3>2, <3>4 DEF ReserveInv
  <2>3. CASE ledger # NoFile
    <3>1. /\ ledger'.status = ledger.status /\ ledger'.cost = ledger.cost
          /\ ledger.approved \in Nat /\ sessionFile' = sessionFile
      BY <2>3 DEF LoadBudget, LoadedBudget, files, Inv, TypeOK, StoreTypeOK, Ledger
    <3>2. Completed(ledger)' = Completed(ledger) /\ Spend(ledger)' = Spend(ledger)
      <4>1. Completed(ledger') = Completed(ledger)
        BY <3>1 DEF Completed
      <4> QED
        BY <3>1, <4>1, SpendAsSum
    <3>3. CASE Budget[a] >= ledger.approved
      <4>1. \A s \in OpenAttempts' : s \in OpenAttempts
        BY <2>3, <3>1 DEF OpenAttempts
      <4> QED
        BY <1>3, <2>1, <2>3, <3>1, <3>2, <3>3, <4>1, ReserveFrame DEF SpendingInv
    <3>4. CASE Budget[a] < ledger.approved
      <4>1. Settled(ledger) /\ Spend(ledger) <= Budget[a]
        <5>1. Settled(ledger) /\ Budget[a] >= Spend(ledger)
          BY <2>3, <3>4 DEF LoadBudget, CanLoad, CanAdopt
        <5> QED
          BY <5>1, <1>1, <2>3, SpendIsNat DEF SpendingInv
      <4>2. OpenAttempts' = {}
        BY <4>1, <3>1 DEF OpenAttempts, Settled, Open, Pending
      <4> QED
        BY <1>3, <2>1, <3>2, <4>1, <4>2 DEF ReserveInv
    <3> QED
      BY <1>1, <3>1, <3>3, <3>4
  <2> QED
    BY <2>2, <2>3
<1> QED
  BY <1>4, <1>5

(* The full rate until the deletion target is within the admission. *)
LEMMA TargetCost ==
  ASSUME NEW a \in Approval, CoversTarget(a), NEW started \in Nat, NEW at \in Nat,
         at <= started + DeletionTarget[a]
  PROVE  (IF at - started > 0 THEN at - started ELSE 0) * Rate[a] + CostSlack <= Admission[a]
<1> DEFINE e == IF at - started > 0 THEN at - started ELSE 0
           d == DeletionTarget[a]
           r == Rate[a]
<1>1. e \in Nat /\ d \in Nat /\ r \in Nat /\ e <= d
  BY ApprovalAssumption
<1>2. e * r <= r * d
  <2> HIDE DEF e, d, r
  <2>1. PICK k \in Nat : d = e + k
    <3>1. d - e \in Nat /\ d = e + (d - e)
      BY <1>1
    <3> QED
      BY <3>1
  <2>2. r * d = e * r + r * k /\ r * k \in Nat
    BY <1>1, <2>1
  <2>3. e * r \in Nat
    BY <1>1
  <2> QED
    BY <2>2, <2>3
<1>3. e * r \in Nat /\ r * d \in Nat
  BY <1>1
<1>4. Admission[a] >= r * d + CostSlack /\ Admission[a] \in Nat /\ CostSlack \in Nat
  BY StoreAssumption, ApprovalAssumption DEF CoversTarget
<1>5. e * r + CostSlack <= Admission[a]
  <2> HIDE DEF e, d, r
  <2> QED
    BY <1>2, <1>3, <1>4
<1> QED
  BY <1>5

(* Reconciling charges the one open attempt, and its admission was kept. *)
LEMMA ChargeSpendSpending ==
  ASSUME Inv, SpendingInv, [Next]_ledgerVars, NEW l \in Launcher, ChargeSpend(l)
  PROVE  ApprovedInv' /\ ReserveInv'
<1>1. /\ ledger # NoFile /\ ledger \in Ledger /\ mem[l] \in Ledger /\ ledger' = mem[l]
      /\ Settled(mem[l]) /\ pc[l] = "loaded" /\ mem[l].verifiedAt = ledger.verifiedAt
      /\ sessionFile' = sessionFile /\ verified' = verified
  BY NoFileAssumption DEF ChargeSpend, files, Inv, TypeOK, StoreTypeOK, LocalTypeOK, LauncherInv,
     InBudgetLock, Process
<1>2. \A k \in Launcher : pc[k] \in InBudgetLock => k = l
  BY <1>1, OneHolder DEF InBudgetLock, Process
<1>3. /\ \A k \in Launcher : pc'[k] \in InBudgetLock => k = l
      /\ pc'[l] = "charged" /\ request' = request /\ mem' = mem
  BY <1>2 DEF ChargeSpend, Inv, TypeOK, PcTypeOK, Process
<1>4. ledger'.approved = ledger.approved
  BY <1>1 DEF SpendingInv, ApprovedInv, InBudgetLock
<1>5. ApprovedInv'
  BY <1>1, <1>3, <1>4 DEF SpendingInv, ApprovedInv, InBudgetLock
<1>6. OpenAttempts' = {}
  BY <1>1 DEF OpenAttempts, Settled, Open, Pending
<1>7. \A k \in Launcher : pc'[k] \notin {"reserved", "recorded"}
  BY <1>3 DEF InBudgetLock
<1>8. ASSUME EveryChargeWithinReserve'
      PROVE  Spend(ledger)' <= ledger'.approved
  <2>1. EveryChargeWithinReserve
    BY <1>1, <1>8, ReserveStays
  <2>2. /\ Spend(ledger) <= ledger.approved
        /\ \A s \in OpenAttempts : AdmissionCovered(sessionFile[s].approval)
    BY <1>1, <2>1 DEF SpendingInv, ReserveInv
  <2>3. CASE Completed(ledger)' \subseteq Completed(ledger)
    BY <1>1, <1>4, <2>2, <2>3, SpendStays DEF SpendingInv
  <2>4. CASE \E s \in Session : s \in Completed(ledger)' /\ s \notin Completed(ledger)
    <3>1. PICK s \in Session : s \in Completed(ledger)' /\ s \notin Completed(ledger)
      BY <2>4
    <3>2. /\ ledger.status[s] = Pending /\ ledger'.status[s] = "completed"
          /\ ledger'.cost[s] <= CostUpper(ledger, s)
      BY <1>1, <3>1 DEF Inv, LauncherInv, Completed
    <3>3. s \in OpenAttempts
      BY <1>1, <3>2 DEF OpenAttempts, Open
    <3>4. s # Legacy /\ sessionFile[s] \in Request
      BY <3>3, OpenHasRunDir
    <3> DEFINE r == sessionFile[s]
               a == r.approval
    <3>5. /\ a \in Approval /\ r.started \in Nat /\ Admission[a] \in Nat
          /\ ledger'.cost[s] \in Nat /\ verified[s] \in Nat /\ ledger.verifiedAt[s] = verified[s]
      <4>1. verified[s] # NoFile /\ ledger.verifiedAt[s] = verified[s]
        BY <1>1, <3>2, <3>4 DEF Inv, RunDirInv, LedgerStatus
      <4> QED
        BY <1>1, <3>4, <4>1, ApprovalAssumption
        DEF Request, Ledger, Inv, TypeOK, MarkerTypeOK
    <3>6. ledger'.cost[s] <= Admission[a]
      <4>1. \/ a \notin SingleUse /\ verified[s] <= r.started + DeletionTarget[a]
            \/ ledger'.cost[s] <= Admission[a]
        BY <1>1, <1>8, <3>1, <3>4 DEF EveryChargeWithinReserve, WithinReserve
      <4>2. CASE a \notin SingleUse /\ verified[s] <= r.started + DeletionTarget[a]
        <5>1. CoversTarget(a)
          BY <3>5, <4>2, AdmissionCoversTarget
        <5>2. CostUpper(ledger, s) <= Admission[a]
          <6> HIDE DEF r
          <6>1. CostUpper(ledger, s)
                  = (IF verified[s] - r.started > 0 THEN verified[s] - r.started ELSE 0)
                      * Rate[a] + CostSlack
            BY <3>5 DEF CostUpper, r
          <6> QED
            BY <3>5, <4>2, <5>1, <6>1, TargetCost
        <5>3. CostUpper(ledger, s) \in Nat
          <6> DEFINE e == IF verified[s] - r.started > 0 THEN verified[s] - r.started ELSE 0
          <6>1. e \in Nat /\ Rate[a] \in Nat /\ CostSlack \in Nat
            BY <3>5, StoreAssumption, ApprovalAssumption
          <6>2. CostUpper(ledger, s) = e * Rate[a] + CostSlack
            BY <3>5 DEF CostUpper
          <6> HIDE DEF e
          <6> QED
            BY <6>1, <6>2
        <5> QED
          BY <3>2, <3>5, <5>2, <5>3
      <4> QED
        BY <4>1, <4>2
    <3> DEFINE C == Completed(ledger)
    <3>7. Completed(ledger)' = C \cup {s}
      <4>1. C \subseteq Completed(ledger)'
        BY <1>1, ChargesStay
      <4>2. ASSUME NEW t \in Completed(ledger)', t \notin C
            PROVE  t = s
        <5>1. ledger.status[t] = Pending /\ t \in Session
          BY <1>1, <4>2 DEF Inv, LauncherInv, Completed
        <5>2. t \in OpenAttempts
          BY <1>1, <5>1 DEF OpenAttempts, Open
        <5> QED
          BY <3>3, <5>2 DEF Inv, NoOverlap
      <4> QED
        BY <3>1, <4>1, <4>2
    <3>8. IsFiniteSet(C) /\ IsFiniteSet(C \cup {s}) /\ (C \cup {s}) \ {s} = C
      BY <1>1, <3>1, CompletedIsFinite, FS_AddElement DEF SpendingInv
    <3>9. \A t \in C \cup {s} : ledger'.cost[t] \in Nat
      BY <1>1 DEF Completed, Ledger
    <3>10. SumOver(ledger'.cost, C \cup {s}) = ledger'.cost[s] + SumOver(ledger'.cost, C)
      <4> HIDE DEF C
      <4> QED
        BY <3>8, <3>9, SumWithout
    <3>11. SumOver(ledger'.cost, C) = SumOver(ledger.cost, C)
      BY <1>1, <3>8, ChargesStay, SameTerms
    <3>12. Spend(ledger)' = ledger'.cost[s] + Spend(ledger)
      BY <3>7, <3>10, <3>11, SpendAsSum
    <3>13. Spend(ledger) \in Nat /\ Spend(ledger) + Admission[a] <= ledger.approved
      BY <1>1, <2>2, <3>3, SpendIsNat DEF SpendingInv, AdmissionCovered
    <3>14. ledger.approved \in Nat
      BY <1>1 DEF Ledger
    <3> HIDE DEF a
    <3> QED
      BY <1>4, <3>5, <3>6, <3>12, <3>13, <3>14
  <2> QED
    BY <2>3, <2>4 DEF Completed
<1> QED
  BY <1>5, <1>6, <1>7, <1>8 DEF ReserveInv

(* A launcher goes on only if its own admission fits as well. *)
LEMMA ReserveSessionSpending ==
  ASSUME Inv, SpendingInv, [Next]_ledgerVars,
         NEW l \in Launcher, NEW s \in Session, ReserveSession(l, s)
  PROVE  ApprovedInv' /\ ReserveInv'
<1> DEFINE a == request[l].approval
<1>1. /\ ledger # NoFile /\ mem[l] = ledger /\ Settled(ledger) /\ ledger' = ledger
      /\ a \in Approval
  BY NoFileAssumption DEF ReserveSession, Inv, TypeOK, LocalTypeOK, LauncherInv, LauncherPC,
     InBudgetLock, Process, Request
<1>2. \A k \in Launcher : pc[k] \in InBudgetLock => k = l
  BY OneHolder DEF ReserveSession, InBudgetLock, Process
<1>3. /\ \A k \in Launcher : pc'[k] \in InBudgetLock => k = l
      /\ request' = request /\ mem' = mem
  BY <1>2 DEF ReserveSession, Inv, TypeOK, PcTypeOK, Process
<1>4. ledger.approved = Budget[a]
  BY DEF ReserveSession, SpendingInv, ApprovedInv, InBudgetLock
<1>5. ApprovedInv'
  BY <1>1, <1>3 DEF ReserveSession, SpendingInv, ApprovedInv, InBudgetLock
<1>6. OpenAttempts' = {}
  BY <1>1 DEF OpenAttempts, Settled, Open, Pending
<1>7. Spend(ledger) + Admission[a] <= Budget[a]
  <2>1. Budget[a] - Spend(ledger) >= Admission[a]
    BY <1>1 DEF ReserveSession
  <2>2. Spend(ledger) \in Nat /\ Budget[a] \in Nat /\ Admission[a] \in Nat
    BY <1>1, SpendIsNat, ApprovalAssumption DEF SpendingInv
  <2> HIDE DEF a
  <2> QED
    BY <2>1, <2>2
<1>8. Spend(ledger)' = Spend(ledger) /\ Spend(ledger) <= Budget[a]
  <2>1. Spend(ledger) \in Nat /\ Budget[a] \in Nat /\ Admission[a] \in Nat
    BY <1>1, SpendIsNat, ApprovalAssumption DEF SpendingInv
  <2>2. Spend(ledger)' = Spend(ledger)
    <3>1. Completed(ledger') = Completed(ledger)
      BY <1>1
    <3> QED
      BY <1>1, <3>1, SpendAsSum
  <2> HIDE DEF a
  <2> QED
    BY <1>7, <2>1, <2>2
<1>9. \A k \in Launcher : pc'[k] \in {"reserved", "recorded"} =>
         AdmissionCovered(request[k].approval)'
  BY <1>1, <1>3, <1>4, <1>7, <1>8 DEF AdmissionCovered, InBudgetLock
<1> QED
  BY <1>1, <1>4, <1>5, <1>6, <1>8, <1>9 DEF ReserveInv

(* The attempt enters the ledger with the admission the launcher kept. *)
LEMMA AdmitAttemptSpending ==
  ASSUME Inv, SpendingInv, [Next]_ledgerVars, NEW l \in Launcher, AdmitAttempt(l)
  PROVE  ApprovedInv' /\ ReserveInv'
<1> DEFINE s == target[l]
<1>1. /\ s \in Session \ {Legacy} /\ ledger \in Ledger /\ ledger # NoFile /\ Settled(ledger)
      /\ ledger' = [ledger EXCEPT !.status[s] = "active"] /\ sessionFile[s] = request[l]
  BY DEF AdmitAttempt, Inv, TypeOK, StoreTypeOK, LauncherInv, InBudgetLock
<1>2. \A k \in Launcher : pc'[k] \notin InBudgetLock
  <2>1. \A k \in Launcher : pc[k] \in InBudgetLock => k = l
    BY OneHolder DEF AdmitAttempt, InBudgetLock, Process
  <2> QED
    BY <2>1 DEF AdmitAttempt, InBudgetLock, Inv, TypeOK, PcTypeOK, Process
<1>3. /\ ledger'.status = [ledger.status EXCEPT ![s] = "active"]
      /\ ledger'.approved = ledger.approved /\ sessionFile' = sessionFile
  BY <1>1 DEF Ledger, AdmitAttempt, files
<1>4. ApprovedInv'
  BY <1>2 DEF ApprovedInv
<1>5. ASSUME EveryChargeWithinReserve'
      PROVE  Spend(ledger)' <= ledger'.approved /\ AdmissionCovered(request[l].approval)'
  <2>1. EveryChargeWithinReserve
    BY <1>1, <1>5, ReserveStays
  <2>2. Spend(ledger) <= ledger.approved /\ AdmissionCovered(request[l].approval)
    BY <1>1, <2>1 DEF SpendingInv, ReserveInv, AdmitAttempt
  <2>3. Completed(ledger)' \subseteq Completed(ledger)
    BY <1>1, <1>3 DEF Completed, Ledger
  <2>4. Spend(ledger)' = Spend(ledger)
    BY <1>1, <2>3, SpendStays DEF SpendingInv
  <2>5. UNCHANGED request
    BY DEF AdmitAttempt
  <2> QED
    BY <1>3, <2>2, <2>4, <2>5 DEF AdmissionCovered
<1>6. \A t \in OpenAttempts' : t = s
  BY <1>1, <1>3 DEF OpenAttempts, Settled, Open, Pending, Ledger
<1>7. \A k \in Launcher : pc'[k] \notin {"reserved", "recorded"}
  BY <1>2 DEF InBudgetLock
<1>8. sessionFile'[s] = request'[l]
  BY <1>1, <1>3 DEF AdmitAttempt
<1> HIDE DEF s
<1> QED
  BY <1>4, <1>5, <1>6, <1>7, <1>8 DEF ReserveInv, AdmissionCovered

(* A verified cleanup leaves the attempt open until it is charged. *)
LEMMA MarkLedgerSpending ==
  ASSUME Inv, SpendingInv, [Next]_ledgerVars, NEW c \in Cleaner, MarkLedger(c)
  PROVE  ApprovedInv' /\ ReserveInv'
<1> DEFINE s == target[c]
<1>1. /\ s \in Session /\ ledger \in Ledger /\ ledger # NoFile /\ ledger.status[s] \in Open
      /\ ledger' = CostPending(ledger, s, verified[s]) /\ verified[s] \in Nat
  BY DEF MarkLedger, Inv, TypeOK, StoreTypeOK, LocalTypeOK, MarkerTypeOK, CleanerInv,
     CleanupLockInv, Process
<1>2. \A k \in Launcher : pc'[k] = pc[k] /\ pc[k] \notin InBudgetLock
  <2>1. \A k \in Launcher : pc[k] \in InBudgetLock => k = c
    BY OneHolder DEF MarkLedger, InBudgetLock, Process
  <2> QED
    BY <2>1, StoreAssumption DEF MarkLedger, Exit, Inv, TypeOK, PcTypeOK, Process
<1>3. ApprovedInv'
  BY <1>2 DEF ApprovedInv
<1>4. /\ ledger'.status = [ledger.status EXCEPT ![s] = Pending]
      /\ ledger'.approved = ledger.approved /\ ledger.approved \in Nat
      /\ sessionFile' = sessionFile
  <2>1. sessionFile' = sessionFile /\ ledger.approved \in Nat
    BY <1>1 DEF MarkLedger, files, Ledger
  <2> HIDE DEF s
  <2> QED
    BY <1>1, <2>1, CostPendingFields
<1>5. Completed(ledger)' \subseteq Completed(ledger)
  BY <1>1, <1>4 DEF Completed, Ledger, Pending
<1>6. \A t \in OpenAttempts' : t \in OpenAttempts /\ sessionFile'[t] = sessionFile[t]
  BY <1>1, <1>4 DEF OpenAttempts, Ledger, Open
<1>7. \A k \in Launcher : pc'[k] \notin {"reserved", "recorded"}
  BY <1>2 DEF InBudgetLock
<1> QED
  BY <1>1, <1>3, <1>4, <1>5, <1>6, <1>7, ReserveFrame DEF SpendingInv

(* Every step keeps the spending invariant. *)
LEMMA StepSpending ==
  Inv /\ SpendingInv /\ [Next]_ledgerVars => SpendingInv'
<1> SUFFICES ASSUME Inv, SpendingInv, [Next]_ledgerVars
             PROVE  SpendingInv'
  OBVIOUS
<1>1. AttemptsInv'
  BY AttemptsInvStep DEF SpendingInv
<1>2. ApprovedInv' /\ ReserveInv'
  <2>1. ASSUME NEW l \in Launcher, LauncherStep(l)
        PROVE  ApprovedInv' /\ ReserveInv'
    BY <2>1, LauncherSpending, LoadBudgetSpending, ChargeSpendSpending, ReserveSessionSpending,
       AdmitAttemptSpending DEF LauncherStep
  <2>2. ASSUME NEW c \in Cleaner, CleanerStep(c)
        PROVE  ApprovedInv' /\ ReserveInv'
    BY <2>2, CleanerSpending, MarkLedgerSpending
  <2> QED
    BY <2>1, <2>2, EnvironmentSpending DEF Next
<1> QED
  BY <1>1, <1>2 DEF SpendingInv

(* The spending invariant holds in every reachable state. *)
THEOREM SpendingInvariance == Spec => [](Inv /\ SpendingInv)
<1>1. Init => SpendingInv
  <2> SUFFICES ASSUME Init
               PROVE  SpendingInv
    OBVIOUS
  <2>1. {s \in Session : LedgerStatus(s) # "absent"} = {}
    BY DEF Init, LedgerStatus
  <2>2. AttemptsInv
    BY <2>1, FS_EmptySet DEF AttemptsInv
  <2> QED
    BY <2>2 DEF Init, SpendingInv, ApprovedInv, ReserveInv, InBudgetLock, Process
<1> QED
  BY <1>1, InitInv, StepInv, StepSpending, PTL DEF Spec

(* For any approvals, replacements and crashes: as long as every charged    *)
(* attempt stayed within its reserve, or was verified deleted by its        *)
(* deletion target under an approval that covers it, the cumulative         *)
(* spending is within the approved total.                                   *)
THEOREM SpendingWithinBudget == Spec => []NoOverspend
<1>1. SpendingInv => NoOverspend
  BY DEF SpendingInv, ReserveInv, NoOverspend, EveryChargeWithinReserve
<1> QED
  BY <1>1, SpendingInvariance, PTL
=============================================================================
