---------------------------- MODULE BudgetLedger ----------------------------
(***************************************************************************)
(* The session store of infra/topology/pilot-session.py: the cumulative    *)
(* budget ledger (budget.json), the run directory of every attempt, and    *)
(* the two kinds of process that write them.                               *)
(*                                                                         *)
(*   - a launcher runs prepare_session: it admits an attempt under         *)
(*     budget.lock, in several file writes;                                *)
(*   - a cleaner runs cleanup_until_target for one run directory, under    *)
(*     that directory's cleanup.lock, and then marks the attempt in the    *)
(*     ledger under budget.lock.                                           *)
(*                                                                         *)
(* A step is one file write, or one acquisition of a file lock with the    *)
(* reads that follow it.  A process may stop between any two steps: it is  *)
(* killed, or it raises SessionError; either way flock releases its locks, *)
(* its in-memory budget is lost, and what it wrote stays.  What a cleanup  *)
(* does to the cloud is module PilotSession's business.                    *)
(***************************************************************************)
EXTENDS Integers, FiniteSets, FiniteSetsExt

CONSTANTS
  Session,        \* session ids; each names a run directory
  Legacy,         \* the one attempt that may predate the ledger
  Launcher,       \* pilot-session.py processes that admit an attempt
  Cleaner,        \* guards, failed launchers and operators running cleanup
  Approval,       \* approval record files that pass the static checks
  SingleUse,      \* approvals of the tp4-router-comparison profile
  Replace,        \* approvals with replace_remaining_budget: true
  Budget,         \* max_total_usd_pretax of an approval
  Historical,     \* historical_spend_usd_pretax of an approval
  Expires,        \* authorization_expires_at of an approval
  Admission,      \* attempt_admission_usd_pretax of its profile
  Rate,           \* hourly_rate_usd_pretax of its profile, per clock tick
  DeletionTarget, \* deletion_target_seconds of its profile, in ticks
  CostSlack,      \* the 0.01 the cost bound allows for rounding
  Costs,          \* amounts an operator may write in cost-estimate.json
  MaxTime,        \* bound on the clock
  NoFile,         \* stands for a file that does not exist
  Free            \* stands for the holder of a lock nobody holds

ASSUME StoreAssumption ==
  /\ Legacy \in Session
  /\ Launcher \cap Cleaner = {}
  /\ Free \notin Launcher \cup Cleaner
  /\ SingleUse \subseteq Approval /\ Replace \subseteq Approval
  /\ CostSlack \in Nat /\ Costs \subseteq Nat /\ MaxTime \in Nat

ASSUME ApprovalAssumption ==
  /\ Budget \in [Approval -> Nat] /\ Historical \in [Approval -> Nat]
  /\ Expires \in [Approval -> Nat] /\ Admission \in [Approval -> Nat]
  /\ Rate \in [Approval -> Nat] /\ DeletionTarget \in [Approval -> Nat]

(* Every profile but the staged two-host comparison reserves at least its  *)
(* full rate until its deletion target; an approval never authorizes less  *)
(* than the spending it records.                                           *)
CoversTarget(a) == Admission[a] >= Rate[a] * DeletionTarget[a] + CostSlack

ASSUME AdmissionCoversTarget ==
  \A a \in Approval :
    /\ a \notin SingleUse => CoversTarget(a)
    /\ Historical[a] <= Budget[a]

VARIABLES
  ledger,       \* budget.json
  sessionFile,  \* RUN_DIR/session.json of each session
  attemptFile,  \* status in RUN_DIR/attempt.json
  verified,     \* verified_unix in RUN_DIR/cleanup-verified.json
  costFile,     \* estimate in RUN_DIR/cost-estimate.json
  manualStop,   \* manual-stop.json exists
  legacyRun,    \* the top-level attempt.json of the legacy attempt exists
  budgetLock,   \* holder of budget.lock
  cleanupLock,  \* holder of RUN_DIR/cleanup.lock
  pc,           \* where each process is
  request,      \* what a launcher was asked to admit, and when it started
  target,       \* the session a process works on
  mem,          \* the budget dictionary a process has in memory
  now           \* the clock

files   == <<sessionFile, attemptFile, verified, costFile, legacyRun>>
procs   == <<pc, request, target, mem>>
locks   == <<budgetLock, cleanupLock>>
ledgerVars == <<ledger, files, manualStop, locks, procs, now>>

Process == Launcher \cup Cleaner

-----------------------------------------------------------------------------
(* Data *)

Pending == "cleanup_verified_cost_pending"
Open    == {"active", Pending}
Status  == {"absent", "active", Pending, "completed"}

Ledger == [approved   : Nat,
           status     : [Session -> Status],
           cost       : [Session -> Nat],
           verifiedAt : [Session -> Nat]]

Request == [approval : Approval, started : Nat]

(* An absent file is none of the things a file holds. *)
ASSUME NoFileAssumption ==
  NoFile \notin Nat /\ NoFile \notin Session /\ NoFile \notin Ledger /\ NoFile \notin Request

LauncherPC == {"idle", "waiting", "loaded", "charged", "reserved",
               "recorded", "admitted"}
CleanerPC  == {"idle", "contending", "cleaning", "verified", "marking",
               "marked"}

(* Steps taken while holding budget.lock. *)
InBudgetLock == {"loaded", "charged", "reserved", "recorded",
                 "marking", "marked"}

-----------------------------------------------------------------------------
(* The checks of the ledger *)

Completed(b) == {s \in Session : b.status[s] = "completed"}

(* Sum of the recorded costs; completed_spend raises unless Settled(b). *)
Spend(b) == MapThenSumSet(LAMBDA s : b.cost[s], Completed(b))

(* Faulty variant: a verified cleanup is enough, the cost may follow later. *)
SettledUnlessActive(b) ==
  \A s \in Session : b.status[s] # "absent" => verified[s] # NoFile

Settled(b) ==
  \A s \in Session : b.status[s] # "absent" =>
     b.status[s] = "completed" /\ verified[s] # NoFile

(* The ledger load_or_initialize_budget writes when there is none. *)
FirstLedger(a) ==
  [approved   |-> Budget[a],
   status     |-> [s \in Session |-> IF s = Legacy /\ legacyRun
                                     THEN "completed" ELSE "absent"],
   cost       |-> [s \in Session |-> IF s = Legacy /\ legacyRun
                                     THEN Historical[a] ELSE 0],
   verifiedAt |-> [s \in Session |-> 0]]

CanInitialize(a) ==
  IF legacyRun THEN verified[Legacy] # NoFile /\ costFile[Legacy] = Historical[a]
               ELSE Historical[a] = 0

(* Faulty variant: a replacement is not compared with the spending. *)
CanAdoptUncovered(a) ==
  Budget[a] < ledger.approved => a \in Replace /\ Settled(ledger)

(* An existing ledger takes a larger budget as it is; a smaller one only   *)
(* as an explicit replacement, with nothing open and the spending covered. *)
CanAdopt(a) ==
  Budget[a] < ledger.approved =>
    a \in Replace /\ Settled(ledger) /\ Budget[a] >= Spend(ledger)

CanLoad(a) == IF ledger = NoFile THEN CanInitialize(a) ELSE CanAdopt(a)

LoadedBudget(a) == IF ledger = NoFile THEN FirstLedger(a)
                   ELSE [ledger EXCEPT !.approved = Budget[a]]

(* Faulty variant: an attempt that is cleaned up no longer counts as a use. *)
NotReusedByActive(b, a) ==
  a \in SingleUse =>
    \A s \in Session : b.status[s] = "active" /\ sessionFile[s] # NoFile
                         => sessionFile[s].approval # a

(* A single-attempt approval backs no attempt of the ledger yet. *)
NotReused(b, a) ==
  a \in SingleUse =>
    \A s \in Session :
      ~(b.status[s] # "absent" /\ sessionFile[s] # NoFile
                               /\ sessionFile[s].approval = a)

(* validated_attempt_cost: at most the full rate over the elapsed time. *)
CostUpper(b, s) ==
  LET a == sessionFile[s].approval
      elapsed == b.verifiedAt[s] - sessionFile[s].started
  IN  (IF elapsed > 0 THEN elapsed ELSE 0) * Rate[a] + CostSlack

(* Faulty variants: no upper bound; a missing record passes. *)
ValidCostUnbounded(b, s) == sessionFile[s] # NoFile /\ costFile[s] # NoFile

ValidCostUnrecorded(b, s) ==
  /\ sessionFile[s] # NoFile
  /\ costFile[s] # NoFile => costFile[s] <= CostUpper(b, s)

ValidCost(b, s) ==
  /\ sessionFile[s] # NoFile
  /\ costFile[s] # NoFile
  /\ costFile[s] <= CostUpper(b, s)

(* How the steps that close an attempt rewrite a budget dictionary. *)
CostPending(b, s, at) ==
  [b EXCEPT !.status[s] = Pending, !.verifiedAt[s] = at]

Charged(b, s, cost) ==
  [b EXCEPT !.status[s] = "completed", !.cost[s] = cost]

(* A process ends: nothing in its memory survives. *)
Exit(p) ==
  /\ pc' = [pc EXCEPT ![p] = "idle"]
  /\ request' = [request EXCEPT ![p] = NoFile]
  /\ target' = [target EXCEPT ![p] = NoFile]
  /\ mem' = [mem EXCEPT ![p] = NoFile]

-----------------------------------------------------------------------------
(* Launcher: prepare_session *)

(* The checks before the lock: the stop record, the approval, its expiry.  *)
(* The start time is taken here, before waiting for the lock.              *)
RequestAdmission(l, a) ==
  /\ pc[l] = "idle"
  /\ ~manualStop
  /\ now + DeletionTarget[a] <= Expires[a]
  /\ pc' = [pc EXCEPT ![l] = "waiting"]
  /\ request' = [request EXCEPT ![l] = [approval |-> a, started |-> now]]
  /\ UNCHANGED <<ledger, files, manualStop, locks, target, mem, now>>

LoadBudget(l) ==
  LET a == request[l].approval IN
  /\ pc[l] = "waiting"
  /\ budgetLock = Free
  /\ CanLoad(a)
  /\ budgetLock' = l
  /\ ledger' = LoadedBudget(a)
  /\ mem' = [mem EXCEPT ![l] = LoadedBudget(a)]
  /\ pc' = [pc EXCEPT ![l] = "loaded"]
  /\ UNCHANGED <<files, manualStop, cleanupLock, request, target, now>>

(* One attempt of reconcile_recorded_costs: attempt.json is rewritten, the *)
(* ledger itself only by ChargeSpend.                                      *)
ReconcileCost(l, s) ==
  /\ pc[l] = "loaded"
  /\ NotReused(mem[l], request[l].approval)
  /\ mem[l].status[s] = Pending
  /\ ValidCost(mem[l], s)
  /\ mem' = [mem EXCEPT ![l] = Charged(mem[l], s, costFile[s])]
  /\ attemptFile' = [attemptFile EXCEPT ![s] = "completed"]
  /\ UNCHANGED <<ledger, sessionFile, verified, costFile, legacyRun,
                 manualStop, locks, pc, request, target, now>>

(* Faulty variant: the reconciled ledger is not written before admission. *)
ChargeSpendUnwritten(l) ==
  /\ pc[l] = "loaded"
  /\ NotReused(mem[l], request[l].approval)
  /\ Settled(mem[l])
  /\ pc' = [pc EXCEPT ![l] = "charged"]
  /\ UNCHANGED <<ledger, files, manualStop, locks, request, target, mem, now>>

(* completed_spend accepts every attempt and the ledger is written back. *)
ChargeSpend(l) ==
  /\ pc[l] = "loaded"
  /\ NotReused(mem[l], request[l].approval)
  /\ Settled(mem[l])
  /\ ledger' = mem[l]
  /\ pc' = [pc EXCEPT ![l] = "charged"]
  /\ UNCHANGED <<files, manualStop, locks, request, target, mem, now>>

(* The remaining budget covers one admission: a new run directory with its *)
(* session.json.                                                           *)
ReserveSession(l, s) ==
  LET a == request[l].approval IN
  /\ pc[l] = "charged"
  /\ Budget[a] - Spend(mem[l]) >= Admission[a]
  /\ s # Legacy
  /\ sessionFile[s] = NoFile
  /\ sessionFile' = [sessionFile EXCEPT ![s] = request[l]]
  /\ target' = [target EXCEPT ![l] = s]
  /\ pc' = [pc EXCEPT ![l] = "reserved"]
  /\ UNCHANGED <<ledger, attemptFile, verified, costFile, legacyRun,
                 manualStop, locks, request, mem, now>>

RecordAttempt(l) ==
  /\ pc[l] = "reserved"
  /\ attemptFile' = [attemptFile EXCEPT ![target[l]] = "active"]
  /\ pc' = [pc EXCEPT ![l] = "recorded"]
  /\ UNCHANGED <<ledger, sessionFile, verified, costFile, legacyRun,
                 manualStop, locks, request, target, mem, now>>

(* The attempt enters the ledger; budget.lock is released. *)
AdmitAttempt(l) ==
  /\ pc[l] = "recorded"
  /\ ledger' = [mem[l] EXCEPT !.status[target[l]] = "active"]
  /\ budgetLock' = Free
  /\ pc' = [pc EXCEPT ![l] = "admitted"]
  /\ mem' = [mem EXCEPT ![l] = NoFile]
  /\ UNCHANGED <<files, manualStop, cleanupLock, request, target, now>>

(* The launcher is done with the attempt it admitted. *)
LeaveAttempt(l) ==
  /\ pc[l] = "admitted"
  /\ Exit(l)
  /\ UNCHANGED <<ledger, files, manualStop, locks, now>>

-----------------------------------------------------------------------------
(* Cleaner: cleanup_until_target and mark_attempt_cleanup_verified *)

StartCleanup(c, s) ==
  /\ pc[c] = "idle"
  /\ sessionFile[s] # NoFile
  /\ pc' = [pc EXCEPT ![c] = "contending"]
  /\ target' = [target EXCEPT ![c] = s]
  /\ UNCHANGED <<ledger, files, manualStop, locks, request, mem, now>>

(* Under cleanup.lock: nothing is torn down once the marker is there. *)
AcquireCleanup(c) ==
  LET s == target[c] IN
  /\ pc[c] = "contending"
  /\ cleanupLock[s] = Free
  /\ cleanupLock' = [cleanupLock EXCEPT ![s] = c]
  /\ pc' = [pc EXCEPT ![c] = IF verified[s] # NoFile THEN "verified"
                                                     ELSE "cleaning"]
  /\ UNCHANGED <<ledger, files, manualStop, budgetLock, request, target, mem,
                 now>>

(* A teardown exited with 0: the marker is written. *)
VerifyCleanup(c) ==
  /\ pc[c] = "cleaning"
  /\ verified' = [verified EXCEPT ![target[c]] = now]
  /\ pc' = [pc EXCEPT ![c] = "verified"]
  /\ UNCHANGED <<ledger, sessionFile, attemptFile, costFile, legacyRun,
                 manualStop, locks, request, target, mem, now>>

InLedger(s) == ledger # NoFile /\ ledger.status[s] # "absent"

(* Faulty variant: without the early return for a completed attempt. *)
LoadForMarkAgain(c) ==
  LET s == target[c] IN
  /\ pc[c] = "verified"
  /\ budgetLock = Free
  /\ InLedger(s)
  /\ budgetLock' = c
  /\ mem' = [mem EXCEPT ![c] = CostPending(ledger, s, verified[s])]
  /\ pc' = [pc EXCEPT ![c] = "marking"]
  /\ UNCHANGED <<ledger, files, manualStop, cleanupLock, request, target, now>>

(* The attempt is open: it becomes cost pending, in memory first. *)
LoadForMark(c) ==
  LET s == target[c] IN
  /\ pc[c] = "verified"
  /\ budgetLock = Free
  /\ InLedger(s)
  /\ ledger.status[s] # "completed"
  /\ budgetLock' = c
  /\ mem' = [mem EXCEPT ![c] = CostPending(ledger, s, verified[s])]
  /\ pc' = [pc EXCEPT ![c] = "marking"]
  /\ UNCHANGED <<ledger, files, manualStop, cleanupLock, request, target, now>>

(* The attempt is completed already: both locks are released again. *)
AlreadyCompleted(c) ==
  LET s == target[c] IN
  /\ pc[c] = "verified"
  /\ budgetLock = Free
  /\ InLedger(s)
  /\ ledger.status[s] = "completed"
  /\ cleanupLock' = [cleanupLock EXCEPT ![s] = Free]
  /\ Exit(c)
  /\ UNCHANGED <<ledger, files, manualStop, budgetLock, now>>

(* Faulty variant: budget.json is written before attempt.json. *)
MarkLedgerFirst(c) ==
  /\ pc[c] = "marking"
  /\ ledger' = mem[c]
  /\ pc' = [pc EXCEPT ![c] = "marked"]
  /\ UNCHANGED <<files, manualStop, locks, request, target, mem, now>>

MarkAttemptFile(c) ==
  /\ pc[c] = "marking"
  /\ attemptFile' = [attemptFile EXCEPT ![target[c]] = Pending]
  /\ pc' = [pc EXCEPT ![c] = "marked"]
  /\ UNCHANGED <<ledger, sessionFile, verified, costFile, legacyRun,
                 manualStop, locks, request, target, mem, now>>

MarkLedger(c) ==
  /\ pc[c] = "marked"
  /\ ledger' = mem[c]
  /\ budgetLock' = Free
  /\ cleanupLock' = [cleanupLock EXCEPT ![target[c]] = Free]
  /\ Exit(c)
  /\ UNCHANGED <<files, manualStop, now>>

-----------------------------------------------------------------------------
(* The environment *)

(* A process is killed, or raises: the operating system drops its locks.  *)
Stop(p) ==
  /\ pc[p] # "idle"
  /\ Exit(p)
  /\ budgetLock' = IF budgetLock = p THEN Free ELSE budgetLock
  /\ cleanupLock' = [s \in Session |->
                       IF cleanupLock[s] = p THEN Free ELSE cleanupLock[s]]
  /\ UNCHANGED <<ledger, files, manualStop, now>>

(* After cleanup the operator saves an estimate for an attempt that is not *)
(* charged yet (SESSION.md, "Unattended launch procedure").                *)
RecordCost(s, x) ==
  /\ sessionFile[s] # NoFile /\ verified[s] # NoFile
  /\ ledger # NoFile /\ ledger.status[s] # "completed"
  /\ costFile[s] # x
  /\ costFile' = [costFile EXCEPT ![s] = x]
  /\ UNCHANGED <<ledger, sessionFile, attemptFile, verified, legacyRun,
                 manualStop, locks, procs, now>>

(* stop-active.py writes the stop record; nothing removes it. *)
EmergencyStop ==
  /\ ~manualStop
  /\ manualStop' = TRUE
  /\ UNCHANGED <<ledger, files, locks, procs, now>>

Tick ==
  /\ now < MaxTime
  /\ now' = now + 1
  /\ UNCHANGED <<ledger, files, manualStop, locks, procs>>

-----------------------------------------------------------------------------
Init ==
  /\ ledger = NoFile
  /\ sessionFile = [s \in Session |-> NoFile]
  /\ attemptFile = [s \in Session |-> "absent"]
  /\ legacyRun \in BOOLEAN
  /\ verified \in [Session -> {NoFile, 0}]
  /\ costFile \in [Session -> Costs \cup {NoFile}]
  /\ \A s \in Session : ~(s = Legacy /\ legacyRun) =>
       verified[s] = NoFile /\ costFile[s] = NoFile
  /\ manualStop = FALSE
  /\ budgetLock = Free
  /\ cleanupLock = [s \in Session |-> Free]
  /\ pc = [p \in Process |-> "idle"]
  /\ request = [p \in Process |-> NoFile]
  /\ target = [p \in Process |-> NoFile]
  /\ mem = [p \in Process |-> NoFile]
  /\ now = 0

LauncherStep(l) ==
  \/ \E a \in Approval : RequestAdmission(l, a)
  \/ LoadBudget(l)
  \/ \E s \in Session : ReconcileCost(l, s)
  \/ ChargeSpend(l)
  \/ \E s \in Session : ReserveSession(l, s)
  \/ RecordAttempt(l)
  \/ AdmitAttempt(l)
  \/ LeaveAttempt(l)

CleanerStep(c) ==
  \/ \E s \in Session : StartCleanup(c, s)
  \/ AcquireCleanup(c)
  \/ VerifyCleanup(c)
  \/ LoadForMark(c)
  \/ AlreadyCompleted(c)
  \/ MarkAttemptFile(c)
  \/ MarkLedger(c)

Environment ==
  \/ \E p \in Process : Stop(p)
  \/ \E s \in Session, x \in Costs : RecordCost(s, x)
  \/ EmergencyStop
  \/ Tick

Next ==
  \/ \E l \in Launcher : LauncherStep(l)
  \/ \E c \in Cleaner : CleanerStep(c)
  \/ Environment

Spec == Init /\ [][Next]_ledgerVars
-----------------------------------------------------------------------------
(* Properties *)

(* The variables hold values of their types. *)
StoreTypeOK ==
  /\ ledger \in Ledger \cup {NoFile}
  /\ sessionFile \in [Session -> Request \cup {NoFile}]
  /\ attemptFile \in [Session -> Status]
MarkerTypeOK ==
  /\ verified \in [Session -> Nat \cup {NoFile}]
  /\ costFile \in [Session -> Nat \cup {NoFile}]
  /\ manualStop \in BOOLEAN /\ legacyRun \in BOOLEAN /\ now \in Nat
LockTypeOK ==
  /\ budgetLock \in Process \cup {Free}
  /\ cleanupLock \in [Session -> Process \cup {Free}]
PcTypeOK ==
  /\ pc \in [Process -> LauncherPC \cup CleanerPC]
  /\ \A l \in Launcher : pc[l] \in LauncherPC
  /\ \A c \in Cleaner : pc[c] \in CleanerPC
LocalTypeOK ==
  /\ request \in [Process -> Request \cup {NoFile}]
  /\ target \in [Process -> Session \cup {NoFile}]
  /\ mem \in [Process -> Ledger \cup {NoFile}]
TypeOK == StoreTypeOK /\ MarkerTypeOK /\ LockTypeOK /\ PcTypeOK /\ LocalTypeOK

OpenAttempts == {s \in Session : ledger # NoFile /\ ledger.status[s] \in Open}

(* "Prohibit overlap" (infra/topology/README.md): the ledger never holds   *)
(* two attempts that are not completed, whatever order launchers, guards   *)
(* and operators write it in and wherever one of them dies.                *)
NoOverlap == \A s, t \in OpenAttempts : s = t

(* An attempt is charged only after its deletion was verified, and for no  *)
(* more than the full rate between its start and that verification: a     *)
(* charge survives later launches, so a wrong one is never corrected.      *)
ChargedAfterCleanup ==
  ledger # NoFile =>
    \A s \in Session : ledger.status[s] = "completed" =>
      /\ verified[s] # NoFile
      /\ s # Legacy => /\ sessionFile[s] # NoFile
                       /\ ledger.verifiedAt[s] = verified[s]
                       /\ ledger.cost[s] <= CostUpper(ledger, s)

(* attempt.json is written before budget.json on every path, so after any  *)
(* crash it is at the ledger's status or exactly one step ahead of it: the *)
(* next reader can always redo the step, never has to undo one.            *)
Rank(x) == CASE x = "absent" -> 0 [] x = "active" -> 1
             [] x = Pending -> 2 [] x = "completed" -> 3

LedgerStatus(s) == IF ledger = NoFile THEN "absent" ELSE ledger.status[s]

AttemptFileLeads ==
  \A s \in Session \ {Legacy} :
    Rank(attemptFile[s]) - Rank(LedgerStatus(s)) \in {0, 1}

(* The cumulative spending stays within the approved total as long as each *)
(* charged attempt was verified deleted by its deletion target -- through  *)
(* larger approvals, replacements, and the staged profile when its charge  *)
(* stayed within its own reserve.                                          *)
WithinReserve(s) ==
  LET r == sessionFile[s] IN
  \/ r.approval \notin SingleUse /\ verified[s] <= r.started + DeletionTarget[r.approval]
  \/ ledger.cost[s] <= Admission[r.approval]

NoOverspend ==
  ledger # NoFile =>
    ((\A s \in Completed(ledger) \ {Legacy} : WithinReserve(s))
       => Spend(ledger) <= ledger.approved)

(* A single-attempt approval backs at most one attempt of the ledger, also *)
(* when its launcher died half way or two launchers use it at once.        *)
SingleUseOnce ==
  ledger # NoFile =>
    \A s, t \in Session \ {Legacy} :
      /\ ledger.status[s] # "absent" /\ ledger.status[t] # "absent"
      /\ sessionFile[s].approval = sessionFile[t].approval
      /\ sessionFile[s].approval \in SingleUse
      => s = t

(* No write of the ledger forgets an attempt, reopens one or changes what  *)
(* a completed one cost: budget.json is rewritten whole by every process,  *)
(* so a stale copy would.                                                  *)
NeverForgets ==
  [][ledger # NoFile =>
       /\ ledger' # NoFile
       /\ \A s \in Session :
            /\ Rank(ledger'.status[s]) >= Rank(ledger.status[s])
            /\ ledger.status[s] = "completed" => ledger'.cost[s] = ledger.cost[s]
    ]_ledger

(* The ledger as one rental at a time, admitted, cleaned and settled.      *)
Lifecycle == INSTANCE RentalLifecycle WITH
  open    <- OpenAttempts,
  cleaned <- {s \in Session : ledger # NoFile /\ ledger.status[s] = Pending},
  settled <- {s \in Session : ledger # NoFile /\ ledger.status[s] = "completed"}

(* Whatever the interleaving, the ledger moves as RentalLifecycle says.    *)
OneRentalAtATime == Lifecycle!Spec
-----------------------------------------------------------------------------
(* The inductive invariant behind the safety properties *)

(* budget.lock is held exactly by the process inside its critical section. *)
BudgetLockInv == \A p \in Process : pc[p] \in InBudgetLock <=> budgetLock = p

(* A cleaner past the lock of its run directory still holds it, and tears  *)
(* down only what nobody has verified.                                     *)
CleanupLockInv ==
  \A c \in Cleaner :
    /\ pc[c] # "idle" => target[c] # NoFile /\ sessionFile[target[c]] # NoFile
    /\ pc[c] \in CleanerPC \ {"idle", "contending"} => cleanupLock[target[c]] = c
    /\ pc[c] = "cleaning" => verified[target[c]] = NoFile
    /\ pc[c] \in {"verified", "marking", "marked"} => verified[target[c]] # NoFile

(* The run directory behind every attempt of the ledger. *)
RunDirInv ==
  /\ sessionFile[Legacy] = NoFile
  /\ LedgerStatus(Legacy) \in {"absent", "completed"}
  /\ \A s \in Session :
       /\ s # Legacy /\ LedgerStatus(s) # "absent" => sessionFile[s] # NoFile
       /\ LedgerStatus(s) \in {Pending, "completed"} => verified[s] # NoFile
       /\ s # Legacy /\ LedgerStatus(s) \in {Pending, "completed"}
            => ledger.verifiedAt[s] = verified[s]

(* What a launcher inside the lock knows of the ledger on disk. *)
LauncherInv ==
  \A l \in Launcher :
    /\ pc[l] \in LauncherPC \ {"idle"} => request[l] # NoFile
    /\ pc[l] \in InBudgetLock => ledger # NoFile /\ mem[l] # NoFile
    /\ pc[l] = "loaded" =>
         /\ mem[l].verifiedAt = ledger.verifiedAt
         /\ \A s \in Session :
              \/ /\ mem[l].status[s] = ledger.status[s]
                 /\ mem[l].cost[s] = ledger.cost[s]
              \/ /\ ledger.status[s] = Pending
                 /\ mem[l].status[s] = "completed"
                 /\ mem[l].cost[s] <= CostUpper(ledger, s)
                 /\ attemptFile[s] = "completed"
    /\ pc[l] \in {"charged", "reserved", "recorded"} =>
         /\ mem[l] = ledger
         /\ Settled(ledger)
         /\ NotReused(ledger, request[l].approval)
    /\ pc[l] \in {"reserved", "recorded"} =>
         /\ target[l] \in Session \ {Legacy}
         /\ sessionFile[target[l]] = request[l]
         /\ ledger.status[target[l]] = "absent"
    /\ pc[l] = "recorded" => attemptFile[target[l]] = "active"

(* What a cleaner inside the lock is about to write. *)
CleanerInv ==
  \A c \in Cleaner :
    /\ pc[c] \in {"marking", "marked"} =>
         /\ ledger # NoFile
         /\ ledger.status[target[c]] \in Open
         /\ mem[c] = CostPending(ledger, target[c], verified[target[c]])
    /\ pc[c] = "marked" => attemptFile[target[c]] = Pending

Inv ==
  /\ TypeOK
  /\ BudgetLockInv
  /\ CleanupLockInv
  /\ RunDirInv
  /\ LauncherInv
  /\ CleanerInv
  /\ NoOverlap
  /\ ChargedAfterCleanup
  /\ AttemptFileLeads
  /\ SingleUseOnce

(* Behind NoOverspend: the budget was set by the approval of the launcher   *)
(* inside the lock, and while every charge stayed within its reserve the    *)
(* approved total also covers one admission for the attempt that is open,   *)
(* or that a launcher is about to enter.                                    *)
EveryChargeWithinReserve ==
  \A s \in Completed(ledger) \ {Legacy} : WithinReserve(s)

AdmissionCovered(a) == Spend(ledger) + Admission[a] <= ledger.approved

(* Finitely many attempts ever entered the ledger. *)
AttemptsInv == IsFiniteSet({s \in Session : LedgerStatus(s) # "absent"})

(* Inside the lock a launcher works with the budget its approval set. *)
ApprovedInv ==
  \A l \in Launcher : pc[l] \in InBudgetLock =>
    ledger.approved = Budget[request[l].approval] /\ mem[l].approved = ledger.approved

ReserveInv ==
  ledger # NoFile /\ EveryChargeWithinReserve =>
    /\ Spend(ledger) <= ledger.approved
    /\ \A s \in OpenAttempts : AdmissionCovered(sessionFile[s].approval)
    /\ \A l \in Launcher : pc[l] \in {"reserved", "recorded"} =>
         AdmissionCovered(request[l].approval)

SpendingInv == AttemptsInv /\ ApprovedInv /\ ReserveInv
=============================================================================
