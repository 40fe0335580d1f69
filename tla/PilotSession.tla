---------------------------- MODULE PilotSession ----------------------------
(***************************************************************************)
(* One rental after another, with the processes around it: the launcher    *)
(* (main and apply_plan of infra/topology/pilot-session.py), its detached  *)
(* deadline guard, the cleaners (cleanup_until_target in the guard, in a   *)
(* failed launcher or run by an operator) with the teardown.sh each of     *)
(* them starts, the emergency stop (stop-active.py), the terraform apply,  *)
(* and the cloud.  The ledger is RentalLifecycle, which BudgetLedger       *)
(* implements; admission is one step here.                                 *)
(*                                                                         *)
(* Time is abstract: a session's guard deadline, the placement timeout and *)
(* the teardown timeout may expire at any moment the code waits for them.  *)
(* All resources of a session are one unit, which exists or does not.      *)
(***************************************************************************)
EXTENDS FiniteSets

CONSTANTS
  Session,   \* session ids
  Legacy,    \* the attempt that predates the ledger; never launched here
  Operator,  \* runs of "pilot-session.py cleanup" by hand
  Mortal,    \* kinds of process that may be killed
  MayStop,   \* whether the user may call the emergency stop
  None       \* nobody

StopCleaner        == <<"stop", None>>  \* the cleanup that stop-active.py runs
GuardCleaner(s)    == <<"guard", s>>
LauncherCleaner(s) == <<"launcher", s>>
Cleaner == ({"guard", "launcher"} \X Session) \cup ({"operator"} \X Operator)
             \cup {StopCleaner}

ASSUME PilotAssumption ==
  /\ Legacy \notin Session
  /\ Mortal \subseteq {"guard", "launcher", "operator", "stop"}
  /\ MayStop \in BOOLEAN
  /\ None \notin Session \cup Cleaner \cup ({"apply"} \X Session)

VARIABLES
  open, cleaned, settled,  \* budget.json, as RentalLifecycle has it
  launch,         \* where the launcher of each session is
  guard,          \* where the guard of each session is
  apply,          \* the terraform apply of each session
  due,            \* a deadline of the session's guard has passed
  stopRequested,  \* manual-stop-requested.json of the session
  stop,           \* where stop-active.py is
  marker,         \* cleanup-verified.json of the session
  lock,           \* holder of the session's cleanup.lock
  clean,          \* where each cleaner is
  job,            \* the session each cleaner works on
  teardown,       \* the teardown.sh each cleaner started
  tfLock,         \* who holds the lock of the shared Terraform state
  cloud           \* sessions whose resources exist

budget      == <<open, cleaned, settled>>
launchVars  == <<launch, apply>>
guardVars   == <<guard, due>>
stopVars    == <<stop, stopRequested>>
cleanVars   == <<clean, job, lock, marker>>
cloudVars   == <<teardown, tfLock, cloud>>
pilotVars   == <<budget, launchVars, guardVars, stopVars, cleanVars, cloudVars>>

Ledger == INSTANCE RentalLifecycle WITH Session <- Session \cup {Legacy}

ApplyOf(s)  == <<"apply", s>>  \* the terraform apply of s, as holder of tfLock
BeforeApply == {"checked", "admitted", "waiting", "ready", "armed"}

-----------------------------------------------------------------------------
(* Launcher: main, prepare_session, wait_guard_ready, apply_plan *)

(* prepare_session looks for manual-stop.json before anything else. *)
CheckStopRecord(s) ==
  /\ launch[s] = "none"
  /\ stop = "off"
  /\ launch' = [launch EXCEPT ![s] = "checked"]
  /\ UNCHANGED <<budget, apply, guardVars, stopVars, cleanVars, cloudVars>>

(* Under budget.lock, with the cost of s on record. *)
Reconcile(s) ==
  /\ \E t \in Session : launch[t] = "checked"
  /\ Ledger!Settle(s)
  /\ UNCHANGED <<launchVars, guardVars, stopVars, cleanVars, cloudVars>>

Admit(s) ==
  /\ launch[s] = "checked"
  /\ Ledger!Admit(s)
  /\ launch' = [launch EXCEPT ![s] = "admitted"]
  /\ UNCHANGED <<apply, guardVars, stopVars, cleanVars, cloudVars>>

SpawnGuard(s) ==
  /\ launch[s] = "admitted"
  /\ launch' = [launch EXCEPT ![s] = "waiting"]
  /\ guard' = [guard EXCEPT ![s] = "starting"]
  /\ UNCHANGED <<budget, apply, due, stopVars, cleanVars, cloudVars>>

(* guard-ready.json is there; it stays when the guard goes. *)
GuardIsReady(s) == guard[s] \in {"watching", "cleaning", "gone", "killed"}

(* Faulty variant: the launcher does not wait for guard-ready.json. *)
SeeGuardSpawned(s) ==
  /\ launch[s] = "waiting"
  /\ launch' = [launch EXCEPT ![s] = "ready"]
  /\ UNCHANGED <<budget, apply, guardVars, stopVars, cleanVars, cloudVars>>

SeeGuardReady(s) ==
  /\ launch[s] = "waiting"
  /\ GuardIsReady(s)
  /\ launch' = [launch EXCEPT ![s] = "ready"]
  /\ UNCHANGED <<budget, apply, guardVars, stopVars, cleanVars, cloudVars>>

(* Five seconds are over, or the guard exited: apply is not started.  The *)
(* guard is not stopped.                                                  *)
GiveUpOnGuard(s) ==
  /\ launch[s] = "waiting"
  /\ launch' = [launch EXCEPT ![s] = "gone"]
  /\ UNCHANGED <<budget, apply, guardVars, stopVars, cleanVars, cloudVars>>

(* The stop request and the plan are checked; a changed plan also ends it. *)
CheckBeforeApply(s) ==
  /\ launch[s] = "ready"
  /\ \/ ~stopRequested[s] /\ launch' = [launch EXCEPT ![s] = "armed"]
     \/ launch' = [launch EXCEPT ![s] = "gone"]
  /\ UNCHANGED <<budget, apply, guardVars, stopVars, cleanVars, cloudVars>>

(* Terraform locks its state when it starts, and fails if it cannot. *)
StartApply(s) ==
  /\ launch[s] = "armed"
  /\ launch' = [launch EXCEPT ![s] = "applying"]
  /\ IF tfLock = None
     THEN apply' = [apply EXCEPT ![s] = "creating"] /\ tfLock' = ApplyOf(s)
     ELSE apply' = [apply EXCEPT ![s] = "failed"] /\ UNCHANGED tfLock
  /\ UNCHANGED <<budget, guardVars, stopVars, cleanVars, teardown, cloud>>

ApplyReturns(s) ==
  /\ launch[s] = "applying"
  /\ apply[s] \in {"succeeded", "failed"}
  /\ launch' = [launch EXCEPT ![s] = IF apply[s] = "succeeded" THEN "gone"
                                                               ELSE "failed"]
  /\ UNCHANGED <<budget, apply, guardVars, stopVars, cleanVars, cloudVars>>

(* The child is interrupted and awaited, or killed: its lock is free. *)
EndApply(s) ==
  /\ apply' = [apply EXCEPT ![s] = "failed"]
  /\ tfLock' = IF tfLock = ApplyOf(s) THEN None ELSE tfLock

(* Placement timeout (124) or an allocation failure (125). *)
InterruptApply(s) ==
  /\ launch[s] = "applying"
  /\ EndApply(s)
  /\ launch' = [launch EXCEPT ![s] = "failed"]
  /\ UNCHANGED <<budget, guardVars, stopVars, cleanVars, teardown, cloud>>

(* Any exit code but 0: the launcher turns into a cleaner. *)
FailureCleanup(s) ==
  /\ launch[s] = "failed"
  /\ launch' = [launch EXCEPT ![s] = "cleaning"]
  /\ clean' = [clean EXCEPT ![LauncherCleaner(s)] = "waiting"]
  /\ UNCHANGED <<budget, apply, guardVars, stopVars, job, lock, marker, cloudVars>>

-----------------------------------------------------------------------------
(* Guard: guard_run *)

GuardStarts(s) ==
  /\ guard[s] = "starting"
  /\ guard' = [guard EXCEPT ![s] = "watching"]
  /\ UNCHANGED <<budget, launchVars, due, stopVars, cleanVars, cloudVars>>

(* The first-measurement or the cleanup deadline.  The launcher needs      *)
(* seconds from admission to apply, the shortest deadline many minutes: it *)
(* is assumed that the machine does not sleep in between (SESSION.md asks  *)
(* for that), and the deadline does not pass before apply starts.          *)
DeadlinePasses(s) ==
  /\ ~due[s]
  /\ guard[s] # "none"
  /\ launch[s] \notin BeforeApply
  /\ due' = [due EXCEPT ![s] = TRUE]
  /\ UNCHANGED <<budget, launchVars, guard, stopVars, cleanVars, cloudVars>>

GuardActs(s) ==
  /\ guard[s] = "watching"
  /\ ~marker[s]
  /\ stopRequested[s] \/ due[s]
  /\ guard' = [guard EXCEPT ![s] = "cleaning"]
  /\ clean' = [clean EXCEPT ![GuardCleaner(s)] = "waiting"]
  /\ UNCHANGED <<budget, launchVars, due, stopVars, job, lock, marker, cloudVars>>

GuardLeaves(s) ==
  /\ guard[s] = "watching"
  /\ marker[s]
  /\ guard' = [guard EXCEPT ![s] = "gone"]
  /\ UNCHANGED <<budget, launchVars, due, stopVars, cleanVars, cloudVars>>

-----------------------------------------------------------------------------
(* Cleaner: cleanup_until_target, run_teardown_once *)

(* The process around cleaner c ends with it. *)
CleanerEnds(c, how) ==
  /\ clean' = [clean EXCEPT ![c] = how]
  /\ guard' = [s \in Session |-> IF c = GuardCleaner(s) THEN "gone" ELSE guard[s]]
  /\ launch' = [s \in Session |-> IF c = LauncherCleaner(s) THEN "gone" ELSE launch[s]]

(* "After the block or a failure, run pilot-session.py cleanup" (SESSION.md). *)
OperatorCleans(o, s) ==
  /\ clean[<<"operator", o>>] = "off"
  /\ launch[s] = "gone"
  /\ s \in open \cup settled
  /\ clean' = [clean EXCEPT ![<<"operator", o>>] = "waiting"]
  /\ job' = [job EXCEPT ![<<"operator", o>>] = s]
  /\ UNCHANGED <<budget, launchVars, guardVars, stopVars, lock, marker, cloudVars>>

(* Faulty variant: an existing marker does not end the cleanup. *)
AcquireLockAnew(c) ==
  /\ clean[c] = "waiting"
  /\ lock[job[c]] = None
  /\ lock' = [lock EXCEPT ![job[c]] = c]
  /\ clean' = [clean EXCEPT ![c] = "tearing"]
  /\ UNCHANGED <<budget, launchVars, guardVars, stopVars, job, marker, cloudVars>>

AcquireLock(c) ==
  /\ clean[c] = "waiting"
  /\ lock[job[c]] = None
  /\ lock' = [lock EXCEPT ![job[c]] = c]
  /\ clean' = [clean EXCEPT ![c] = IF marker[job[c]] THEN "verified" ELSE "tearing"]
  /\ UNCHANGED <<budget, launchVars, guardVars, stopVars, job, marker, cloudVars>>

StartTeardown(c) ==
  /\ clean[c] = "tearing"
  /\ teardown[c] = "none"
  /\ clean' = [clean EXCEPT ![c] = "awaiting"]
  /\ teardown' = [teardown EXCEPT ![c] = "preparing"]
  /\ UNCHANGED <<budget, launchVars, guardVars, stopVars, job, lock, marker, tfLock, cloud>>

(* Faulty variant: the marker is written whatever teardown.sh returns. *)
TeardownTrusted(c) ==
  /\ clean[c] = "awaiting"
  /\ teardown[c] \in {"zero", "nonzero"}
  /\ marker' = [marker EXCEPT ![job[c]] = TRUE]
  /\ clean' = [clean EXCEPT ![c] = "verified"]
  /\ teardown' = [teardown EXCEPT ![c] = "none"]
  /\ UNCHANGED <<budget, launchVars, guardVars, stopVars, job, lock, tfLock, cloud>>

TeardownVerified(c) ==
  /\ clean[c] = "awaiting"
  /\ teardown[c] = "zero"
  /\ marker' = [marker EXCEPT ![job[c]] = TRUE]
  /\ clean' = [clean EXCEPT ![c] = "verified"]
  /\ teardown' = [teardown EXCEPT ![c] = "none"]
  /\ UNCHANGED <<budget, launchVars, guardVars, stopVars, job, lock, tfLock, cloud>>

(* Faulty variant: a cleanup that fails is not tried again. *)
TeardownAbandoned(c) ==
  /\ clean[c] = "awaiting"
  /\ teardown[c] = "nonzero"
  /\ lock' = [lock EXCEPT ![job[c]] = None]
  /\ CleanerEnds(c, "done")
  /\ teardown' = [teardown EXCEPT ![c] = "none"]
  /\ UNCHANGED <<budget, apply, due, stopVars, job, marker, tfLock, cloud>>

TeardownRetried(c) ==
  /\ clean[c] = "awaiting"
  /\ teardown[c] = "nonzero"
  /\ clean' = [clean EXCEPT ![c] = "tearing"]
  /\ teardown' = [teardown EXCEPT ![c] = "none"]
  /\ UNCHANGED <<budget, launchVars, guardVars, stopVars, job, lock, marker, tfLock, cloud>>

(* The process group of teardown.sh is terminated, then killed: exit 124. *)
TeardownTimesOut(c) ==
  /\ clean[c] = "awaiting"
  /\ teardown[c] \in {"preparing", "destroying", "destroyed", "failed"}
  /\ teardown' = [teardown EXCEPT ![c] = "nonzero"]
  /\ tfLock' = IF tfLock = c THEN None ELSE tfLock
  /\ UNCHANGED <<budget, launchVars, guardVars, stopVars, cleanVars, cloud>>

(* Faulty variant: the mark does not look whether the attempt is completed. *)
MarkCleanedAgain(c) ==
  /\ clean[c] = "verified"
  /\ cleaned' = cleaned \cup {job[c]}
  /\ UNCHANGED <<open, settled>>
  /\ lock' = [lock EXCEPT ![job[c]] = None]
  /\ CleanerEnds(c, "done")
  /\ UNCHANGED <<apply, due, stopVars, job, marker, cloudVars>>

(* mark_attempt_cleanup_verified, then both locks are free. *)
MarkCleaned(c) ==
  /\ clean[c] = "verified"
  /\ \/ Ledger!Clean(job[c])
     \/ job[c] \in cleaned \cup settled /\ UNCHANGED budget
  /\ lock' = [lock EXCEPT ![job[c]] = None]
  /\ CleanerEnds(c, "done")
  /\ UNCHANGED <<apply, due, stopVars, job, marker, cloudVars>>

-----------------------------------------------------------------------------
(* teardown.sh and terraform; they outlive the cleaner that started them *)

(* A launcher past its last check calls terraform within milliseconds; the *)
(* checks of a teardown alone take seconds, so none gets through before.   *)
BeginDestroy(c) ==
  /\ teardown[c] = "preparing"
  /\ \A s \in Session : launch[s] # "armed"
  /\ tfLock = None
  /\ tfLock' = c
  /\ teardown' = [teardown EXCEPT ![c] = "destroying"]
  /\ UNCHANGED <<budget, launchVars, guardVars, stopVars, cleanVars, cloud>>

(* Everything in the state goes: there is one state for all sessions. *)
FinishDestroy(c) ==
  /\ teardown[c] = "destroying"
  /\ cloud' = {}
  /\ tfLock' = None
  /\ teardown' = [teardown EXCEPT ![c] = "destroyed"]
  /\ UNCHANGED <<budget, launchVars, guardVars, stopVars, cleanVars>>

(* The state is locked by somebody else, or the deletion fails. *)
FailDestroy(c) ==
  /\ \/ teardown[c] = "preparing" /\ tfLock # None /\ UNCHANGED tfLock
     \/ teardown[c] = "destroying" /\ tfLock' = None
  /\ teardown' = [teardown EXCEPT ![c] = "failed"]
  /\ UNCHANGED <<budget, launchVars, guardVars, stopVars, cleanVars, cloud>>

(* Faulty variant: a failed destroy does not count once the listings are empty. *)
VerifyListingOnly(c) ==
  /\ teardown[c] \in {"destroyed", "failed"}
  /\ teardown' = [teardown EXCEPT ![c] = IF cloud = {} THEN "zero" ELSE "nonzero"]
  /\ UNCHANGED <<budget, launchVars, guardVars, stopVars, cleanVars, tfLock, cloud>>

(* verify-empty.sh: exit 0 only after a destroy that succeeded, when all   *)
(* the listings of the project succeed and are empty.                      *)
VerifyEmpty(c) ==
  /\ teardown[c] \in {"destroyed", "failed"}
  /\ \/ /\ teardown[c] = "destroyed" /\ cloud = {}
        /\ teardown' = [teardown EXCEPT ![c] = "zero"]
     \/ teardown' = [teardown EXCEPT ![c] = "nonzero"]
  /\ UNCHANGED <<budget, launchVars, guardVars, stopVars, cleanVars, tfLock, cloud>>

(* Nobody waits for a teardown whose cleaner is dead. *)
OrphanExits(c) ==
  /\ clean[c] = "dead"
  /\ teardown[c] \in {"zero", "nonzero"}
  /\ teardown' = [teardown EXCEPT ![c] = "none"]
  /\ UNCHANGED <<budget, launchVars, guardVars, stopVars, cleanVars, tfLock, cloud>>

CreateResources(s) ==
  /\ apply[s] = "creating"
  /\ s \notin cloud
  /\ cloud' = cloud \cup {s}
  /\ UNCHANGED <<budget, launchVars, guardVars, stopVars, cleanVars, teardown, tfLock>>

FinishApply(s) ==
  /\ apply[s] = "creating"
  /\ \/ s \in cloud /\ apply' = [apply EXCEPT ![s] = "succeeded"]
     \/ apply' = [apply EXCEPT ![s] = "failed"]
  /\ tfLock' = None
  /\ UNCHANGED <<budget, launch, guardVars, stopVars, cleanVars, teardown, cloud>>

-----------------------------------------------------------------------------
(* Emergency stop: stop-active.py *)

WriteStopRecord ==
  /\ MayStop
  /\ stop = "off"
  /\ stop' = "recorded"
  /\ UNCHANGED <<budget, launchVars, guardVars, stopRequested, cleanVars, cloudVars>>

Active == {s \in open : ~marker[s]}

(* "No active guarded router rental is recorded." *)
FindNothing ==
  /\ stop = "recorded"
  /\ Active = {}
  /\ stop' = "paused"
  /\ UNCHANGED <<budget, launchVars, guardVars, stopRequested, cleanVars, cloudVars>>

RequestStop(s) ==
  /\ stop = "recorded"
  /\ s \in Active
  /\ stopRequested' = [stopRequested EXCEPT ![s] = TRUE]
  /\ stop' = "requested"
  /\ UNCHANGED <<budget, launchVars, guardVars, cleanVars, cloudVars>>

(* Faulty variant: a lock file that its dead owner leaves behind. *)
LoseCleanerOnly(c) ==
  /\ clean' = [clean EXCEPT ![c] = "dead"]
  /\ UNCHANGED lock

(* A cleaner dies without its lock; its teardown.sh, in a session of its   *)
(* own, does not.                                                          *)
LoseCleaner(c) ==
  /\ clean' = [clean EXCEPT ![c] = "dead"]
  /\ lock' = [s \in Session |-> IF lock[s] = c THEN None ELSE lock[s]]

(* SIGINT to the launcher, or else to its terraform.  Inside apply_plan's  *)
(* wait it is handled like a timeout; anywhere else it ends the launcher.  *)
SignalLauncher(s) ==
  /\ stop = "requested"
  /\ stopRequested[s]
  /\ stop' = "signalled"
  /\ \/ /\ launch[s] = "applying"
        /\ EndApply(s)
        /\ launch' = [launch EXCEPT ![s] = "failed"]
        /\ UNCHANGED <<clean, lock>>
     \/ /\ launch[s] \in BeforeApply \cup {"failed"}
        /\ launch' = [launch EXCEPT ![s] = "gone"]
        /\ UNCHANGED <<apply, tfLock, clean, lock>>
     \/ /\ launch[s] = "cleaning"
        /\ launch' = [launch EXCEPT ![s] = "gone"]
        /\ LoseCleaner(LauncherCleaner(s))
        /\ UNCHANGED <<apply, tfLock>>
     \/ /\ launch[s] = "gone"
        /\ IF apply[s] = "creating" THEN EndApply(s) ELSE UNCHANGED <<apply, tfLock>>
        /\ UNCHANGED <<launch, clean, lock>>
  /\ UNCHANGED <<budget, guardVars, stopRequested, job, marker, teardown, cloud>>

(* It then runs the cleanup command for the session, and waits for it. *)
StopCleans(s) ==
  /\ stop = "signalled"
  /\ stopRequested[s]
  /\ stop' = "cleaning"
  /\ clean' = [clean EXCEPT ![StopCleaner] = "waiting"]
  /\ job' = [job EXCEPT ![StopCleaner] = s]
  /\ UNCHANGED <<budget, launchVars, guardVars, stopRequested, lock, marker, cloudVars>>

-----------------------------------------------------------------------------
(* A process is killed, and its children go on. *)

KillLauncher(s) ==
  /\ "launcher" \in Mortal
  /\ launch[s] \in BeforeApply \cup {"applying", "failed", "cleaning"}
  /\ launch' = [launch EXCEPT ![s] = "gone"]
  /\ IF launch[s] = "cleaning" THEN LoseCleaner(LauncherCleaner(s))
                               ELSE UNCHANGED <<clean, lock>>
  /\ UNCHANGED <<budget, apply, guardVars, stopVars, job, marker, cloudVars>>

KillGuard(s) ==
  /\ "guard" \in Mortal
  /\ guard[s] \in {"starting", "watching", "cleaning"}
  /\ guard' = [guard EXCEPT ![s] = IF guard[s] = "starting" THEN "failed" ELSE "killed"]
  /\ IF guard[s] = "cleaning" THEN LoseCleaner(GuardCleaner(s))
                              ELSE UNCHANGED <<clean, lock>>
  /\ UNCHANGED <<budget, launchVars, due, stopVars, job, marker, cloudVars>>

(* Ctrl-C in the terminal of a cleanup, or of stop-active.py. *)
KillCleanup(c) ==
  /\ c[1] \in Mortal \cap {"operator", "stop"}
  /\ clean[c] \notin {"off", "done", "dead"}
  /\ LoseCleaner(c)
  /\ UNCHANGED <<budget, launchVars, guardVars, stopVars, job, marker, cloudVars>>

-----------------------------------------------------------------------------
Init ==
  /\ Ledger!Init
  /\ launch = [s \in Session |-> "none"]
  /\ guard = [s \in Session |-> "none"]
  /\ apply = [s \in Session |-> "none"]
  /\ due = [s \in Session |-> FALSE]
  /\ stopRequested = [s \in Session |-> FALSE]
  /\ stop = "off"
  /\ marker = [s \in Session |-> FALSE]
  /\ lock = [s \in Session |-> None]
  /\ clean = [c \in Cleaner |-> "off"]
  /\ job = [c \in Cleaner |-> IF c[1] \in {"guard", "launcher"} THEN c[2] ELSE None]
  /\ teardown = [c \in Cleaner |-> "none"]
  /\ tfLock = None
  /\ cloud = {}

LauncherRuns(s) ==
  \/ SpawnGuard(s) \/ SeeGuardReady(s) \/ GiveUpOnGuard(s) \/ CheckBeforeApply(s)
  \/ StartApply(s) \/ ApplyReturns(s) \/ FailureCleanup(s)

LauncherStep(s) ==
  \/ CheckStopRecord(s) \/ Reconcile(s) \/ Admit(s) \/ InterruptApply(s)
  \/ LauncherRuns(s)

GuardStep(s) == GuardStarts(s) \/ GuardActs(s) \/ GuardLeaves(s)

CleanerStep(c) ==
  \/ AcquireLock(c) \/ StartTeardown(c) \/ TeardownVerified(c)
  \/ TeardownRetried(c) \/ MarkCleaned(c)

TeardownStep(c) ==
  \/ BeginDestroy(c) \/ FinishDestroy(c) \/ FailDestroy(c) \/ VerifyEmpty(c)
  \/ OrphanExits(c)

StopRuns ==
  \/ FindNothing
  \/ \E s \in Session : RequestStop(s) \/ SignalLauncher(s) \/ StopCleans(s)

Next ==
  \/ \E s \in Session : \/ LauncherStep(s) \/ GuardStep(s) \/ DeadlinePasses(s)
                        \/ CreateResources(s) \/ FinishApply(s)
                        \/ KillLauncher(s) \/ KillGuard(s)
  \/ \E c \in Cleaner : \/ CleanerStep(c) \/ TeardownStep(c) \/ TeardownTimesOut(c)
                        \/ KillCleanup(c)
  \/ \E o \in Operator, s \in Session : OperatorCleans(o, s)
  \/ WriteStopRecord \/ StopRuns

Spec == Init /\ [][Next]_pilotVars

(* Processes that live keep running, deadlines come, and terraform calls   *)
(* and listings do not fail or time out forever: a deletion that is        *)
(* retried again and again gets through one day.  A cleaner and its        *)
(* teardown take turns.  Nobody is obliged to start a launch, a cleanup by *)
(* hand or an emergency stop.                                              *)
VerifiedEmpty(c) == VerifyEmpty(c) /\ teardown'[c] = "zero"

Fairness ==
  /\ \A s \in Session :
       /\ WF_pilotVars(GuardStep(s)) /\ WF_pilotVars(DeadlinePasses(s))
       /\ WF_pilotVars(FinishApply(s)) /\ WF_pilotVars(LauncherRuns(s))
  /\ \A c \in Cleaner : WF_pilotVars(CleanerStep(c) \/ TeardownStep(c))
  /\ WF_pilotVars(StopRuns)
  /\ SF_pilotVars(\E c \in Cleaner : BeginDestroy(c))
  /\ SF_pilotVars(\E c \in Cleaner : FinishDestroy(c))
  /\ SF_pilotVars(\E c \in Cleaner : VerifiedEmpty(c))

FairSpec == Spec /\ Fairness
-----------------------------------------------------------------------------
(* Properties *)

TypeOK ==
  /\ open \subseteq Session /\ cleaned \subseteq open /\ settled \subseteq Session \cup {Legacy}
  /\ launch \in [Session -> BeforeApply \cup {"none", "applying", "failed", "cleaning", "gone"}]
  /\ guard \in [Session -> {"none", "starting", "watching", "cleaning", "gone", "failed", "killed"}]
  /\ apply \in [Session -> {"none", "creating", "succeeded", "failed"}]
  /\ due \in [Session -> BOOLEAN]
  /\ stopRequested \in [Session -> BOOLEAN]
  /\ stop \in {"off", "recorded", "paused", "requested", "signalled", "cleaning"}
  /\ marker \in [Session -> BOOLEAN]
  /\ lock \in [Session -> Cleaner \cup {None}]
  /\ clean \in [Cleaner -> {"off", "waiting", "tearing", "awaiting", "verified", "done", "dead"}]
  /\ job \in [Cleaner -> Session \cup {None}]
  /\ teardown \in [Cleaner -> {"none", "preparing", "destroying", "destroyed", "failed", "zero", "nonzero"}]
  /\ tfLock \in {None} \cup Cleaner \cup ({"apply"} \X Session)
  /\ cloud \subseteq Session

(* The marker that ends every cleanup, and lets the next launch begin, is  *)
(* never there while the session has resources or can still get some.     *)
VerifiedMeansDeleted ==
  \A s \in Session : marker[s] => s \notin cloud /\ apply[s] # "creating"

(* "Prohibit overlap", in the cloud: what is billed belongs to the one     *)
(* attempt that the ledger has open and not marked as cleaned.             *)
BilledIsOpen == cloud \subseteq open \ cleaned

(* As long as the guard is not killed, resources never exist or come into  *)
(* being without a guard that watches the deadline or is cleaning up.      *)
NeverUnattended ==
  \A s \in Session :
    s \in cloud \/ apply[s] = "creating" => guard[s] \in {"watching", "cleaning"}

(* A cleanup that is not killed deletes nothing of another session,        *)
(* although all sessions share one Terraform state.                        *)
ScopedDestroy ==
  [][\A c \in Cleaner :
       teardown[c] = "destroying" /\ teardown'[c] = "destroyed" /\ clean[c] # "dead"
         => cloud \subseteq {job[c]}]_pilotVars

(* Deletion-only retries continue until verification succeeds: a session   *)
(* whose guard is not killed is verified empty in the end, whatever        *)
(* happens to its launcher, its apply, the operators and the stop.         *)
EventuallyDeleted ==
  \A s \in Session : guard[s] = "watching" ~> marker[s] \/ guard[s] = "killed"

(* The emergency stop deletes the rental even when its guard is dead,      *)
(* unless the stop itself is killed.                                       *)
StopDeletes ==
  \A s \in Session :
    stop = "requested" /\ stopRequested[s] ~> marker[s] \/ clean[StopCleaner] = "dead"

(* "Future launches are paused by the manual-stop record"                  *)
(* (stop-active.py): once it has said so, nothing is admitted.             *)
PausedByStop == [][stop = "paused" => open' \subseteq open]_pilotVars

(* "The guard and normal cleanup share a lock" (SESSION.md): no two        *)
(* teardowns of one session run at the same time.                          *)
OneTeardown ==
  \A c, d \in Cleaner :
    job[c] = job[d] /\ teardown[c] # "none" /\ teardown[d] # "none" => c = d

(* "Cleanup completion marks the attempt as awaiting cost accounting"      *)
(* (SESSION.md): a verified cleanup reaches the ledger.                    *)
CompletionIsMarked ==
  \A s \in Session : marker[s] /\ guard[s] = "watching" ~> s \in cleaned \cup settled
=============================================================================
