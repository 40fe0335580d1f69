# Models and proofs of the GPU rental sessions

The repository benchmarks request routing for LLM serving on rented GPU
machines.  Its own logic is in `src/infra/topology`: programs that admit a
rental against a budget, create it with Terraform, guard its deadline, run the
measurements and delete it again, unattended.  A mistake there costs money or
an experiment: two rentals at once, a machine nobody deletes, an attempt
charged twice or never, results lost with their Pod.  This directory models
that logic in TLA+.

The rest of the repository is data (`src/results`, `src/workloads`,
`src/scenarios`), Terraform and Kubernetes text, and one-shot scripts.

## The system

| Component | State it keeps | Operations | Modelled in |
|---|---|---|---|
| Session store (`pilot-session.py` 600-876) | `budget.json`, and per attempt `session.json`, `attempt.json`, `cleanup-verified.json`, `cost-estimate.json`; two file locks | admit, reconcile costs, mark cleaned | `BudgetLedger` |
| Launcher (`pilot-session.py` 1065-1265) | its place in `main`; `apply-result.json` | admit, spawn the guard, wait for it, `terraform apply`, failure cleanup | `PilotSession` |
| Deadline guard (`guard_run`) | `guard-ready.json` | watch the deadlines, the stop request and the marker; clean up | `PilotSession` |
| Cleanup (`cleanup_until_target`, `run_teardown_once`) | `cleanup.lock`, marker | take the lock, run `teardown.sh` with a time limit, retry, mark | `PilotSession`; the files in `BudgetLedger` |
| Teardown (`teardown.sh`, `verify-empty.sh`) | shared Terraform state | destroy, list everything | `PilotSession` |
| Emergency stop (`stop-active.py`) | `manual-stop.json`, `manual-stop-requested.json` | record, find the active session, signal, clean up | `PilotSession` |
| Cloud guard (`cloud-deadline-guard.py`, deployed by `run-paired-hosts.py`) | in its memory: deadline, ready, the listing of the pass; `deadline-request.json` and `guard-ready.json` in its Pod | take an earlier deadline, acknowledge it, delete the GPU groups, then its own | `CloudGuard` |
| Staged budget (`router-session-budget.py`) | none | cost, spending cap, deadlines, admission | `StagedBudget` |
| Router comparison (`run-router-session.py`, other `router-session-*.py`, `tp4-client.py`) | session deadlines, budget record, trial artifacts, the picker's policy | bootstrap, shorten the deadlines, allocate both hosts; qualify, train, switch the picker, measure the held-out trials | `CloudGuard` up to the allocation; `RouterSession` from the qualification on |
| Staged, paired and single-host controllers (`run-tp4-staged.py`, `run-paired-hosts.py`, `run-single-host.py`) | as above | as above | what the router controller takes over from them, in `CloudGuard` and `RouterSession` |
| Engine epochs (`layout-engines.py`, `tp4-engines.py`, `layout-client.py`, `run-layout-local.py`) | processes and CUDA contexts of an epoch; files in two Pods | start, measure, collect, advance, drain | `LayoutSession` |
| CUDA IPC diagnostic (`run-ipc-diagnostic.py`, `raw-ipc.py`) | the record of a case; an exported allocation and its import; packets in two Pods | run a case, stop a role, next case in the same or in new Pods | `IpcDiagnostic` |
| Serving and measurements (`run-serving.py`, `run-measurements.py`, `run-policy-comparison.py`, `collect.py` and the validators) | `correctness-verified.json`, snapshots, reports, benchmark Pods | deploy, qualify with three requests, run timing arms and policy blocks, validate, delete | `ServingSession` over `Engines` |
| RDMA diagnostics, rendering, plan checks, reports | none that outlives a command | | not modelled |

How they interact: every launcher, guard and operator command is a process of
its own on one machine; they share the files of the session store and nothing
else.  The two locks are `flock`s: the operating system releases them when
their process ends, whatever the reason.  `teardown.sh` and the guard run in
operating-system sessions of their own and survive whoever started them.
Terraform serialises on the lock of its state, which all sessions share.
A router session has a second guard, a Pod on the CPU node of the rental.  It
shares nothing with the Mac but the provider's view of the node groups and two
small files in the Pod, which the controller writes and reads by `kubectl exec`.

On the rented machines a controller on the Mac orders programs that run in
Pods.  It starts them with `kubectl exec`, polls files and exit statuses,
copies results, and is told about requests only through counters on `/metrics`
pages, access logs and reports.  Those programs go on when their controller
gives up, or when the connection of a command breaks; the engines go on with
requests whose clients have gone; and containers restart underneath all of
them.  What a run may conclude from what it sees is the question of
`ServingSession` and `RouterSession`; that its processes and timers end in the
right order is the question of `LayoutSession` and `IpcDiagnostic`.

What is hard here: processes that die between two writes; three parties that
clean up the same session; a lock that does not cover the child process doing
the work; a stop request that races a launch; retries without end; a deadline
that two machines must agree on while one of them restarts and the other dies;
money turned into time at a rate that changes; counters
that lag and restart; a policy that is one thing in a ConfigMap and another in
a process; processes that cannot be killed and numbers that are used again;
four timers of which one must be last.  The list
with line numbers is `hazards` in `PROJECT.json`.

## Modules

`RentalLifecycle` (abstract) says what the store promises: one rental at a
time, admitted when none is open, closed in two steps (deletion verified, cost
settled), never coming back.

`BudgetLedger` (detailed) is the session store.  A step is one file write, or
one lock acquisition with the reads that follow it under the lock.

| Variable | Code |
|---|---|
| `ledger` | `budget.json`: approved total, and status, cost and verification time per attempt |
| `sessionFile`, `attemptFile`, `verified`, `costFile` | `session.json`, `attempt.json`, `cleanup-verified.json`, `cost-estimate.json` of a run directory |
| `legacyRun` | the top-level `attempt.json` from before the ledger |
| `budgetLock`, `cleanupLock` | `budget.lock` and `RUN_DIR/cleanup.lock` |
| `pc`, `request`, `target`, `mem` | where a process is; its arguments; its session; the budget dictionary it has read |

`prepare_session` is `RequestAdmission` (checks before the lock, start time),
`LoadBudget`, `ReconcileCost` for each pending attempt, `ChargeSpend`,
`ReserveSession`, `RecordAttempt`, `AdmitAttempt`; the cleanup is
`StartCleanup`, `AcquireCleanup`, `VerifyCleanup`, then `LoadForMark`,
`MarkAttemptFile`, `MarkLedger` (or `AlreadyCompleted`).  Every `SessionError`
and every kill is `Stop`: memory and locks go, files stay.

`PilotSession` composes the lifecycle with the processes around it.  Its
ledger variables are those of `RentalLifecycle` (INSTANCE), changed only by
that module's actions.  `launch`, `guard` and `clean` say where each launcher,
guard and cleaner is; `teardown` where the `teardown.sh` of each cleaner is,
which goes on when the cleaner is dead; `tfLock` holds the Terraform lock;
`cloud` is the set of sessions whose resources exist.

`StagedBudget` has the arithmetic of `router-session-budget.py` as operators:
what a session costs up to a time, at which rate, which deletion target the
money allows, and whether there is time for the comparison before it.  A unit
of time is as long as the rates say, amounts are whole numbers, and a division
rounds down as the code's `math.floor` does.

`CloudGuard` is a router session from its admission on.  The two parties and
the provider each have a place and share three things:

| Variable | Code |
|---|---|
| `stage`, `limit` | where `bootstrap`, `allocate_pair` and `reduce_deadline` are, and when their present wait ends |
| `session`, `requested` | the deadlines in `session.json`; the request time that the budget charges both hosts from |
| `mac`, `cleaning`, `localDeadline` | the Mac; whether a cleanup from it has begun; the deadline in `guard_run`'s memory |
| `guard`, `deadline`, `ready`, `seen`, `todo` | where the Pod's loop is, its deadline and flag, the groups it has listed and those left to delete (`gpu`) |
| `request`, `ack` | `deadline-request.json`, `guard-ready.json` |
| `groups`, `deleting`, `bill` | node groups that exist, those being deleted, what the provider charges |

`BootstrapCpu`, `DeployGuard`, `SeeArmed` are `bootstrap`; `ReduceDeadline`
(admission and saved deadlines), `ShortenGuard` (the request is written) and
`SeeShortened` (the wait for the answer) are `allocate_pair` up to the apply;
`StartApply`, `CreateGroup`, `ApplyReturns` the apply; `LeaveController` every
way out of it, which always ends in the cleanup of the `finally`.  One pass of
the Pod is `ListGroups`, then `Acknowledge` or `FailToAcknowledge`, then at the
deadline `DeleteGpu` or `DeletionFails` for each listed GPU group, or
`DeleteCpu` when there is none; `PassFails` is any other exception and
`RestartGuard` the container's restart.  The local guard and cleanup, which
`PilotSession` has in detail, are here one deadline and `LocalDestroy`.

`Engines` is what the measuring programs see of the deployment, none of which
is in the repository: requests in flight at each decoder (`flying`), transfer
counters (`done`) and the part of them that is shown (`shown`), container
restarts (`born`), the picker's ConfigMap and the policy it has loaded
(`configMap`, `epp`).  `truth` is a history variable: what the requests of
each piece of work really moved, on which containers, under which policy.  The
properties compare it with what the programs wrote down.

`ServingSession` is one serving session, from Terraform's result
(`run-serving.py`) over the first timing block (`run-measurements.py`) to the
blocks of a router policy (`run-policy-comparison.py`).

| Variable | Code |
|---|---|
| `pc`, `kind`, `late` | where the running program is; the request or plan item it works on; whether the deadline less its reserve is over |
| `base`, `sample`, `seen`, `full`, `snap` | `baseline_workers`; the last poll; the parts of a collection made so far; a collection; the settled snapshots of the work in hand |
| `marker`, `validated`, `attempt` | `correctness-verified.json`; items that passed validation; runs of the measuring programs |
| `pod`, `sent`, `call`, `log`, `report` | the benchmark Pod, its requests, the one being waited for, the access log, the report in the Pod or copied |

A settled snapshot is `FirstPoll`, then `Sleep` and `Poll` until two polls
agree, `CollectPods` and `CollectMetrics` (`collect.py`, in its order), and in
the correctness phase `LatePoll`.  `Ask` and `Answered` are a correctness
request, `WriteMarker` the verdict over all three.  `run_item` is `CreatePod`,
`SeeExit`, a second snapshot, `AcceptItem`, `NextItem`; any failure is `Abort`,
with `Preserve` and `DropPod` when a Pod is there.  The validators are
`Validate` and its parts: conditions on counters, rows, identities and
policies, without the formats they read.

`RouterSession` is the router comparison from the qualification on. The clock
`left` counts down to the cleanup deadline. `place` and `trial` are the
controller's, `client` is the job in the client Pod, a process of its own. A
job is `StartJob`, rounds of `LiveIdentity` and `SeeExit`, a drain, `Collect`;
a trial then `VerifyTrial` (`Joined`, `PinHonoured`, `TransferVerified`). A
policy is switched by `ApplyPicker`, `RolloutRestart`, `WaitDiscovery` and the
warmup. The client waits for idle engines (`ClientReads`, `ClientWaitsOn`),
sends (`ClientSends`), waits again and counts (`ClientCounts`), or is
interrupted when the harness's `max_seconds` are over, and killed.  A
qualification is another program (`router-session-qualify.py` over
`tp4-client.py`): one request after another to its decoder, each `QualifyAsks`,
`QualifyAnswered` and `QualifyCounts` (`Isolated`: the transfers are this
request's), with idle engines before each.  It is not refused for lack of time
at its start, has no limit as a whole, and an answer may stall until after the
deadline, or until the client's own timeout (`ClientFails`).  Its controller
waits `QualifyTime` for it and gives up.

`LayoutSession` has the processes of the engine container one by one
(`procs`, with number, epoch marker, pending signal and CUDA), the programs
`layout-engines.py` (`sup`, `drain`), `tp4-engines.py` (`engine`),
`layout-client.py` (`client`) and `run-layout-local.py` (`ctl`), and the files
they talk through (`files`).  `stop_epoch` is `Terminate`, `WaitChild`,
`WaitKilled`, and `drain_epoch` is rounds of `ListProcesses`, then `LookUp` and
`SignalPid` for each listed process, `QueryGpu` and `LookAgain`.  Looking a
process up again and signalling its number are two steps, between which the
process may go and another take the number (`reused` notes that it has).
`QueryGpu` may leave the drain waiting for an `nvidia-smi` that has been killed
and does not end (`stuck`), until `QueryDies`, which is never assumed.  An
epoch's evidence is copied by `CopyEngines` and `CopyClient`, of which either may
fail without the other; `Collected` goes on when neither has.

`IpcDiagnostic` has a clock per case, the two `raw-ipc.py` processes
(`exporter`, `importer`), their acknowledgement file in either Pod (`done`,
`doneBack`), the coordinator and its record of the case (`seen`).  `run_case`
is `StartCase` to `FinishCase`, in the code's order, every command with its
timeout and with a connection that may break before or after the remote
process has done its part.

`SingleHost` composes the two: a rented host runs the one its session was
admitted for.

The `MC` modules give the constants values.  The modules ending in `Proofs`
hold the theorems, `Sums` the lemmas about sums over finite sets.

Definitions called "Faulty variant" in a comment are not part of the model:
each is a plausible mistake in the definition after it, and exists to show
that a property notices it.

## What is checked

| Run | Question | Bounds |
|---|---|---|
| `launchers` | one open attempt, a single-attempt approval used once, types | 2 launchers, 1 cleaner, 2 sessions, 2 clock values, a single-attempt and a lowering approval |
| `cleaners` | charges follow verified deletion within the rate bound and stay within the approved total, `attempt.json` leads, nothing is forgotten, `BudgetLedger` implements `RentalLifecycle` | 1 launcher, 2 cleaners, 3 clock values, so that a cost of 2 is above, at and below its bound; approvals of 5 and 3 with admissions of 2, so that the third admission and the lowering are refused; with a legacy attempt that has cost 2 and without |
| `pilot_safety` | a marker means deleted, billing belongs to the open attempt, nothing exists unguarded, a destroy never takes another session's resources | 2 sessions, an operator and the emergency stop; launcher and stop may die |
| `pilot_alive` | a guarded session is deleted in the end, and an emergency stop deletes in the end | 1 session, an operator and the emergency stop; everybody may die, which the properties allow only of the guard and of the stop themselves |
| `guard_safety` | the cloud guard works to the session's deadline, outlives the GPUs and deletes them unless the Mac's own cleanup does, the bill stays within the cap, nothing is created late, no deadline moves later | 4 units of time, with admissions funded and refused; the Mac and the container may die at any time |
| `serving` | the marker and the validated items are true, ran on the same containers and under the declared policy; validated reports are kept | 3 correctness requests, an arm for each decoder and one policy block; two incidents, one rerun; requests that transfer once, not at all or with a failure |
| `router` | one picker per verified trial, its own transfers, no trial's benchmark at the deadline | a qualification of 2 requests, a training trial and a held-out trial of 2 requests, one picker switch; 6 units to the deadline; one incident |
| `single_host` | epochs do not overlap, drains signal their own, stops end, a qualified session is whole; imports are backed, cases end and do not meet | 2 epochs of 2 requests, 3 process numbers, as many as an epoch has processes, so that a probe takes one that was listed; one probe, one crash; IPC timers in the order of the code's, in units that let each run out before, with and after its neighbours |
| `paused`, `teardowns`, `marked`, `guard_removed` | four statements of the documents the code does not keep | as small as shows it |

Two sessions are enough for what relates sessions: the open attempt and the
next one; a third only repeats the second.  Two launchers or two cleaners are
enough for a race on a lock.  The clock needs values below, at and above a
deadline.  Deadlock is not checked: nobody is obliged to launch anything, the
clock is bounded, and a session that has ended leaves the system at rest.

Two decoders are what the programs name, `local` and `remote`.  One or two
incidents (a restart, an edit, an engine that dies) at any point: one is
enough for what a single check must notice, two for a policy that is switched
and switched back.  Two epochs are an epoch and the
one it must not reach; the process numbers are few enough to be used again
while an old listing still names them.

Fairness (`FairSpec`, used for liveness only).  Weak fairness of each
process's own steps: they are running programs and the machine schedules them
(SESSION.md asks to keep it awake).  Deadlines pass.  Strong fairness of
"some destroy starts", "some destroy finishes" and "some verification
succeeds": terraform and the listings may fail any number of times, but not
for ever.  Starting a launch, a cleanup by hand or an emergency stop is never
assumed.  Without strong fairness no retry loop can promise deletion, and
the code says so too: "deletion-only retries continue until verification
succeeds".

Assumptions of `PilotSession`, each a comment where it is made.  A guard
deadline does not pass, and no teardown reaches its destroy, in the
milliseconds between the launcher's last check and its `terraform apply`: the
code does not enforce this, it would fail if the machine slept there.  All
resources of a session are one unit.  Deadlines and timeouts are otherwise
arbitrary.  `ScopedDestroy` speaks of cleaners that are alive: one that
dies leaves its teardown behind, which could then be delayed into the next
session (see the second finding).

In `CloudGuard` the fairness is the Pod's: strong fairness of its listing, its
acknowledgement and each deletion, since its container may be restarted at any
step and its calls may fail, but neither for ever (`restartPolicy: Always`,
and the loop catches every exception); `RestartGuard` itself is never assumed.
Time passes, deletions under way end, and the Mac's timeouts and cleanup go on
as long as it lives.

Assumptions of `CloudGuard`.  The machines agree on the time.  A pass of the
Pod acts on its listing before time moves on (`Tick`): between them are only
file accesses, and a guard that is paused there for as long as the work time
could delete its node on an old listing.  The waits between admission and the
end of the apply, 92 seconds for the calls and polls of the acknowledgement and 31.5
minutes for the placement, together are shorter than the 76 minutes of work
time (`GuardAssumption`).  The support rate is billed throughout.  A node
group exists from the provider's answer to its creation, so a call in flight
when the Mac dies is not there.  A manual stop and the first-measurement
deadline, which make the local guard clean up earlier, are in `PilotSession`
only; here `LeaveController` covers them.

`LayoutSession` has one fairness assumption: `layout-engines.py` keeps running
(`WF(Restarting)`).  Its waits end by their time limits, which are steps of its
own, so `StopEnds` holds even if no signalled process ever dies.  The exception
it makes is an `nvidia-smi` that never ends: `subprocess.run` with its timeout
of ten seconds kills the command and then waits for it without a limit.
`CaseEnds`, that a case of the CUDA IPC diagnostic finishes, needs no more than
that the diagnostic does not stop altogether (`WF(DiagnoseIpc)`): time passes
or some program of it takes a step.  That a driver call returns, or that a
process can be killed, is not assumed.

Assumption of `RouterSession` on time.  Between its look at the clock and the
beginning of a trial's benchmark the client reads all `/metrics` pages.  If
that takes no longer than `ReadTime`, reading, benchmark and kill fit into the
180 seconds that the idle wait keeps (`RouterAssumption`; a trial has at most 90
seconds, the kill 15).  The code does not enforce it: `get` has a timeout of 30
seconds for each silence of a server, and none for a page.  The model therefore
lets a reading take any time, and `NoneCutOff` speaks of benchmarks whose pages
were read in time (`slow`).

Assumptions of the measuring modules.  A `/metrics` page shows what was done
before the last settle interval (`run-serving.py` and `run-measurements.py`
choose it for that); gauges of the picker count a request as long as its client
waits.  An operator starts a measuring program again only when the Pod of the
last attempt is gone; its requests may still run.  A container that restarts while requests
arrive is noticed by the next look at it; a restart in place after the last
look of a trial is not, and `OnePicker` says so.  A warmup that timed out is
retried and nothing waits for its late transfers: `TransfersAccounted` excepts
trials after such a retry.  A request makes at most one transfer if none of its
transfers fails (`TransferAssumption`).  The plan of a serving session has its
policy blocks after its timing arms, as a policy block asks for the record of a
finished timing block (`ServingAssumption`); `NoneAssumption` only says that
`None` is not one of the values it stands in for.  In `IpcDiagnostic` a command whose connection has ended
does not start in the Pod later, and the time limits have the order of the
code's (`IpcAssumption`): 15 + 5 + 45 + 5 + 5 + 12 seconds until the consumer
is stopped, against the producer's alarm after 90.  With equality an import
could lose its export; the margin is three seconds.

### What the modelling showed besides

Not disagreements with any document, but worth knowing beside the code.
`run-measurements.py` takes its worker baseline anew and does not compare it
with the one in the marker, so a restart between the two programs passes.
`preserve_failure` takes the existence of `collection.json` for the copy of the
reports, even when that copy failed: an item that has *not* been validated may
lose its report (`ValidatedRetained` therefore speaks of validated ones).  A
`kubectl apply` that fails after it has created the Pod leaves the Pod running,
since `run_item` takes it for not applied.  After a failed drain
`layout-engines.py` drains once more from its `finally`, so `shutdown.json` may
change from false to true before `layout-failure.json` appears; the controller
reads the failure file first in each round, and may still see the epoch as
drained.  The 120 seconds that a router job keeps in reserve are the ones in
which `call` refuses every command, so they are the cleanup's and not the
collection's.  A qualification has no limit that its client keeps: `request`
tests the deadline before it connects and at each received line, and a server
that goes silent after a line may hold it for up to 300 seconds more, while the
controller gives up after 240.  It may then still run at the deadline, in Pods
that are about to be deleted; nothing it leaves is read any more.
`nvidia-smi` in `layout-engines.py` is waited for without a limit once its ten
seconds are over, so a driver that hangs holds up the end of an epoch, and the
controller's timeouts are what ends the session.  A comment there says "Never
signal a different process if it replaced the observed PID" (line 52), but the
second look at a listed process is a scan of all of `/proc` (line 53) and the
signal goes to the number afterwards (line 55): a process that has taken the
number in between is signalled, and TLC finds it if `SignalsOwn` is stated
without its exception.  The property says that there is no other gap.

### Disagreements between code and documents

1. `paused`: `stop-active.py` says "Future launches are paused by the
   manual-stop record", but a launcher that has passed the only test of that
   record (`pilot-session.py:748`, before it waits for `budget.lock`) is
   admitted afterwards and applies.
2. `teardowns`: "The guard and normal cleanup share a lock" (SESSION.md), but
   the lock is the Python process's, and its `teardown.sh` outlives it: an
   interrupted cleaner leaves a teardown running while the next one starts a
   second.
3. `marked`: "Cleanup completion marks the attempt as awaiting cost
   accounting" (SESSION.md), but a cleaner that dies between the marker and
   the ledger leaves the attempt active, and the guard leaves on the marker
   without marking.  Somebody has to run the cleanup again.
4. `guard_removed`: "It does not depend on the Mac or conversation remaining
   alive" (PAIRED-LOCALITY.md, of the cloud guard), but the cleanup from the
   Mac is one `terraform destroy`, in which the CPU node group depends on
   neither GPU group.  It may delete the guard's node first; a Mac that dies
   then leaves GPU groups that nobody deletes.

## What is proved

`BudgetLedgerProofs`, for every set of sessions, processes and approvals and
every clock bound, from the four assumptions on the constants
(`StoreAssumption`, `ApprovalAssumption`, `AdmissionCoversTarget`,
`NoFileAssumption`).

`NoOverlap` and the others are not inductive: that an admission keeps
`NoOverlap` needs that the ledger on disk is still the one in the launcher's
memory, settled, when it is written several steps later.  `Inv` adds what
makes that so: `budget.lock` is held exactly by the process in its critical
section (`BudgetLockInv`); a cleaner past `cleanup.lock` holds it and knows
the marker (`CleanupLockInv`); every attempt in the ledger has the files
behind it (`RunDirInv`); and what a launcher or cleaner holds in memory agrees
with the disk but for the change it is about to write (`LauncherInv`,
`CleanerInv`).  One lemma per action shows that it preserves `Inv`; `Invariance`
combines them; `TypeCorrect`, `OverlapProhibited`, `ChargesAreBounded`,
`AttemptFilesLead` and `ApprovalUsedOnce` are its consequences.
`LedgerNeverForgets` is the action property, and `ImplementsLifecycle` the
refinement: one lemma per action that changes the ledger shows that it is a
step of `RentalLifecycle` or a stutter.

`SpendingWithinBudget` is about a sum over all attempts and has an invariant of
its own, `SpendingInv`: while every charge stays within its reserve, the total
covers what has been charged and one admission more, for the attempt that is
open or that a launcher is about to enter (`ReserveInv`); a launcher inside the
lock works with the total its approval has set (`ApprovedInv`); and finitely
many attempts ever entered the ledger (`AttemptsInv`), without which their sum
would be no number.

`Sums` has what both kinds of sum need.  `MapThenSumSet` and `SumFunction` are
recursive functions in the community modules, and the library's induction
theorems take an operator as a parameter, which the provers cannot instantiate.
`SubsetInduction` takes a set in its place, the set of the subsets that have
the property, and is proved from a smallest counterexample
(`SmallestSubset`, from the well-founded order of the subsets of a finite set).
From it follow `SumWithout` (taking one element out), `SumIsNat`, `SameTerms`,
`MoreTerms` and `ForcedTerms`.

`CloudGuardProofs` begins with `StagedBudget`, from `RateAssumption`: the cost of a session grows by its
rate (`CostGrows`), a quotient times its divisor is no more than the dividend
(`QuotientBound`), hence `DeadlinesAreFunded`: at the deletion target that
`deadlines` returns, whichever hosts are requested, the session has cost no
more than the cap less the margin.

For `CloudGuard` itself, from that and `GuardAssumption`, for all rates, budgets,
times and timeouts.  The properties of `CloudGuard` are not inductive either;
`Inv` adds: before the admission there are no GPU groups and no request, and
after it the work time lies between the request and the cleanup deadline
(`PhaseInv`); whatever the Pod remembers is the original deadline or the
session's, and the session's where the controller has relied on it
(`HandshakeInv`); a living controller is within its waits (`TimingInv`); the
listing of a Pod that is past the deadline has every GPU group, because none
can have been created since (`NodeInv`, which needs `PhaseInv` and
`TimingInv`: this is where the sum of the timeouts matters); and the bill is at
most the budget's estimate (`BillInv`).  One lemma per action shows that it
preserves `Inv`, `GuardInvariance` combines them.  `GuardTypeCorrect`,
`GuardAlwaysAgrees`, `GuardNodeIsLast` and `BillIsFunded` are consequences;
`CreationIsInTime` and `DeadlinesOnlyShorten` are the two action properties.

`PilotSessionProofs`, from `PilotAssumption`, for any sessions, operators and
kinds of process that may be killed (`Mortal`).  That a verified session stays
deleted is not inductive: a teardown that has seen the project empty must still
be right when its cleaner writes the marker, steps later.  `PilotInv` adds what
makes it so: a session in cleanup has a launcher that will not start an apply
any more, because it has, because it is gone, or because it will see the stop
request (`Stopping`, in `CleanerInv`); the apply and the teardowns hold
Terraform's lock while they change anything (`StateLockInv`); what a teardown
has destroyed or found empty stays so (`DeletedInv`); a cleaner holds the lock
of its session from its first teardown to the marker (`CleanerInv`), and comes
and goes with its guard or launcher (`OwnersInv`); and resources have a guard
that started before them (`AttendedInv`).  `PilotTypeCorrect`,
`VerifiedAreDeleted` and `OnlyOpenIsBilled` hold whoever is killed;
`AlwaysAttended` assumes that no guard is; `DestroysAreScoped` is the action
property.

`RouterSessionProofs`, from `RouterAssumption`, for all jobs in the order of
the controller's plan (qualifications, then training under one policy, then
held-out trials), all policies, decoders, sizes and time limits.  `RouterInv`
adds: the time a trial's benchmark may still take is left on the clock from
its last look at the engines on, unless that look was slow (`ClockInv`, where the
reserve of the idle wait matters); requests in flight and answered rows together are no more than were
sent, and a job that is given up leaves its requests to nobody (`JobInv`,
`CountInv`, by the cardinality of what is in flight); the picker has loaded the
job's policy from its admission to its collection, and so has every request it
served (`PolicyInv`, `TruthInv`); and what is verified is over (`VerifiedInv`).
Consequences are `RouterTypeCorrect`, `NoneIsCutOff` and `PolicyIsReported`,
the first half of `OnePicker`.

What a verified trial says of its requests needs a second invariant,
`AccountInv`, and `TransferAssumption`.  Rows disappear with the router's Pod
alone, so a log that has a row for each answer (`Whole`) is a log that has been
there from the first request on; a controller in the middle of a job may then
rely on its looks at the containers, or else the restart is noted as too late
(`PickerInv`).  Between jobs, and between the requests of a qualification, the
engines are at rest, unless a warmup was retried: each piece of work hands them
to the next as it found them, a request of a qualification because its one
transfer is waited for (`Isolated`), a trial because it was verified, a warmup
because the one transfer that is seen is the only one there can be (`QuietInv`,
`Warming`).  During a trial all that the engines count is the trial's, and a
decoder that has failed no transfer has made no more of them than it has
answered requests; so pages that show as many as there are rows, on each
decoder, show everything (`MovedInv`).  That a total equal to the number of
requests leaves no decoder behind, and no row unread, is `ForcedTerms` of
`Sums`: of two sums with terms in order, equal sums have equal terms.
`AccountInvariance` combines this, `PickerIsOne` and `TransfersAreTrue` are
`OnePicker` and `TransfersAccounted`.

`TransferAssumption` is needed: a request pulls its prefilled cache in one
transfer, and in another only where one has failed.  With requests that
may succeed twice TLC finds a trial of two requests that is verified when the
first one's two transfers are shown and the second one's are not.  The code
compares the number of bytes too, which does not tell requests of one size
apart.

`ServingSessionProofs`, from `ServingAssumption` and `NoneAssumption`, for all
plans that run the arms before the policy blocks, all policies, outcomes of a
request, attempts and incidents.  `ServingInv` adds: what settles is true,
since two equal samples with no request in them enclose one reporting interval
in which nothing was done (`SettleInv`); whose requests may be in an engine at
each place (`SenderInv`); that from a settled snapshot on the pages differ by
what the kind in hand has moved and by nothing else, as long as the containers
are those of the baseline (`QualifyInv`, `MeasureInv`: a restart sets counters
to zero and makes `base` differ from `Who`, so both sides of the implication
are needed in every step); that a request that was received has its row or is
still waited for (`RowsInv`); and that the second snapshot of an item has all
there is to judge it by (`JudgeInv`).  A program that is started anew takes a
new baseline; that its items are compared with their own baseline rests on the
order of the plan (`ValidatedInv`).  `ServingTypeCorrect`, `MarkerIsTruthful`,
`ArmsAreTruthful`, `WorkersAreTheSame` and `PolicyIsHeld` are consequences, and
`ValidatedAreRetained` is the action property.

`LayoutSessionProofs`, from `LayoutAssumption`, for all numbers of epochs,
requests, process numbers, rounds and crashes.  `LayoutInv` adds: the container's
processes are of the current epoch or of none, with numbers and roles of their
own, and a process that has taken the number of one looked up again is noted as
such (`ProcsInv`); between two epochs none of an epoch is left (`EmptyInv`); a
drain that found the GPU free, and was neither a failure's nor the Pod's end,
keeps it free, because the one worker has come and nobody follows it
(`DrainInv`, `EpochInv`); controller and supervisor are in the same epoch while
it is measured (`EpochInv`), so each answer is of that epoch, and an epoch that
is left behind has both copies (`ResultsInv`).

`SingleHostProofs` begins with `IpcDiagnostic`, from `IpcAssumption`, for all time limits in that order.
`IpcInv` adds the sums: by when the consumer's command has ended, its
acknowledgement been looked for, its stop been tried (`TimersInv`), each before
the producer's alarm; that a consumer which may hold an import is watched or
recorded as unconfirmed (`WatchInv`); that an acknowledgement is of a process
that has ended (`RolesInv`); and which cases may still come (`CasesInv`).

It then composes the two programs: a step of the host is a step of each
program or leaves it alone, so both invariants hold together
(`HostInvariance`), and with them the types and the safety properties of both
(`HostIsSafe`).

A convention of these modules: an optional number is typed by a disjunction,
`x = None \/ x \in Int`.  The SMT translation takes `x \in Int \cup {None}` for
a statement about the type of `x`, and a proof of the case `x = None` would
then be empty.

Model-checked only.  All liveness (`EventuallyDeleted`, `StopDeletes`,
`StopEnds`, `CaseEnds`, `GuardSuffices`) needs fairness and ENABLED, which the prover does
not reason about.  Every invariant and every action property of a passing run is
also a theorem.

## Not modelled

The RDMA diagnostics (`run-rdma-read.py`, `run-rdma-serving.py`) run one
command after another, and nothing of theirs outlives a command.  The contents
of plans and approvals beyond what admission compares, rendering, the answer
suite and the evidence reports are pure functions of data files with no state.
The choice of the held-out router trials and the comparison of layouts are
arithmetic over measured latencies.  The staged, paired and single-host
controllers are modelled in what `run-router-session.py` imports from them;
their own comparisons are shorter sequences of the same steps.  Placement
polling (`wait_for_allocation`) is one choice of `PilotSession`: its count of
tolerated errors and its look for the stop record each round are not there, so
no property would notice a mistake in them.  Nor would one notice a stop between
the launcher's last check and its apply, which `PilotSession` assumes away.  Kubernetes and
Terraform text and the recorded results are data.
