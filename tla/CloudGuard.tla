------------------------------ MODULE CloudGuard ------------------------------
(***************************************************************************)
(* Two guards of one router session: the controller on the Mac             *)
(* (infra/topology/run-router-session.py) brings up a CPU node with a      *)
(* guard Pod (cloud-deadline-guard.py), turns the remaining money into an  *)
(* earlier deadline, has the Pod acknowledge it, and only then requests    *)
(* the two GPU node groups.  The Pod deletes the groups at the deadline,   *)
(* the local guard and the controller's own cleanup do so from the Mac.    *)
(*                                                                         *)
(* The Mac may die, the guard's container may restart, every call may      *)
(* fail.  PilotSession has the local guard and cleanup in detail; here     *)
(* they are a deadline and the order-free deletion of what is there.       *)
(***************************************************************************)
EXTENDS StagedBudget

CONSTANTS
  OriginalTarget,  \* deletion target of the admission; the session starts at 0
  Remaining,       \* remaining budget at the admission
  AckTime,         \* longest the controller waits for an acknowledgement
  Placement,       \* longest a terraform apply is left running
  EndOfTime,       \* bound on the clock, for TLC
  MacDies,         \* when the Mac may die: a subset of {"working", "cleaning"}
  None             \* no request, no acknowledgement

Gpu    == {"local", "remote"}
Group  == Gpu \cup {"cpu"}
Record == [deadline : Int, gpus : SUBSET Gpu]  \* of guard-ready.json

(* An acknowledged apply is over before the work time is: 92 seconds for   *)
(* the calls and polls of reduce_deadline and 30 minutes of placement with *)
(* 90 seconds for the interrupt, against 76 minutes.                       *)
ASSUME GuardAssumption ==
  /\ {OriginalTarget, Remaining, AckTime, Placement, EndOfTime} \subseteq Nat
  /\ AckTime + Placement < Work
  /\ OriginalTarget <= EndOfTime
  /\ MacDies \subseteq {"working", "cleaning"}
  /\ None \notin Int /\ None \notin Record

VARIABLES
  now,            \* time.time(); the machines agree on it
  mac,            \* the Mac is alive
  stage,          \* where the controller is
  session,        \* the deadlines in session.json
  requested,      \* request time of both GPU groups, as the budget has it
  limit,          \* when the present wait of the controller times out
  cleaning,       \* a cleanup from the Mac has begun
  localDeadline,  \* the local guard's deadline
  groups,         \* node groups that exist
  deleting,       \* those whose deletion is under way
  guard,          \* where the cloud guard is in its pass
  deadline, ready, seen, todo,  \* its memory: deadline, ready, listing, gpu
  request, ack,   \* deadline-request.json and guard-ready.json in /results
  bill            \* what the provider charges

controllerVars == <<stage, session, requested, limit>>
macVars        == <<mac, cleaning, localDeadline>>
memoryVars     == <<deadline, ready, seen, todo>>
podVars        == <<guard, memoryVars, request, ack>>
groupVars      == <<groups, deleting>>
clockVars      == <<now, bill>>
guardVars      == <<controllerVars, macVars, podVars, groupVars, clockVars>>

OriginalCleanup == OriginalTarget - Cleanup
SessionCap      == SpendingCap(Remaining)

(* The controller is between its budget record and the end of the apply. *)
Timed     == {"reduced", "shortening", "acked", "applying"}
PodRuns   == guard \notin {"absent", "gone"}
GpuGroups == groups \cap Gpu

Init ==
  /\ now = 0 /\ bill = 0
  /\ mac = TRUE /\ cleaning = FALSE /\ localDeadline = OriginalCleanup
  /\ stage = "admitted"
  /\ session = [cleanup |-> OriginalCleanup, target |-> OriginalTarget]
  /\ requested = NotRequested /\ limit = 0
  /\ groups = {} /\ deleting = {}
  /\ guard = "absent"
  /\ deadline = OriginalCleanup /\ ready = FALSE /\ seen = {} /\ todo = {}
  /\ request = None /\ ack = None

-----------------------------------------------------------------------------
(* Controller: bootstrap, allocate_pair, reduce_deadline, apply_plan *)

Advance(from, to) == mac /\ stage = from /\ stage' = to

(* The constructor refuses a session without funds. *)
BootstrapCpu ==
  /\ Funded(Remaining)
  /\ Advance("admitted", "cpu")
  /\ groups' = groups \cup {"cpu"}
  /\ UNCHANGED <<session, requested, limit, macVars, podVars, deleting, clockVars>>

DeployGuard ==
  /\ Advance("cpu", "arming")
  /\ "cpu" \in groups
  /\ guard' = "asleep"
  /\ UNCHANGED <<session, requested, limit, macVars, memoryVars, request, ack,
                 groupVars, clockVars>>

(* Faulty variant: any record of the guard will do. *)
AcknowledgedOnce == PodRuns /\ ack # None

(* The Pod's record, from its log or its file, is of the session's deadline *)
(* and was made when no GPU group existed.                                  *)
Acknowledged ==
  /\ PodRuns
  /\ ack # None
  /\ ack.deadline = session.cleanup
  /\ ack.gpus = {}

SeeArmed ==
  /\ Advance("arming", "armed")
  /\ Acknowledged
  /\ UNCHANGED <<session, requested, limit, macVars, podVars, groupVars, clockVars>>

(* admit_pair, and the deadlines it returns saved in session.json. *)
ReduceDeadline ==
  LET target == Target(0, now, now, now, OriginalTarget, SessionCap) IN
  /\ Advance("armed", "reduced")
  /\ AdmitsPair(0, now, OriginalTarget, SessionCap)
  /\ session' = [cleanup |-> target - Cleanup, target |-> target]
  /\ requested' = now
  /\ limit' = now + AckTime
  /\ UNCHANGED <<macVars, podVars, groupVars, clockVars>>

ShortenGuard ==
  /\ Advance("reduced", "shortening")
  /\ PodRuns
  /\ request' = session.cleanup
  /\ UNCHANGED <<session, requested, limit, macVars, guard, memoryVars, ack,
                 groupVars, clockVars>>

SeeShortened ==
  /\ Advance("shortening", "acked")
  /\ Acknowledged
  /\ UNCHANGED <<session, requested, limit, macVars, podVars, groupVars, clockVars>>

StartApply ==
  /\ Advance("acked", "applying")
  /\ limit' = now + Placement
  /\ UNCHANGED <<session, requested, macVars, podVars, groupVars, clockVars>>

(* Both groups are requested at once; each comes when the provider has it. *)
CreateGroup(g) ==
  /\ mac
  /\ stage = "applying"
  /\ g \in Gpu \ groups
  /\ groups' = groups \cup {g}
  /\ UNCHANGED <<controllerVars, macVars, podVars, deleting, clockVars>>

ApplyReturns ==
  /\ Advance("applying", "serving")
  /\ Gpu \subseteq groups
  /\ UNCHANGED <<session, requested, limit, macVars, podVars, groupVars, clockVars>>

(* Done, refused, failed or out of time: the cleanup of the "finally". *)
LeaveController ==
  /\ mac
  /\ stage # "left"
  /\ stage' = "left"
  /\ cleaning' = TRUE
  /\ UNCHANGED <<session, requested, limit, mac, localDeadline, podVars,
                 groupVars, clockVars>>

TimeOut == stage \in Timed /\ now >= limit /\ LeaveController

-----------------------------------------------------------------------------
(* The Mac: local guard, cleanup, death *)

(* guard_run takes the earlier of its own and the saved deadline. *)
LocalGuardPass ==
  /\ mac /\ ~cleaning
  /\ localDeadline' = IF session.cleanup < localDeadline THEN session.cleanup
                                                         ELSE localDeadline
  /\ cleaning' = (now >= localDeadline')
  /\ UNCHANGED <<mac, controllerVars, podVars, groupVars, clockVars>>

(* Terraform destroys independent groups in any order, when no apply holds *)
(* its state.                                                              *)
LocalDestroy(g) ==
  /\ mac /\ cleaning
  /\ stage # "applying"
  /\ g \in groups \ deleting
  /\ deleting' = deleting \cup {g}
  /\ UNCHANGED <<controllerVars, macVars, podVars, groups, clockVars>>

MacStops ==
  /\ mac
  /\ (IF cleaning THEN "cleaning" ELSE "working") \in MacDies
  /\ mac' = FALSE
  /\ UNCHANGED <<controllerVars, cleaning, localDeadline, podVars, groupVars,
                 clockVars>>

-----------------------------------------------------------------------------
(* The guard Pod: one pass of its loop, between two sleeps *)

EndPass == guard' = "asleep" /\ seen' = {} /\ todo' = {}

ListGroups ==
  /\ guard = "asleep"
  /\ guard' = "listed"
  /\ seen' = groups
  /\ UNCHANGED <<deadline, ready, todo, request, ack, controllerVars, macVars,
                 groupVars, clockVars>>

(* A request for a later deadline is rejected; the present one stays. *)
Shortened(current) ==
  IF request # None /\ request <= current THEN request ELSE current

(* At the deadline the listed GPU groups are to be deleted. *)
Decide ==
  IF now < deadline' THEN EndPass
  ELSE guard' = "deleting" /\ todo' = seen \cap Gpu /\ UNCHANGED seen

(* Faulty variant: deadline-request.json is looked at only when ready. *)
AcknowledgeFirst ==
  /\ guard = "listed"
  /\ "cpu" \in seen
  /\ deadline' = IF ready THEN Shortened(deadline) ELSE deadline
  /\ ack' = IF ready /\ deadline' = deadline
            THEN ack ELSE [deadline |-> deadline', gpus |-> seen \cap Gpu]
  /\ ready' = TRUE
  /\ Decide
  /\ UNCHANGED <<request, controllerVars, macVars, groupVars, clockVars>>

(* Reads the request, and writes a record when the deadline is new and its *)
(* own group is listed.                                                    *)
RecordIsCurrent == ready /\ Shortened(deadline) = deadline

Acknowledge ==
  /\ guard = "listed"
  /\ RecordIsCurrent \/ "cpu" \in seen
  /\ deadline' = Shortened(deadline)
  /\ ack' = IF RecordIsCurrent THEN ack
            ELSE [deadline |-> deadline', gpus |-> seen \cap Gpu]
  /\ ready' = TRUE
  /\ Decide
  /\ UNCHANGED <<request, controllerVars, macVars, groupVars, clockVars>>

(* Its own group is not listed, or the record cannot be written. *)
FailToAcknowledge ==
  /\ guard = "listed"
  /\ ~RecordIsCurrent
  /\ deadline' = Shortened(deadline)
  /\ ready' = FALSE
  /\ EndPass
  /\ UNCHANGED <<request, ack, controllerVars, macVars, groupVars, clockVars>>

(* The listed GPU groups, local first; a failed call is left to the next pass. *)
NextDeletion(g) ==
  /\ guard = "deleting"
  /\ g \in todo
  /\ g = "local" \/ "local" \notin todo
  /\ IF todo = {g} THEN EndPass
     ELSE todo' = todo \ {g} /\ UNCHANGED <<guard, seen>>
  /\ UNCHANGED <<deadline, ready, request, ack, controllerVars, macVars, groups,
                 clockVars>>

(* Faulty variant: what is not there is deleted, too. *)
DeleteListed(g) == NextDeletion(g) /\ deleting' = deleting \cup {g}

DeleteGpu(g) ==
  /\ NextDeletion(g)
  /\ deleting' = deleting \cup ({g} \cap groups)

DeletionFails(g) == NextDeletion(g) /\ UNCHANGED deleting

(* Faulty variant: the deletion of the listed groups has been requested. *)
NoGpuSeenPending == todo \subseteq deleting

(* Both GPU groups are absent from the listing. *)
NoGpuSeen == todo = {}

(* Then its own group, once; or the call fails. *)
DeleteCpu ==
  /\ guard = "deleting"
  /\ NoGpuSeen
  /\ \/ deleting' = deleting \cup ({"cpu"} \cap seen \cap groups)
     \/ UNCHANGED deleting
  /\ EndPass
  /\ UNCHANGED <<deadline, ready, request, ack, controllerVars, macVars, groups,
                 clockVars>>

(* Any other exception ends the pass. *)
PassFails ==
  /\ guard \in {"listed", "deleting"}
  /\ EndPass
  /\ UNCHANGED <<deadline, ready, request, ack, controllerVars, macVars,
                 groupVars, clockVars>>

(* Faulty variant: restartPolicy Never. *)
RestartNever ==
  /\ PodRuns
  /\ guard' = "gone" /\ seen' = {} /\ todo' = {}
  /\ UNCHANGED <<deadline, ready, request, ack, controllerVars, macVars,
                 groupVars, clockVars>>

(* restartPolicy Always: the files stay, the memory starts from the command *)
(* line.                                                                    *)
RestartGuard ==
  /\ PodRuns
  /\ EndPass
  /\ deadline' = OriginalCleanup /\ ready' = FALSE
  /\ UNCHANGED <<request, ack, controllerVars, macVars, groupVars, clockVars>>

-----------------------------------------------------------------------------
(* Provider and clock *)

(* The Pod is evicted when its node goes. *)
EvictGuard ==
  /\ PodRuns
  /\ "cpu" \in deleting
  /\ guard' = "gone" /\ seen' = {} /\ todo' = {}
  /\ UNCHANGED <<deadline, ready, request, ack, controllerVars, macVars,
                 groupVars, clockVars>>

Vanish(g) ==
  /\ g \in deleting
  /\ g = "cpu" => ~PodRuns
  /\ deleting' = deleting \ {g}
  /\ groups' = groups \ {g}
  /\ UNCHANGED <<controllerVars, macVars, podVars, clockVars>>

Charge(g) == IF g \in groups THEN GpuRate ELSE 0

(* Waits end in time, and a pass uses its listing at once: there are only *)
(* file accesses between them.                                            *)
Tick ==
  /\ now < EndOfTime
  /\ guard # "listed"
  /\ mac /\ stage \in Timed => now < limit
  /\ now' = now + 1
  /\ bill' = bill + SupportRate + Charge("local") + Charge("remote")
  /\ UNCHANGED <<controllerVars, macVars, podVars, groupVars>>

-----------------------------------------------------------------------------
Controller == \/ BootstrapCpu \/ DeployGuard \/ SeeArmed \/ ReduceDeadline
              \/ ShortenGuard \/ SeeShortened \/ StartApply
              \/ (\E g \in Gpu : CreateGroup(g))
              \/ ApplyReturns \/ LeaveController
Mac        == LocalGuardPass \/ MacStops \/ \E g \in Group : LocalDestroy(g)
Pod        == \/ ListGroups \/ Acknowledge \/ FailToAcknowledge \/ DeleteCpu
              \/ (\E g \in Gpu : DeleteGpu(g) \/ DeletionFails(g))
              \/ PassFails \/ RestartGuard
Provider   == EvictGuard \/ Tick \/ \E g \in Group : Vanish(g)

Next == Controller \/ Mac \/ Pod \/ Provider
Spec == Init /\ [][Next]_guardVars

(* The Pod's calls succeed again and again although it may restart in       *)
(* between (restartPolicy); the controller's timeouts, a cleanup from the   *)
(* Mac, deletions under way and time all go on.                             *)
Fairness ==
  /\ SF_guardVars(Tick) /\ WF_guardVars(TimeOut)
  /\ \A g \in Group : WF_guardVars(Vanish(g)) /\ WF_guardVars(LocalDestroy(g))
  /\ SF_guardVars(ListGroups) /\ SF_guardVars(Acknowledge)
  /\ \A g \in Gpu : SF_guardVars(DeleteGpu(g))
FairSpec == Spec /\ Fairness

-----------------------------------------------------------------------------
(* Properties *)

(* Types; the Pod and the groups go together: a running Pod has its node. *)
TypeOK ==
  /\ now \in 0 .. EndOfTime /\ bill \in Nat
  /\ mac \in BOOLEAN /\ cleaning \in BOOLEAN /\ ready \in BOOLEAN
  /\ stage \in {"admitted", "cpu", "arming", "armed", "serving", "left"} \cup Timed
  /\ session \in [cleanup : Int, target : Int]
  /\ requested = NotRequested \/ requested \in Nat
  /\ limit \in Nat
  /\ localDeadline \in Int /\ deadline \in Int
  /\ groups \subseteq Group /\ deleting \subseteq groups
  /\ guard \in {"absent", "asleep", "listed", "deleting", "gone"}
  /\ seen \subseteq Group /\ todo \subseteq seen \cap Gpu
  /\ request = None \/ request \in Int
  /\ ack = None \/ ack \in Record
  /\ PodRuns => "cpu" \in groups

(* While a GPU group exists the cloud guard works to the session's cleanup  *)
(* deadline: it has acknowledged it, and a restarted guard finds it again   *)
(* (reduce_deadline; cloud-deadline-guard.py 66-82).                        *)
GuardAgrees ==
  GpuGroups # {} => /\ ack # None /\ ack.deadline = session.cleanup
                    /\ Shortened(deadline) = session.cleanup

(* Unless the Mac cleans up, the guard's node stays until the GPU groups    *)
(* are gone (cloud-deadline-guard.py 84-93).                                *)
GuardOutlivesGpus ==
  ~cleaning /\ GpuGroups # {} => "cpu" \in groups \ deleting

(* Up to the deletion target the provider's bill stays within what the      *)
(* session may spend (router-session-budget.py deadlines).                  *)
BillWithinCap ==
  requested # NotRequested /\ now <= session.target
    => bill <= SessionCap - Margin

(* No GPU group comes into being at or after the cleanup deadline, when the *)
(* guards may have looked for the last time (admit_pair, required work).    *)
NoneCreatedLate ==
  [][groups' \cap Gpu \subseteq groups \/ now < session.cleanup]_guardVars

(* No deadline of the session, the local guard or the acknowledgements ever *)
(* moves later, restarts included (shortened_deadline, deadlines).          *)
NeverExtended ==
  [][/\ session'.cleanup <= session.cleanup /\ session'.target <= session.target
     /\ localDeadline' <= localDeadline
     /\ ack # None => ack'.deadline <= ack.deadline]_guardVars

(* Unless the Mac dies while it deletes everything itself, the guard's node *)
(* first, the GPU groups are deleted in the end (PAIRED-LOCALITY.md 13).    *)
GuardSuffices == GpuGroups # {} ~> GpuGroups = {} \/ (cleaning /\ ~mac)

(* The GPU groups are deleted in the end, whether or not the Mac is alive   *)
(* (PAIRED-LOCALITY.md 13).                                                 *)
GpusDeleted == GpuGroups # {} ~> GpuGroups = {}
===============================================================================
