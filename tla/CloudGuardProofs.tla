--------------------------- MODULE CloudGuardProofs ---------------------------
(***************************************************************************)
(* The safety properties of CloudGuard, for all rates, budgets and time    *)
(* limits that satisfy RateAssumption and GuardAssumption; before them,    *)
(* what the deadlines of StagedBudget promise for all rates, caps and      *)
(* times.                                                                  *)
(***************************************************************************)
EXTENDS CloudGuard, TLAPS

-----------------------------------------------------------------------------
(* The deadlines of a router session *)

(* A host was requested by a given time, or not at all. *)
RequestedBy(born, time) == born = NotRequested \/ (born \in Nat /\ born <= time)

(* A product grows with its second factor. *)
LEMMA ProductGrows ==
  ASSUME NEW k \in Nat, NEW a \in Int, NEW b \in Int, a <= b
  PROVE  k * a <= k * b /\ k * a \in Int /\ k * b \in Int
<1>1. k * (b - a) >= 0 OBVIOUS
<1>2. k * (b - a) = k * b - k * a OBVIOUS
<1> QED BY <1>1, <1>2

(* Dividing and multiplying again gives no more than there was. *)
LEMMA QuotientBound ==
  ASSUME NEW a \in Int, NEW r \in Nat \ {0}
  PROVE  a \div r \in Int /\ r * (a \div r) <= a
<1>1. a \div r \in Int /\ a % r \in 0 .. r - 1 OBVIOUS
<1>2. a = r * (a \div r) + (a % r) OBVIOUS
<1> QED BY <1>1, <1>2

(* What is charged from a given time on is a natural number, and grows by *)
(* the rate at most.                                                      *)
LEMMA HostCostGrows ==
  ASSUME NEW born, NEW time \in Nat, NEW end \in Int, time <= end,
         RequestedBy(born, time)
  PROVE  /\ HostCost(born, time) \in Nat /\ HostCost(born, end) \in Nat
         /\ HostRate(born) \in Nat
         /\ HostCost(born, end) = HostCost(born, time) + HostRate(born) * (end - time)
<1>1. CASE born = NotRequested
  BY <1>1, RateAssumption DEF HostCost, HostRate
<1>2. CASE born # NotRequested
  <2>1. born \in Nat /\ born <= time /\ born <= end
    BY <1>2 DEF RequestedBy
  <2>2. Elapsed(born, time) = time - born /\ Elapsed(born, end) = end - born
    BY <2>1 DEF Elapsed
  <2>3. GpuRate \in Nat BY RateAssumption
  <2>4. /\ HostCost(born, time) = GpuRate * (time - born)
        /\ HostCost(born, end) = GpuRate * (end - born)
        /\ HostRate(born) = GpuRate
    BY <1>2, <2>2 DEF HostCost, HostRate
  <2>5. GpuRate * (end - born) = GpuRate * (time - born) + GpuRate * (end - time)
    BY <2>1, <2>3
  <2>6. time - born \in Nat /\ end - born \in Nat
    BY <2>1
  <2>7. GpuRate * (time - born) \in Nat /\ GpuRate * (end - born) \in Nat
    BY <2>3, <2>6
  <2> QED BY <2>3, <2>4, <2>5, <2>7
<1> QED BY <1>1, <1>2

(* The cost of the session grows by its rate, once all hosts are requested. *)
LEMMA CostGrows ==
  ASSUME NEW start \in Nat, NEW local, NEW remote,
         NEW time \in Nat, NEW end \in Int, start <= time, time <= end,
         RequestedBy(local, time), RequestedBy(remote, time)
  PROVE  /\ Cost(start, local, remote, time) \in Nat
         /\ Rate(local, remote) \in Nat \ {0}
         /\ Cost(start, local, remote, end)
              = Cost(start, local, remote, time) + Rate(local, remote) * (end - time)
<1>1. /\ HostCost(local, time) \in Nat /\ HostRate(local) \in Nat
      /\ HostCost(local, end) = HostCost(local, time) + HostRate(local) * (end - time)
  BY HostCostGrows
<1>2. /\ HostCost(remote, time) \in Nat /\ HostRate(remote) \in Nat
      /\ HostCost(remote, end) = HostCost(remote, time) + HostRate(remote) * (end - time)
  BY HostCostGrows
<1>3. Elapsed(start, time) = time - start /\ Elapsed(start, end) = end - start
  BY DEF Elapsed
<1>4. SupportRate \in Nat \ {0} BY RateAssumption
<1>5. SupportRate * (end - start) = SupportRate * (time - start) + SupportRate * (end - time)
  BY <1>4
<1>6. SupportRate * (time - start) \in Nat BY <1>4
<1>7. (SupportRate + HostRate(local) + HostRate(remote)) * (end - time)
        = SupportRate * (end - time) + HostRate(local) * (end - time)
            + HostRate(remote) * (end - time)
  BY <1>1, <1>2, <1>4
<1> QED BY <1>1, <1>2, <1>3, <1>4, <1>5, <1>6, <1>7 DEF Cost, Rate

(* The deadlines of router-session-budget.py keep the session's cost at its *)
(* deletion target within the cap less the margin, and the target within    *)
(* the original one, whichever hosts are requested.                         *)
THEOREM DeadlinesAreFunded ==
  ASSUME NEW start \in Nat, NEW local, NEW remote,
         NEW time \in Nat, NEW original \in Int, NEW cap \in Nat,
         start <= time, time <= original,
         RequestedBy(local, time), RequestedBy(remote, time),
         Left(start, local, remote, time, cap) > 0
  PROVE  LET target == Target(start, local, remote, time, original, cap) IN
         /\ target \in time .. original
         /\ Cost(start, local, remote, target) <= cap - Margin
<1> DEFINE spent  == Cost(start, local, remote, time)
           left   == Left(start, local, remote, time, cap)
           rate   == Rate(local, remote)
           share  == left \div rate
           target == Target(start, local, remote, time, original, cap)
<1>1. spent \in Nat /\ rate \in Nat \ {0}
  BY CostGrows
<1>2. left \in Nat \ {0} /\ left = cap - Margin - spent
  BY <1>1, RateAssumption DEF Left
<1>3. share \in Nat /\ rate * share <= left
  <2>1. share \in Int /\ rate * share <= left
    BY <1>1, <1>2, QuotientBound
  <2>2. share >= 0
    BY <1>1, <1>2
  <2> QED BY <2>1, <2>2
<1>4. target \in time .. original /\ target <= time + share
  BY <1>1, <1>2, <1>3 DEF Target
<1>5. Cost(start, local, remote, target) = spent + rate * (target - time)
  BY <1>4, CostGrows
<1>6. rate * (target - time) <= rate * share
  BY <1>1, <1>3, <1>4, ProductGrows
<1>7. rate * (target - time) \in Int /\ rate * share \in Int
  BY <1>1, <1>3, <1>4
<1>8. Cost(start, local, remote, target) <= cap - Margin
  BY <1>1, <1>2, <1>3, <1>5, <1>6, <1>7, RateAssumption
<1> QED BY <1>4, <1>8

-----------------------------------------------------------------------------
(* The guard, the Pod and the controller *)

(* An admission of the controller fixes the deadlines for good: the request *)
(* time is followed by the work time, and the target is paid for.           *)
PhaseInv ==
  /\ session.cleanup <= OriginalCleanup /\ session.target <= OriginalTarget
  /\ stage = "admitted" => groups = {}
  /\ requested = NotRequested =>
       /\ session = [cleanup |-> OriginalCleanup, target |-> OriginalTarget]
       /\ request = None /\ GpuGroups = {}
       /\ stage \notin Timed \cup {"serving"}
  /\ requested # NotRequested =>
       /\ requested <= now /\ requested + Work <= session.cleanup
       /\ Cost(0, requested, requested, session.target) <= SessionCap - Margin
       /\ stage \in Timed \cup {"serving", "left"}

(* What the Pod has in memory and in its files is the original deadline or *)
(* the session's, and the session's where the controller relies on it.     *)
HandshakeInv ==
  /\ request = None \/ request = session.cleanup
  /\ session.cleanup <= deadline
  /\ request = None => deadline = OriginalCleanup
  /\ ack # None => /\ session.cleanup <= ack.deadline
                   /\ request = None => ack.deadline = OriginalCleanup
  /\ ready => ack # None /\ ack.deadline = deadline
  /\ stage \in {"shortening", "acked", "applying", "serving"} \/ GpuGroups # {}
       => request = session.cleanup
  /\ stage \in {"acked", "applying", "serving"} \/ GpuGroups # {}
       => ack # None /\ ack.deadline = session.cleanup

(* The waits of a living controller end before the work time does. *)
TimingInv ==
  /\ mac /\ stage \in {"reduced", "shortening", "acked"} =>
       now <= limit /\ limit = requested + AckTime
  /\ mac /\ stage = "applying" =>
       now <= limit /\ limit <= requested + AckTime + Placement

(* The guard's listing is complete when it acts on it, so its node goes *)
(* after the GPU groups.                                                *)
NodeInv ==
  /\ ~cleaning => stage # "left"
  /\ ~cleaning /\ stage # "admitted" =>
       \/ "cpu" \in groups \ deleting
       \/ GpuGroups = {} /\ session.cleanup <= now
  /\ guard = "listed" /\ session.cleanup <= now => GpuGroups \subseteq seen
  /\ guard = "deleting" => /\ session.cleanup <= now
                           /\ GpuGroups \subseteq seen
                           /\ todo = {} => seen \cap Gpu = {}

(* The provider charges no more than the conservative estimate. *)
BillInv == bill <= Cost(0, requested, requested, now)

Inv == TypeOK /\ PhaseInv /\ HandshakeInv /\ TimingInv /\ NodeInv /\ BillInv

(* What the assumptions say of each constant. *)
LEMMA ConstantTypes ==
  /\ Cleanup \in Nat
  /\ OriginalTarget \in Nat /\ EndOfTime \in Nat /\ OriginalTarget <= EndOfTime
  /\ AckTime \in Nat /\ Placement \in Nat /\ Work \in Nat
  /\ AckTime + Placement < Work
  /\ OriginalCleanup \in Int /\ OriginalCleanup = OriginalTarget - Cleanup
  /\ NotRequested \notin Int /\ None \notin Int
  BY RateAssumption, GuardAssumption DEF OriginalCleanup

(* Before the session starts there is nothing but its original deadlines. *)
LEMMA InitInv == Init => Inv
<1> SUFFICES ASSUME Init PROVE Inv
  OBVIOUS
<1>1. TypeOK
  <2>1. session \in [cleanup : Int, target : Int] /\ (ack = None \/ ack \in Record)
    BY ConstantTypes DEF Init
  <2>2. now \in 0 .. EndOfTime /\ bill \in Nat /\ limit \in Nat
    BY ConstantTypes DEF Init
  <2>3. localDeadline \in Int /\ deadline \in Int
    BY ConstantTypes DEF Init
  <2> QED
    BY <2>1, <2>2, <2>3 DEF Init, TypeOK, PodRuns
<1>2. PhaseInv /\ HandshakeInv /\ TimingInv /\ NodeInv
  BY ConstantTypes DEF Init, PhaseInv, HandshakeInv, TimingInv, NodeInv,
     GpuGroups, Timed, OriginalCleanup
<1>3. BillInv
  <2>1. 0 <= Cost(0, NotRequested, NotRequested, 0)
    BY RateAssumption DEF Cost, HostCost, Elapsed
  <2> QED
    BY <2>1 DEF Init, BillInv
<1> QED
  BY <1>1, <1>2, <1>3 DEF Inv

(* The CPU node is there before anything else: no group is being deleted. *)
LEMMA BootstrapCpuInv ==
  ASSUME Inv, BootstrapCpu
  PROVE  Inv'
  BY ConstantTypes DEF Inv, TypeOK, PhaseInv, HandshakeInv, TimingInv,
     NodeInv, BillInv, BootstrapCpu, Gpu, GpuGroups, Timed, Group, Advance,
     PodRuns, macVars, podVars, memoryVars, clockVars

(* The Pod starts with the original deadline, on an existing node. *)
LEMMA DeployGuardInv ==
  ASSUME Inv, DeployGuard
  PROVE  Inv'
  BY ConstantTypes DEF Inv, TypeOK, PhaseInv, HandshakeInv, TimingInv,
     NodeInv, BillInv, DeployGuard, Gpu, GpuGroups, Timed, Advance, PodRuns,
     macVars, memoryVars, groupVars, clockVars

(* The first acknowledgement changes nothing but the controller's place. *)
LEMMA SeeArmedInv ==
  ASSUME Inv, SeeArmed
  PROVE  Inv'
  BY ConstantTypes DEF Inv, TypeOK, PhaseInv, HandshakeInv, TimingInv,
     NodeInv, BillInv, SeeArmed, Gpu, GpuGroups, Timed, Advance, PodRuns,
     macVars, podVars, memoryVars, groupVars, clockVars

(* The target that admit_pair returns: the work time fits before the cleanup *)
(* deadline, and the session's cost at the target within its means.          *)
LEMMA AdmissionIsFunded ==
  ASSUME NEW t \in Nat, AdmitsPair(0, t, OriginalTarget, SessionCap)
  PROVE  LET target == Target(0, t, t, t, OriginalTarget, SessionCap) IN
         /\ target \in Int /\ target <= OriginalTarget
         /\ t + Work <= target - Cleanup
         /\ Cost(0, t, t, target) <= SessionCap - Margin
<1> DEFINE target == Target(0, t, t, t, OriginalTarget, SessionCap)
           left   == Left(0, t, t, t, SessionCap)
<1>1. SessionCap \in Nat
  BY RateAssumption, GuardAssumption DEF SessionCap, SpendingCap
<1>2. left > 0 /\ target - Cleanup - t >= Work
  BY DEF AdmitsPair
<1>3. Cost(0, t, t, t) \in Nat /\ Rate(t, t) \in Nat \ {0}
  <2>1. RequestedBy(t, t) /\ 0 \in Nat /\ 0 <= t /\ t <= t
    BY DEF RequestedBy
  <2> QED
    BY <2>1, CostGrows
<1>4. left \in Int
  BY <1>1, <1>3, RateAssumption DEF Left
<1>5. target \in Int /\ target <= OriginalTarget
  <2>1. left \div Rate(t, t) \in Int
    BY <1>3, <1>4, QuotientBound
  <2> QED
    BY <2>1, ConstantTypes DEF Target
<1>6. t + Work <= target - Cleanup /\ t <= OriginalTarget
  BY <1>2, <1>5, ConstantTypes, RateAssumption
<1>7. Cost(0, t, t, target) <= SessionCap - Margin
  <2>1. 0 \in Nat /\ OriginalTarget \in Int /\ 0 <= t /\ RequestedBy(t, t)
    BY ConstantTypes DEF RequestedBy
  <2>2. Left(0, t, t, t, SessionCap) > 0 /\ t <= OriginalTarget
    BY <1>2, <1>6
  <2> HIDE DEF left, target
  <2>3. Cost(0, t, t, Target(0, t, t, t, OriginalTarget, SessionCap))
          <= SessionCap - Margin
    BY <1>1, <2>1, <2>2, DeadlinesAreFunded, Zenon
  <2> QED
    BY <2>3 DEF target
<1> QED
  BY <1>5, <1>6, <1>7

(* The admission: no GPU group and no request are there yet, so everything *)
(* that depends on the deadlines starts afresh with the earlier ones.      *)
LEMMA ReduceDeadlineInv ==
  ASSUME Inv, ReduceDeadline
  PROVE  Inv'
<1> DEFINE target == Target(0, now, now, now, OriginalTarget, SessionCap)
<1>1. now \in Nat
  BY ConstantTypes DEF Inv, TypeOK
<1>2. /\ target \in Int /\ target <= OriginalTarget
      /\ now + Work <= target - Cleanup
      /\ Cost(0, now, now, target) <= SessionCap - Margin
  BY <1>1, AdmissionIsFunded DEF ReduceDeadline
<1>3. /\ session'.cleanup = target - Cleanup /\ session'.target = target
      /\ session' \in [cleanup : Int, target : Int]
      /\ session'.cleanup <= OriginalCleanup
  BY <1>2, ConstantTypes DEF ReduceDeadline
<1>4. requested = NotRequested
  BY DEF ReduceDeadline, Advance, Inv, PhaseInv, Timed
<1>5. /\ requested' = now /\ requested' \in Nat
      /\ stage' = "reduced" /\ limit' = now + AckTime
  BY <1>1 DEF ReduceDeadline, Advance
<1>6. /\ request = None /\ GpuGroups = {} /\ deadline = OriginalCleanup
      /\ session.cleanup = OriginalCleanup
      /\ ack # None => ack.deadline = OriginalCleanup
  BY <1>4 DEF Inv, PhaseInv, HandshakeInv
<1>7. TypeOK'
  <2>1. (requested' = NotRequested \/ requested' \in Nat) /\ limit' \in Nat
    BY <1>1, <1>5, ConstantTypes
  <2> QED
    BY <1>3, <1>5, <2>1 DEF Inv, TypeOK, ReduceDeadline, PodRuns, Timed, macVars,
       podVars, memoryVars, groupVars, clockVars
<1>8. PhaseInv' /\ HandshakeInv'
  <2>1. requested' # NotRequested
    BY <1>5, ConstantTypes
  <2>2. PhaseInv'
    BY <1>1, <1>2, <1>3, <1>5, <2>1, ConstantTypes DEF PhaseInv, Timed,
       ReduceDeadline, clockVars
  <2>3. HandshakeInv'
    BY <1>3, <1>5, <1>6 DEF Inv, HandshakeInv, ReduceDeadline, GpuGroups, podVars,
       memoryVars, groupVars
  <2> QED
    BY <2>2, <2>3
<1>9. TimingInv'
  BY <1>1, <1>5, ConstantTypes DEF TimingInv, ReduceDeadline, clockVars
<1>10. NodeInv'
  <2>1. now < session'.cleanup
    BY <1>1, <1>2, <1>3, ConstantTypes, RateAssumption
  <2>2. /\ ~cleaning => "cpu" \in groups \ deleting
        /\ guard # "deleting"
    BY <2>1, <1>1, <1>3, <1>6 DEF Inv, TypeOK, NodeInv, ReduceDeadline, Advance
  <2> QED
    BY <2>1, <2>2, <1>1, <1>3, <1>5 DEF NodeInv, ReduceDeadline, macVars, podVars,
       groupVars, clockVars
<1>11. BillInv'
  <2>1. Cost(0, now, now, now) = Cost(0, NotRequested, NotRequested, now)
    BY <1>1, RateAssumption DEF Cost, HostCost, Elapsed
  <2> QED
    BY <2>1, <1>4, <1>5 DEF Inv, BillInv, ReduceDeadline, clockVars
<1> QED
  BY <1>7, <1>8, <1>9, <1>10, <1>11 DEF Inv

(* The request is the session's deadline; nothing was requested before. *)
LEMMA ShortenGuardInv ==
  ASSUME Inv, ShortenGuard
  PROVE  Inv'
  BY ConstantTypes DEF Inv, TypeOK, PhaseInv, HandshakeInv, TimingInv,
     NodeInv, BillInv, ShortenGuard, Gpu, GpuGroups, Timed, Advance, PodRuns,
     macVars, memoryVars, groupVars, clockVars

(* Only the acknowledgement of the session's own deadline lets it go on. *)
LEMMA SeeShortenedInv ==
  ASSUME Inv, SeeShortened
  PROVE  Inv'
  BY ConstantTypes DEF Inv, TypeOK, PhaseInv, HandshakeInv, TimingInv,
     NodeInv, BillInv, SeeShortened, Gpu, GpuGroups, Timed, Advance, PodRuns,
     Acknowledged, macVars, podVars, memoryVars, groupVars, clockVars

(* The apply starts within the acknowledgement's time. *)
LEMMA StartApplyInv ==
  ASSUME Inv, StartApply
  PROVE  Inv'
  BY ConstantTypes DEF Inv, TypeOK, PhaseInv, HandshakeInv, TimingInv,
     NodeInv, BillInv, StartApply, Gpu, GpuGroups, Timed, Advance, PodRuns,
     macVars, podVars, memoryVars, groupVars, clockVars

(* A GPU group comes within the work time: the deadline is ahead. *)
LEMMA CreatedInTime ==
  ASSUME Inv, NEW g \in Gpu, CreateGroup(g)
  PROVE  now < session.cleanup
  BY ConstantTypes DEF Inv, TypeOK, PhaseInv, TimingInv, CreateGroup, Timed

(* The guard's node is there for it unless the Mac cleans up. *)
LEMMA CreateGroupInv ==
  ASSUME Inv, NEW g \in Gpu, CreateGroup(g)
  PROVE  Inv'
  BY ConstantTypes, CreatedInTime DEF Inv, TypeOK, PhaseInv, HandshakeInv,
     TimingInv, NodeInv, BillInv, CreateGroup, Group, PodRuns, Gpu, GpuGroups,
     Timed, controllerVars, macVars, podVars, memoryVars, clockVars

(* The deadlines stay agreed once the groups are there. *)
LEMMA ApplyReturnsInv ==
  ASSUME Inv, ApplyReturns
  PROVE  Inv'
  BY ConstantTypes DEF Inv, TypeOK, PhaseInv, HandshakeInv, TimingInv,
     NodeInv, BillInv, ApplyReturns, Gpu, GpuGroups, Timed, Advance, PodRuns,
     macVars, podVars, memoryVars, groupVars, clockVars

(* Leaving starts the cleanup, which voids the promise about the node. *)
LEMMA LeaveControllerInv ==
  ASSUME Inv, LeaveController
  PROVE  Inv'
  BY ConstantTypes DEF Inv, TypeOK, PhaseInv, HandshakeInv, TimingInv,
     NodeInv, BillInv, LeaveController, Gpu, GpuGroups, Timed, PodRuns, podVars,
     memoryVars, groupVars, clockVars

(* The local guard changes its own deadline and may start the cleanup. *)
LEMMA LocalGuardPassInv ==
  ASSUME Inv, LocalGuardPass
  PROVE  Inv'
  BY ConstantTypes DEF Inv, TypeOK, PhaseInv, HandshakeInv, TimingInv,
     NodeInv, BillInv, LocalGuardPass, Gpu, GpuGroups, Timed, PodRuns,
     controllerVars, podVars, memoryVars, groupVars, clockVars

(* The Mac's cleanup takes any group. *)
LEMMA LocalDestroyInv ==
  ASSUME Inv, NEW g \in Group, LocalDestroy(g)
  PROVE  Inv'
  BY ConstantTypes DEF Inv, TypeOK, PhaseInv, HandshakeInv, TimingInv,
     NodeInv, BillInv, LocalDestroy, Gpu, GpuGroups, Timed, Group, PodRuns,
     controllerVars, macVars, podVars, memoryVars, clockVars

(* Whatever the Mac was waiting for no longer happens. *)
LEMMA MacStopsInv ==
  ASSUME Inv, MacStops
  PROVE  Inv'
<1> USE DEF MacStops
<1>1. TypeOK'
  BY DEF Inv, TypeOK, PodRuns, controllerVars, podVars, memoryVars, groupVars,
     clockVars
<1>2. PhaseInv' /\ TimingInv' /\ BillInv'
  BY DEF Inv, PhaseInv, TimingInv, BillInv, GpuGroups, controllerVars, podVars,
     groupVars, clockVars
<1>3. HandshakeInv' /\ NodeInv'
  BY DEF Inv, HandshakeInv, NodeInv, GpuGroups, controllerVars, podVars,
     memoryVars, groupVars, clockVars
<1> QED
  BY <1>1, <1>2, <1>3 DEF Inv

(* A fresh listing is complete. *)
LEMMA ListGroupsInv ==
  ASSUME Inv, ListGroups
  PROVE  Inv'
<1> USE DEF ListGroups
<1>1. TypeOK'
  BY DEF Inv, TypeOK, PodRuns, controllerVars, macVars, groupVars, clockVars
<1>2. PhaseInv' /\ TimingInv' /\ BillInv'
  BY DEF Inv, PhaseInv, TimingInv, BillInv, GpuGroups, controllerVars, macVars,
     groupVars, clockVars
<1>3. HandshakeInv' /\ NodeInv'
  BY DEF Inv, HandshakeInv, NodeInv, GpuGroups, controllerVars, macVars,
     groupVars, clockVars
<1> QED
  BY <1>1, <1>2, <1>3 DEF Inv

(* The deadline that the Pod takes is the session's once it is requested, *)
(* and never an earlier one.                                              *)
LEMMA ShortenedDeadline ==
  ASSUME Inv
  PROVE  /\ Shortened(deadline) \in Int
         /\ session.cleanup <= Shortened(deadline)
         /\ Shortened(deadline) <= deadline
         /\ request = None => Shortened(deadline) = OriginalCleanup
         /\ request # None => Shortened(deadline) = session.cleanup
  BY ConstantTypes DEF Inv, TypeOK, HandshakeInv, Shortened

(* Deciding to delete: the time is past the session's cleanup deadline, so *)
(* the listing of this pass has every GPU group.                           *)
LEMMA DecisionIsInformed ==
  ASSUME Inv, guard = "listed", deadline' \in Int, session.cleanup <= deadline',
         Decide, UNCHANGED <<controllerVars, macVars, groupVars, clockVars>>
  PROVE  /\ NodeInv'
         /\ guard' \in {"asleep", "deleting"}
         /\ seen' \subseteq Group /\ todo' \subseteq seen' \cap Gpu
<1>1. CASE now < deadline'
  BY <1>1 DEF Decide, EndPass, NodeInv, Inv, GpuGroups, controllerVars, macVars,
     groupVars, clockVars
<1>2. CASE ~(now < deadline')
  <2>1. /\ guard' = "deleting" /\ seen' = seen /\ todo' = seen \cap Gpu
        /\ session.cleanup <= now
    BY <1>2 DEF Decide, Inv, TypeOK
  <2>2. seen \subseteq Group
    BY DEF Inv, TypeOK
  <2> QED
    BY <2>1, <2>2 DEF NodeInv, Inv, GpuGroups, controllerVars, macVars, groupVars,
       clockVars
<1> QED
  BY <1>1, <1>2

(* The record that is written agrees with the Pod's memory. *)
LEMMA AcknowledgeInv ==
  ASSUME Inv, Acknowledge
  PROVE  Inv'
<1> USE DEF Acknowledge
<1>1. /\ deadline' \in Int /\ session.cleanup <= deadline'
      /\ request = None => deadline' = OriginalCleanup
      /\ request # None => deadline' = session.cleanup
  BY ShortenedDeadline
<1>2. /\ NodeInv' /\ guard' \in {"asleep", "deleting"}
      /\ seen' \subseteq Group /\ todo' \subseteq seen' \cap Gpu
  BY <1>1, DecisionIsInformed
<1>3. /\ ack' = None \/ ack' \in Record
      /\ ack' # None /\ ack'.deadline = deadline'
  <2>1. CASE RecordIsCurrent
    <3>1. ack' = ack /\ ready /\ deadline' = deadline
      BY <2>1 DEF RecordIsCurrent
    <3> QED
      BY <3>1 DEF Inv, TypeOK, HandshakeInv
  <2>2. CASE ~RecordIsCurrent
    <3>1. ack' = [deadline |-> deadline', gpus |-> seen \cap Gpu]
      BY <2>2
    <3>2. ack' \in Record
      BY <3>1, <1>1 DEF Record
    <3>3. None \notin Record
      BY GuardAssumption
    <3> QED
      BY <3>1, <3>2, <3>3
  <2> QED
    BY <2>1, <2>2
<1>4. TypeOK'
  BY <1>1, <1>2, <1>3 DEF Inv, TypeOK, PodRuns, controllerVars, macVars,
     groupVars, clockVars
<1>5. PhaseInv' /\ TimingInv' /\ BillInv'
  BY DEF Inv, PhaseInv, TimingInv, BillInv, GpuGroups, controllerVars, macVars,
     groupVars, clockVars
<1>6. HandshakeInv'
  BY <1>1, <1>3, ConstantTypes DEF Inv, TypeOK, HandshakeInv, GpuGroups,
     controllerVars, groupVars
<1> QED
  BY <1>2, <1>4, <1>5, <1>6 DEF Inv

(* Without a record, the Pod is not ready. *)
LEMMA FailToAcknowledgeInv ==
  ASSUME Inv, FailToAcknowledge
  PROVE  Inv'
<1> USE DEF FailToAcknowledge
<1>1. /\ deadline' \in Int /\ session.cleanup <= deadline'
      /\ request = None => deadline' = OriginalCleanup
  BY ShortenedDeadline
<1>2. TypeOK'
  BY <1>1 DEF Inv, TypeOK, EndPass, PodRuns, controllerVars, macVars, groupVars,
     clockVars
<1>3. PhaseInv' /\ TimingInv' /\ BillInv'
  BY DEF Inv, PhaseInv, TimingInv, BillInv, GpuGroups, controllerVars, macVars,
     groupVars, clockVars
<1>4. HandshakeInv'
  BY <1>1 DEF Inv, HandshakeInv, GpuGroups, controllerVars, groupVars
<1>5. NodeInv'
  BY DEF Inv, NodeInv, EndPass, GpuGroups, controllerVars, macVars, groupVars,
     clockVars
<1> QED
  BY <1>2, <1>3, <1>4, <1>5 DEF Inv

(* A call for one GPU group leaves the others to do, or ends the pass. *)
LEMMA NextDeletionInv ==
  ASSUME Inv, NEW g \in Gpu, NextDeletion(g),
         deleting' = deleting \/ deleting' = deleting \cup ({g} \cap groups)
  PROVE  Inv'
<1> USE DEF NextDeletion
<1>1. /\ guard' \in {"asleep", "deleting"}
      /\ seen' \in {seen, {}} /\ todo' \subseteq seen' \cap Gpu
      /\ guard' = "deleting" => seen' = seen /\ todo' # {}
  BY DEF Inv, TypeOK, EndPass
<1>2. TypeOK'
  BY <1>1 DEF Inv, TypeOK, PodRuns, controllerVars, macVars, clockVars
<1>3. PhaseInv' /\ TimingInv' /\ BillInv'
  BY DEF Inv, PhaseInv, TimingInv, BillInv, GpuGroups, controllerVars, macVars,
     clockVars
<1>4. HandshakeInv'
  BY DEF Inv, HandshakeInv, GpuGroups, controllerVars
<1>5. NodeInv'
  BY <1>1 DEF Inv, NodeInv, GpuGroups, Gpu, controllerVars, macVars, clockVars
<1> QED
  BY <1>2, <1>3, <1>4, <1>5 DEF Inv

(* The node goes when the listing, and so the cloud, has no GPU group. *)
LEMMA DeleteCpuInv ==
  ASSUME Inv, DeleteCpu
  PROVE  Inv'
<1> USE DEF DeleteCpu
<1>1. TypeOK'
  BY DEF Inv, TypeOK, PodRuns, EndPass, controllerVars, macVars, clockVars
<1>2. PhaseInv' /\ TimingInv' /\ BillInv'
  BY DEF Inv, PhaseInv, TimingInv, BillInv, GpuGroups, controllerVars, macVars,
     clockVars
<1>3. HandshakeInv'
  BY DEF Inv, HandshakeInv, GpuGroups, EndPass, controllerVars
<1>4. NodeInv'
  BY DEF Inv, NodeInv, NoGpuSeen, EndPass, GpuGroups, controllerVars, macVars,
     clockVars
<1> QED
  BY <1>1, <1>2, <1>3, <1>4 DEF Inv

(* A failed pass changes nothing that lasts. *)
LEMMA PassFailsInv ==
  ASSUME Inv, PassFails
  PROVE  Inv'
  BY ConstantTypes DEF Inv, TypeOK, PhaseInv, HandshakeInv, TimingInv,
     NodeInv, BillInv, PassFails, Gpu, GpuGroups, Timed, PodRuns, EndPass,
     controllerVars, macVars, groupVars, clockVars

(* A restarted guard starts from the original deadline, not ready. *)
LEMMA RestartGuardInv ==
  ASSUME Inv, RestartGuard
  PROVE  Inv'
  BY ConstantTypes DEF Inv, TypeOK, PhaseInv, HandshakeInv, TimingInv,
     NodeInv, BillInv, RestartGuard, Gpu, GpuGroups, Timed, PodRuns, EndPass,
     controllerVars, macVars, groupVars, clockVars

(* An evicted Pod leaves the rest as it is. *)
LEMMA EvictGuardInv ==
  ASSUME Inv, EvictGuard
  PROVE  Inv'
  BY ConstantTypes DEF Inv, TypeOK, PhaseInv, HandshakeInv, TimingInv,
     NodeInv, BillInv, EvictGuard, Gpu, GpuGroups, Timed, PodRuns,
     controllerVars, macVars, groupVars, clockVars

(* What has gone was being deleted. *)
LEMMA VanishInv ==
  ASSUME Inv, NEW g \in Group, Vanish(g)
  PROVE  Inv'
  BY ConstantTypes DEF Inv, TypeOK, PhaseInv, HandshakeInv, TimingInv,
     NodeInv, BillInv, Vanish, Gpu, GpuGroups, Timed, Group, PodRuns,
     controllerVars, macVars, podVars, memoryVars, clockVars

(* A unit of time costs at most the rate of what has been requested. *)
LEMMA TickInv ==
  ASSUME Inv, Tick
  PROVE  Inv'
<1> USE DEF Tick
<1>1. now \in Nat /\ now' = now + 1 /\ now' \in 0 .. EndOfTime /\ bill \in Nat
  BY ConstantTypes DEF Inv, TypeOK
<1>2. /\ GpuRate \in Nat /\ SupportRate \in Nat
      /\ Charge("local") \in Nat /\ Charge("remote") \in Nat
      /\ Charge("local") <= GpuRate /\ Charge("remote") <= GpuRate
  BY RateAssumption DEF Charge
<1>3. TypeOK'
  BY <1>1, <1>2 DEF Inv, TypeOK, PodRuns, controllerVars, macVars, podVars,
     memoryVars, groupVars
<1>4. PhaseInv' /\ HandshakeInv'
  BY <1>1, ConstantTypes DEF Inv, TypeOK, PhaseInv, HandshakeInv, GpuGroups,
     controllerVars, podVars, memoryVars, groupVars
<1>5. TimingInv'
  BY <1>1, ConstantTypes DEF Inv, TypeOK, TimingInv, Timed, controllerVars,
     macVars
<1>6. NodeInv'
  BY <1>1 DEF Inv, TypeOK, NodeInv, GpuGroups, controllerVars, macVars, podVars,
     memoryVars, groupVars
<1>7. BillInv'
  <2>1. RequestedBy(requested, now)
    <3>1. CASE requested = NotRequested
      BY <3>1 DEF RequestedBy
    <3>2. CASE requested # NotRequested
      BY <3>2 DEF Inv, TypeOK, PhaseInv, RequestedBy
    <3> QED
      BY <3>1, <3>2
  <2>2. /\ Cost(0, requested, requested, now) \in Nat
        /\ Rate(requested, requested) \in Nat
        /\ Cost(0, requested, requested, now + 1)
             = Cost(0, requested, requested, now)
                 + Rate(requested, requested) * (now + 1 - now)
    BY <1>1, <2>1, CostGrows
  <2>3. Rate(requested, requested) * (now + 1 - now) = Rate(requested, requested)
    BY <1>1, <2>2
  <2>4. SupportRate + Charge("local") + Charge("remote")
          <= Rate(requested, requested)
    <3>1. CASE requested = NotRequested
      BY <3>1, <1>2 DEF Inv, PhaseInv, GpuGroups, Gpu, Charge, Rate, HostRate
    <3>2. CASE requested # NotRequested
      BY <3>2, <1>2 DEF Rate, HostRate
    <3> QED
      BY <3>1, <3>2
  <2> QED
    BY <1>1, <1>2, <2>2, <2>3, <2>4 DEF Inv, BillInv, controllerVars
<1> QED
  BY <1>3, <1>4, <1>5, <1>6, <1>7 DEF Inv

(* Every step keeps the invariant, one case per action. *)
LEMMA StepInv == Inv /\ [Next]_guardVars => Inv'
<1> SUFFICES ASSUME Inv, [Next]_guardVars PROVE Inv'
  OBVIOUS
<1>1. CASE UNCHANGED guardVars
  <2> USE <1>1 DEF guardVars, controllerVars, macVars, podVars, memoryVars,
          groupVars, clockVars
  <2>1. TypeOK'
    BY DEF Inv, TypeOK, PodRuns
  <2>2. PhaseInv' /\ TimingInv' /\ BillInv'
    BY DEF Inv, PhaseInv, TimingInv, BillInv, GpuGroups
  <2>3. HandshakeInv' /\ NodeInv'
    BY DEF Inv, HandshakeInv, NodeInv, GpuGroups
  <2> QED
    BY <2>1, <2>2, <2>3 DEF Inv
<1>2. CASE Controller
  <2>1. CASE BootstrapCpu
    BY <2>1, BootstrapCpuInv
  <2>2. CASE DeployGuard
    BY <2>2, DeployGuardInv
  <2>3. CASE SeeArmed
    BY <2>3, SeeArmedInv
  <2>4. CASE ReduceDeadline
    BY <2>4, ReduceDeadlineInv
  <2>5. CASE ShortenGuard
    BY <2>5, ShortenGuardInv
  <2>6. CASE SeeShortened
    BY <2>6, SeeShortenedInv
  <2>7. CASE StartApply
    BY <2>7, StartApplyInv
  <2>8. CASE \E g \in Gpu : CreateGroup(g)
    BY <2>8, CreateGroupInv
  <2>9. CASE ApplyReturns
    BY <2>9, ApplyReturnsInv
  <2>10. CASE LeaveController
    BY <2>10, LeaveControllerInv
  <2> QED
    BY <1>2, <2>1, <2>2, <2>3, <2>4, <2>5, <2>6, <2>7, <2>8, <2>9, <2>10
       DEF Controller
<1>3. CASE Mac
  <2>1. CASE LocalGuardPass
    BY <2>1, LocalGuardPassInv
  <2>2. CASE MacStops
    BY <2>2, MacStopsInv
  <2>3. CASE \E g \in Group : LocalDestroy(g)
    BY <2>3, LocalDestroyInv
  <2> QED
    BY <1>3, <2>1, <2>2, <2>3 DEF Mac
<1>4. CASE Pod
  <2>1. CASE ListGroups
    BY <2>1, ListGroupsInv
  <2>2. CASE Acknowledge
    BY <2>2, AcknowledgeInv
  <2>3. CASE FailToAcknowledge
    BY <2>3, FailToAcknowledgeInv
  <2>4. CASE DeleteCpu
    BY <2>4, DeleteCpuInv
  <2>5. ASSUME NEW g \in Gpu, DeleteGpu(g) \/ DeletionFails(g) PROVE Inv'
    BY <2>5, NextDeletionInv DEF DeleteGpu, DeletionFails
  <2>6. CASE PassFails
    BY <2>6, PassFailsInv
  <2>7. CASE RestartGuard
    BY <2>7, RestartGuardInv
  <2> QED
    BY <1>4, <2>1, <2>2, <2>3, <2>4, <2>5, <2>6, <2>7 DEF Pod
<1>5. CASE Provider
  <2>1. CASE EvictGuard
    BY <2>1, EvictGuardInv
  <2>2. CASE Tick
    BY <2>2, TickInv
  <2>3. CASE \E g \in Group : Vanish(g)
    BY <2>3, VanishInv
  <2> QED
    BY <1>5, <2>1, <2>2, <2>3 DEF Provider
<1> QED
  BY <1>1, <1>2, <1>3, <1>4, <1>5 DEF Next

(* Every state of a session satisfies the inductive invariant. *)
THEOREM GuardInvariance == Spec => []Inv
<1> QED
  BY InitInv, StepInv, PTL DEF Spec

(* The types, and that a running Pod has its node, in every state. *)
THEOREM GuardTypeCorrect == Spec => []TypeOK
<1>1. Inv => TypeOK
  BY DEF Inv
<1> QED
  BY <1>1, GuardInvariance, PTL

(* While a GPU group exists, the cloud guard works to the deadline of the *)
(* session, in its record and after a restart, in every state.            *)
THEOREM GuardAlwaysAgrees == Spec => []GuardAgrees
<1>1. Inv => GuardAgrees
  <2> SUFFICES ASSUME Inv, GpuGroups # {}
               PROVE  /\ ack # None /\ ack.deadline = session.cleanup
                      /\ Shortened(deadline) = session.cleanup
    BY DEF GuardAgrees
  <2>1. ack # None /\ ack.deadline = session.cleanup /\ request = session.cleanup
    BY DEF Inv, HandshakeInv
  <2>2. request # None
    BY <2>1, ConstantTypes DEF Inv, TypeOK
  <2> QED
    BY <2>1, <2>2, ShortenedDeadline
<1> QED
  BY <1>1, GuardInvariance, PTL

(* Unless the Mac cleans up, the guard's node outlives the GPU groups. *)
THEOREM GuardNodeIsLast == Spec => []GuardOutlivesGpus
<1>1. Inv => GuardOutlivesGpus
  BY DEF Inv, PhaseInv, NodeInv, GuardOutlivesGpus, GpuGroups
<1> QED
  BY <1>1, GuardInvariance, PTL

(* Up to the deletion target the bill stays within the spending cap. *)
THEOREM BillIsFunded == Spec => []BillWithinCap
<1>1. Inv => BillWithinCap
  <2> SUFFICES ASSUME Inv, requested # NotRequested, now <= session.target
               PROVE  bill <= SessionCap - Margin
    BY DEF BillWithinCap
  <2>1. /\ RequestedBy(requested, now) /\ requested \in Nat /\ requested <= now
        /\ now \in Nat /\ bill \in Nat /\ session.target \in Int
    BY ConstantTypes DEF Inv, TypeOK, PhaseInv, RequestedBy
  <2>2. /\ Cost(0, requested, requested, now) \in Nat
        /\ Rate(requested, requested) \in Nat
        /\ Cost(0, requested, requested, session.target)
             = Cost(0, requested, requested, now)
                 + Rate(requested, requested) * (session.target - now)
    BY <2>1, CostGrows
  <2>3. /\ Rate(requested, requested) * (session.target - now) \in Int
        /\ Rate(requested, requested) * (session.target - now) >= 0
    BY <2>1, <2>2
  <2>4. SessionCap \in Nat /\ Margin \in Nat
    BY RateAssumption, GuardAssumption DEF SessionCap, SpendingCap
  <2> QED
    BY <2>1, <2>2, <2>3, <2>4 DEF Inv, PhaseInv, BillInv
<1> QED
  BY <1>1, GuardInvariance, PTL

(* No step creates a GPU group at or after the cleanup deadline. *)
THEOREM CreationIsInTime == Spec => NoneCreatedLate
<1>1. Inv /\ [Next]_guardVars
        => [groups' \cap Gpu \subseteq groups \/ now < session.cleanup]_guardVars
  <2> SUFFICES ASSUME Inv, Next
               PROVE  groups' \cap Gpu \subseteq groups \/ now < session.cleanup
    OBVIOUS
  <2>1. CASE Controller
    BY <2>1, CreatedInTime DEF Controller, BootstrapCpu, DeployGuard, SeeArmed,
       ReduceDeadline, ShortenGuard, SeeShortened, StartApply, ApplyReturns,
       LeaveController, Gpu, groupVars
  <2>2. CASE Mac
    BY <2>2 DEF Mac, LocalGuardPass, MacStops, LocalDestroy, groupVars
  <2>3. CASE Pod
    BY <2>3 DEF Pod, ListGroups, Acknowledge, FailToAcknowledge, DeleteCpu,
       DeleteGpu, DeletionFails, NextDeletion, PassFails, RestartGuard, groupVars
  <2>4. CASE Provider
    BY <2>4 DEF Provider, EvictGuard, Tick, Vanish, groupVars
  <2> QED
    BY <2>1, <2>2, <2>3, <2>4 DEF Next
<1> QED
  BY <1>1, GuardInvariance, PTL DEF Spec, NoneCreatedLate

(* No deadline of the session, of the local guard or of the cloud guard's *)
(* records ever moves later.                                              *)
THEOREM DeadlinesOnlyShorten == Spec => NeverExtended
<1> DEFINE Kept ==
             /\ session'.cleanup <= session.cleanup
             /\ session'.target <= session.target
             /\ localDeadline' <= localDeadline
             /\ ack # None => ack'.deadline <= ack.deadline
<1>1. Inv /\ [Next]_guardVars => [Kept]_guardVars
  <2> SUFFICES ASSUME Inv, Next PROVE Kept
    OBVIOUS
  <2>1. /\ session.cleanup \in Int /\ session.target \in Int
        /\ localDeadline \in Int /\ deadline \in Int
        /\ ack # None => ack.deadline \in Int
    BY DEF Inv, TypeOK, Record
  <2>2. CASE UNCHANGED <<session, localDeadline, ack>>
    BY <2>1, <2>2
  <2>3. CASE ReduceDeadline
    <3>1. now \in Nat
      BY ConstantTypes DEF Inv, TypeOK
    <3>2. requested = NotRequested
      BY <2>3 DEF ReduceDeadline, Advance, Inv, PhaseInv, Timed
    <3>3. session.cleanup = OriginalCleanup /\ session.target = OriginalTarget
      BY <3>2 DEF Inv, PhaseInv
    <3>4. session'.cleanup <= session.cleanup /\ session'.target <= session.target
      BY <2>3, <3>1, <3>3, AdmissionIsFunded, ConstantTypes DEF ReduceDeadline
    <3>5. UNCHANGED <<localDeadline, ack>>
      BY <2>3 DEF ReduceDeadline, macVars, podVars
    <3> QED
      BY <2>1, <3>4, <3>5
  <2>4. CASE LocalGuardPass
    <3>1. UNCHANGED <<session, ack>>
      BY <2>4 DEF LocalGuardPass, controllerVars, podVars
    <3>2. localDeadline' <= localDeadline
      BY <2>1, <2>4 DEF LocalGuardPass
    <3> QED
      BY <2>1, <3>1, <3>2
  <2>5. CASE Acknowledge
    <3>1. UNCHANGED <<session, localDeadline>>
      BY <2>5 DEF Acknowledge, controllerVars, macVars
    <3>2. ASSUME ack # None PROVE ack'.deadline <= ack.deadline
      <4>1. CASE RecordIsCurrent
        BY <2>1, <2>5, <3>2, <4>1 DEF Acknowledge
      <4>2. CASE ~RecordIsCurrent
        <5>1. ack'.deadline = Shortened(deadline)
          BY <2>5, <4>2 DEF Acknowledge
        <5>2. Shortened(deadline) <= ack.deadline
          <6>1. CASE request = None
            BY <2>1, <3>2, <6>1, ShortenedDeadline DEF Inv, HandshakeInv
          <6>2. CASE request # None
            BY <2>1, <3>2, <6>2, ShortenedDeadline DEF Inv, HandshakeInv
          <6> QED
            BY <6>1, <6>2
        <5> QED
          BY <5>1, <5>2
      <4> QED
        BY <4>1, <4>2
    <3> QED
      BY <2>1, <3>1, <3>2
  <2>6. CASE Controller /\ ~ReduceDeadline
    <3>1. UNCHANGED <<session, localDeadline, ack>>
      BY <2>6 DEF Controller, BootstrapCpu, DeployGuard, SeeArmed, ShortenGuard,
         SeeShortened, StartApply, CreateGroup, ApplyReturns, LeaveController,
         controllerVars, macVars, podVars
    <3> QED
      BY <2>2, <3>1
  <2>7. CASE Mac /\ ~LocalGuardPass
    <3>1. UNCHANGED <<session, localDeadline, ack>>
      BY <2>7 DEF Mac, MacStops, LocalDestroy, controllerVars, macVars, podVars
    <3> QED
      BY <2>2, <3>1
  <2>8. CASE Pod /\ ~Acknowledge
    <3>1. UNCHANGED <<session, localDeadline, ack>>
      BY <2>8 DEF Pod, ListGroups, FailToAcknowledge, DeleteCpu, DeleteGpu,
         DeletionFails, NextDeletion, PassFails, RestartGuard, controllerVars,
         macVars
    <3> QED
      BY <2>2, <3>1
  <2>9. CASE Provider
    <3>1. UNCHANGED <<session, localDeadline, ack>>
      BY <2>9 DEF Provider, EvictGuard, Tick, Vanish, controllerVars, macVars,
         podVars
    <3> QED
      BY <2>2, <3>1
  <2> HIDE DEF Kept
  <2> QED
    BY <2>3, <2>4, <2>5, <2>6, <2>7, <2>8, <2>9 DEF Next
<1>2. [][Kept]_guardVars => NeverExtended
  BY PTL DEF NeverExtended
<1> QED
  BY <1>1, <1>2, GuardInvariance, PTL DEF Spec

===============================================================================
