----------------------------- MODULE StagedBudget -----------------------------
(***************************************************************************)
(* How a router session turns money into time                              *)
(* (infra/topology/router-session-budget.py).  Every host is billed in     *)
(* full from the moment its node group is requested.  One unit of time is  *)
(* as long as the two rates say; amounts are whole numbers.                *)
(***************************************************************************)
EXTENDS Integers

CONSTANTS
  GpuRate,      \* of one GPU host, per unit of time (GPU_RATE)
  SupportRate,  \* of everything else (SUPPORT_RATE)
  Cap,          \* most that a session may plan with (CAP)
  Margin,       \* kept back from it (MARGIN)
  MinFunds,     \* the remaining budget that a session needs
  Cleanup,      \* time from the cleanup start to the target (CLEANUP_SECONDS)
  Work,         \* required_work_seconds
  NotRequested  \* request time of a host that is not there

ASSUME RateAssumption ==
  /\ GpuRate \in Nat /\ SupportRate \in Nat \ {0}
  /\ {Cap, Margin, MinFunds, Cleanup, Work} \subseteq Nat
  /\ NotRequested \notin Int

Elapsed(start, end) == IF start < end THEN end - start ELSE 0
HostCost(born, end) == IF born = NotRequested THEN 0
                                              ELSE GpuRate * Elapsed(born, end)
HostRate(born)      == IF born = NotRequested THEN 0 ELSE GpuRate

Cost(start, local, remote, end) ==
  SupportRate * Elapsed(start, end) + HostCost(local, end)
                                    + HostCost(remote, end)

(* A session that is not funded is refused. *)
Funded(remaining)      == remaining >= MinFunds
SpendingCap(remaining) == IF remaining < Cap THEN remaining ELSE Cap

Left(start, local, remote, now, cap) ==
  cap - Margin - Cost(start, local, remote, now)

(* Faulty variant: the rate of one host. *)
OneHostRate(local, remote) == SupportRate + HostRate(local)

Rate(local, remote) == SupportRate + HostRate(local) + HostRate(remote)

(* The deletion target: what the money allows, never beyond the original. *)
Target(start, local, remote, now, original, cap) ==
  LET funded == now + Left(start, local, remote, now, cap)
                        \div Rate(local, remote)
  IN  IF funded < original THEN funded ELSE original

(* Faulty variant: money alone decides. *)
AdmitsUntimed(start, now, original, cap) == Left(start, now, now, now, cap) > 0

(* Both hosts from now on: money is left, and after the cleanup reserve *)
(* there is time for the comparison.                                    *)
AdmitsPair(start, now, original, cap) ==
  /\ Left(start, now, now, now, cap) > 0
  /\ Target(start, now, now, now, original, cap) - Cleanup - now >= Work
===============================================================================
