--------------------------- MODULE PilotSessionProofs --------------------------
(***************************************************************************)
(* Proofs about PilotSession, for all sessions, operators and kinds of     *)
(* process that may be killed.                                             *)
(***************************************************************************)
EXTENDS PilotSession, TLAPS

(* The attempt is in the ledger. *)
Admitted(s) == s \in open \cup settled

(* The launcher of the session will not start an apply any more, unless it *)
(* has already decided to.                                                 *)
Stopping(s) == launch[s] # "none" /\ (launch[s] \in BeforeApply => stopRequested[s])

(* Nothing of the session exists, and nothing can come. *)
Deleted(s) == s \notin cloud /\ apply[s] # "creating" /\ launch[s] # "armed"

(* One rental is open, and what is closed has been verified. *)
LedgerInv ==
  /\ \A s, t \in open : s = t
  /\ \A s \in Session : s \in cleaned \cup settled => marker[s]

(* A launcher and its guard are of an admitted attempt. *)
LaunchInv ==
  \A s \in Session :
    /\ Admitted(s) => launch[s] \notin {"none", "checked"}
    /\ launch[s] \in (BeforeApply \ {"checked"}) \cup {"applying", "failed", "cleaning"}
         => Admitted(s)
    /\ guard[s] # "none" => Admitted(s) /\ launch[s] # "admitted"
    /\ due[s] => launch[s] \notin BeforeApply \cup {"none"}
    /\ stopRequested[s] => Admitted(s)

(* A guard goes only when its session is verified, and until then resources *)
(* have a guard that has started.                                           *)
AttendedInv ==
  \A s \in Session :
    /\ guard[s] = "gone" => marker[s]
    /\ "guard" \notin Mortal => guard[s] \notin {"failed", "killed"}
    /\ launch[s] \in {"ready", "armed"} \/ apply[s] = "creating" \/ s \in cloud
         => GuardIsReady(s) /\ Admitted(s)

(* The cleaners of a guard and of a launcher come and go with them. *)
OwnersInv ==
  /\ \A s \in Session :
       /\ job[GuardCleaner(s)] = s /\ job[LauncherCleaner(s)] = s
       /\ clean[GuardCleaner(s)] # "off" => guard[s] \in {"cleaning", "gone", "killed"}
       /\ guard[s] = "cleaning" => clean[GuardCleaner(s)] # "off"
       /\ clean[LauncherCleaner(s)] # "off" => launch[s] \in {"cleaning", "gone"}
  /\ clean[StopCleaner] # "off" => stop = "cleaning"

(* A cleaner works on an attempt that is to be deleted, with its lock, and *)
(* once.                                                                   *)
CleanerInv ==
  \A c \in Cleaner :
    /\ clean[c] # "off" => job[c] \in Session /\ Admitted(job[c]) /\ Stopping(job[c])
    /\ clean[c] \in {"tearing", "awaiting", "verified"} => lock[job[c]] = c
    /\ clean[c] \in {"tearing", "awaiting"} => ~marker[job[c]]
    /\ clean[c] = "verified" => marker[job[c]]
    /\ teardown[c] # "none" => clean[c] \in {"awaiting", "dead"}

(* Terraform's lock is held by the one operation on the state. *)
StateLockInv ==
  /\ \A s \in Session : apply[s] = "creating" => tfLock = ApplyOf(s)
  /\ \A c \in Cleaner : teardown[c] = "destroying" => tfLock = c

(* What a teardown has destroyed, or found empty, stays deleted. *)
DeletedInv ==
  /\ \A c \in Cleaner :
       /\ teardown[c] = "destroying" => launch[job[c]] # "armed"
       /\ teardown[c] \in {"destroyed", "zero"} => Deleted(job[c])
  /\ \A s \in Session : marker[s] => Deleted(s) /\ Stopping(s)

PilotInv ==
  /\ TypeOK /\ LedgerInv /\ LaunchInv /\ AttendedInv
  /\ OwnersInv /\ CleanerInv /\ StateLockInv /\ DeletedInv

-----------------------------------------------------------------------------
(* Cleaners are told apart, from nobody and from an apply. *)
LEMMA Cleaners ==
  /\ StopCleaner \in Cleaner /\ None \notin Cleaner
  /\ \A s, t \in Session :
       /\ GuardCleaner(s) \in Cleaner /\ LauncherCleaner(s) \in Cleaner
       /\ GuardCleaner(s) # StopCleaner /\ LauncherCleaner(s) # StopCleaner
       /\ GuardCleaner(s) # LauncherCleaner(t)
       /\ GuardCleaner(s) = GuardCleaner(t) => s = t
       /\ LauncherCleaner(s) = LauncherCleaner(t) => s = t
       /\ ApplyOf(s) = ApplyOf(t) => s = t
       /\ ApplyOf(s) \notin Cleaner /\ ApplyOf(s) # None
       /\ ApplyOf(s) \in {"apply"} \X Session
  /\ \A o \in Operator :
       /\ <<"operator", o>> \in Cleaner /\ <<"operator", o>> # StopCleaner
       /\ \A s \in Session :
            <<"operator", o>> # GuardCleaner(s) /\ <<"operator", o>> # LauncherCleaner(s)
BY PilotAssumption
DEF PilotAssumption, Cleaner, StopCleaner, GuardCleaner, LauncherCleaner, ApplyOf

(* A cleaner that is neither a guard's nor a launcher's is an operator's or *)
(* the stop's.                                                              *)
LEMMA CleanerKinds ==
  ASSUME NEW c \in Cleaner
  PROVE  \/ \E s \in Session : c = GuardCleaner(s)
         \/ \E s \in Session : c = LauncherCleaner(s)
         \/ \E o \in Operator : c = <<"operator", o>>
         \/ c = StopCleaner
BY DEF Cleaner, StopCleaner, GuardCleaner, LauncherCleaner

(* A launcher looks for the record of an emergency stop; it has no attempt yet. *)
LEMMA CheckStopRecordKeeps ==
  ASSUME PilotInv, NEW s \in Session, CheckStopRecord(s)
  PROVE  PilotInv'
<1> USE DEF PilotInv, CheckStopRecord
<1>1. TypeOK'
  BY Cleaners DEF TypeOK, budget, guardVars, stopVars, cleanVars, cloudVars, BeforeApply
<1>2. LedgerInv' BY DEF LedgerInv, budget, guardVars, stopVars, cleanVars, cloudVars
<1>3. LaunchInv'
  BY DEF LaunchInv, Admitted, TypeOK, budget, guardVars, stopVars, cleanVars, cloudVars
<1>4. AttendedInv'
  BY DEF AttendedInv, Admitted, GuardIsReady, budget, guardVars, stopVars, cleanVars, cloudVars
<1>5. OwnersInv' BY DEF OwnersInv, TypeOK, budget, guardVars, stopVars, cleanVars, cloudVars
<1>6. CleanerInv'
  BY DEF CleanerInv, Admitted, Stopping, budget, guardVars, stopVars, cleanVars, cloudVars
<1>7. StateLockInv' BY DEF StateLockInv, budget, guardVars, stopVars, cleanVars, cloudVars
<1>8. DeletedInv'
  BY DEF DeletedInv, Stopping, Deleted, budget, guardVars, stopVars, cleanVars, cloudVars
<1>9. QED BY <1>1, <1>2, <1>3, <1>4, <1>5, <1>6, <1>7, <1>8

(* Attempts that are settled leave the open ones. *)
LEMMA ReconcileKeeps == ASSUME PilotInv, NEW s \in Session, Reconcile(s) PROVE PilotInv'
<1> USE DEF PilotInv, Reconcile
<1>1. TypeOK'
  BY DEF TypeOK, Ledger!Settle, launchVars, guardVars, stopVars, cleanVars, cloudVars
<1>2. LedgerInv'
  BY DEF LedgerInv, TypeOK, Ledger!Settle, launchVars, guardVars, stopVars, cleanVars,
         cloudVars
<1>3. LaunchInv'
  BY DEF LaunchInv, Admitted, TypeOK, Ledger!Settle, launchVars, guardVars, stopVars, cleanVars,
         cloudVars
<1>4. AttendedInv'
  BY DEF AttendedInv, Admitted, GuardIsReady, Ledger!Settle, launchVars, guardVars, stopVars,
         cleanVars, cloudVars
<1>5. OwnersInv' BY DEF OwnersInv, launchVars, guardVars, stopVars, cleanVars, cloudVars
<1>6. CleanerInv'
  BY DEF CleanerInv, Admitted, Stopping, Ledger!Settle, launchVars, guardVars, stopVars,
         cleanVars, cloudVars
<1>7. StateLockInv' BY DEF StateLockInv, launchVars, guardVars, stopVars, cleanVars, cloudVars
<1>8. DeletedInv'
  BY DEF DeletedInv, launchVars, guardVars, stopVars, cleanVars, cloudVars, Stopping, Deleted
<1>9. QED BY <1>1, <1>2, <1>3, <1>4, <1>5, <1>6, <1>7, <1>8

(* The attempt is open once all others are closed and verified. *)
LEMMA AdmitKeeps == ASSUME PilotInv, NEW s \in Session, Admit(s) PROVE PilotInv'
<1> USE DEF PilotInv, Admit
<1>1. TypeOK'
  BY Cleaners DEF TypeOK, Ledger!Admit, guardVars, stopVars, cleanVars, cloudVars, BeforeApply
<1>2. LedgerInv'
  BY DEF LedgerInv, TypeOK, Ledger!Admit, guardVars, stopVars, cleanVars, cloudVars
<1>3. LaunchInv'
  BY DEF LaunchInv, Admitted, TypeOK, Ledger!Admit, guardVars, stopVars, cleanVars, cloudVars
<1>4. AttendedInv'
  BY DEF AttendedInv, Admitted, GuardIsReady, Ledger!Admit, guardVars, stopVars, cleanVars,
         cloudVars
<1>5. OwnersInv'
  BY DEF OwnersInv, TypeOK, Ledger!Admit, guardVars, stopVars, cleanVars, cloudVars
<1>6. CleanerInv'
  BY DEF CleanerInv, Admitted, Stopping, Ledger!Admit, guardVars, stopVars, cleanVars, cloudVars
<1>7. StateLockInv' BY DEF StateLockInv, guardVars, stopVars, cleanVars, cloudVars
<1>8. DeletedInv'
  BY DEF DeletedInv, Stopping, Deleted, TypeOK, guardVars, stopVars, cleanVars, cloudVars
<1>9. QED BY <1>1, <1>2, <1>3, <1>4, <1>5, <1>6, <1>7, <1>8

(* An admitted attempt has its guard. *)
LEMMA SpawnGuardKeeps == ASSUME PilotInv, NEW s \in Session, SpawnGuard(s) PROVE PilotInv'
<1> USE DEF PilotInv, SpawnGuard
<1>1. TypeOK' BY Cleaners DEF TypeOK, budget, stopVars, cleanVars, cloudVars, BeforeApply
<1>2. LedgerInv' BY DEF LedgerInv, budget, stopVars, cleanVars, cloudVars
<1>3. LaunchInv' BY DEF LaunchInv, Admitted, TypeOK, budget, stopVars, cleanVars, cloudVars
<1>4. AttendedInv'
  BY Cleaners DEF AttendedInv, Admitted, GuardIsReady, budget, stopVars, cleanVars, cloudVars,
         LaunchInv
<1>5. OwnersInv'
  BY Cleaners DEF OwnersInv, TypeOK, budget, stopVars, cleanVars, cloudVars, BeforeApply,
         LaunchInv
<1>6. CleanerInv'
  BY DEF CleanerInv, Admitted, Stopping, TypeOK, budget, stopVars, cleanVars, cloudVars
<1>7. StateLockInv' BY DEF StateLockInv, budget, stopVars, cleanVars, cloudVars
<1>8. DeletedInv'
  BY DEF DeletedInv, Stopping, Deleted, TypeOK, budget, stopVars, cleanVars, cloudVars
<1>9. QED BY <1>1, <1>2, <1>3, <1>4, <1>5, <1>6, <1>7, <1>8

(* The launcher goes on once its guard watches. *)
LEMMA SeeGuardReadyKeeps == ASSUME PilotInv, NEW s \in Session, SeeGuardReady(s) PROVE PilotInv'
<1> USE DEF PilotInv, SeeGuardReady
<1>1. TypeOK'
  BY Cleaners DEF TypeOK, budget, guardVars, stopVars, cleanVars, cloudVars, GuardIsReady,
         BeforeApply
<1>2. LedgerInv' BY DEF LedgerInv, budget, guardVars, stopVars, cleanVars, cloudVars
<1>3. LaunchInv'
  BY DEF LaunchInv, Admitted, TypeOK, budget, guardVars, stopVars, cleanVars, cloudVars
<1>4. AttendedInv'
  BY Cleaners DEF AttendedInv, Admitted, GuardIsReady, budget, guardVars, stopVars, cleanVars,
         cloudVars, LaunchInv
<1>5. OwnersInv'
  BY DEF OwnersInv, TypeOK, budget, guardVars, stopVars, cleanVars, cloudVars, GuardIsReady
<1>6. CleanerInv'
  BY DEF CleanerInv, Admitted, Stopping, TypeOK, budget, guardVars, stopVars, cleanVars,
         cloudVars
<1>7. StateLockInv' BY DEF StateLockInv, budget, guardVars, stopVars, cleanVars, cloudVars
<1>8. DeletedInv'
  BY DEF DeletedInv, Stopping, Deleted, TypeOK, budget, guardVars, stopVars, cleanVars,
         cloudVars
<1>9. QED BY <1>1, <1>2, <1>3, <1>4, <1>5, <1>6, <1>7, <1>8

(* A guard that never got ready is not relied on. *)
LEMMA GiveUpOnGuardKeeps == ASSUME PilotInv, NEW s \in Session, GiveUpOnGuard(s) PROVE PilotInv'
<1> USE DEF PilotInv, GiveUpOnGuard
<1>1. TypeOK' BY DEF TypeOK, budget, guardVars, stopVars, cleanVars, cloudVars
<1>2. LedgerInv' BY DEF LedgerInv, budget, guardVars, stopVars, cleanVars, cloudVars
<1>3. LaunchInv'
  BY DEF LaunchInv, Admitted, TypeOK, budget, guardVars, stopVars, cleanVars, cloudVars
<1>4. AttendedInv'
  BY DEF AttendedInv, Admitted, GuardIsReady, budget, guardVars, stopVars, cleanVars, cloudVars
<1>5. OwnersInv' BY DEF OwnersInv, TypeOK, budget, guardVars, stopVars, cleanVars, cloudVars
<1>6. CleanerInv'
  BY DEF CleanerInv, Admitted, Stopping, TypeOK, budget, guardVars, stopVars, cleanVars,
         cloudVars
<1>7. StateLockInv' BY DEF StateLockInv, budget, guardVars, stopVars, cleanVars, cloudVars
<1>8. DeletedInv'
  BY DEF DeletedInv, Stopping, Deleted, TypeOK, budget, guardVars, stopVars, cleanVars,
         cloudVars
<1>9. QED BY <1>1, <1>2, <1>3, <1>4, <1>5, <1>6, <1>7, <1>8

(* A launcher that sees no stop may start its apply. *)
LEMMA CheckBeforeApplyKeeps ==
  ASSUME PilotInv, NEW s \in Session, CheckBeforeApply(s)
  PROVE  PilotInv'
<1> USE DEF PilotInv, CheckBeforeApply
<1>1. TypeOK'
  BY Cleaners DEF TypeOK, budget, guardVars, stopVars, cleanVars, cloudVars, BeforeApply
<1>2. LedgerInv' BY DEF LedgerInv, budget, guardVars, stopVars, cleanVars, cloudVars
<1>3. LaunchInv'
  BY DEF LaunchInv, Admitted, TypeOK, budget, guardVars, stopVars, cleanVars, cloudVars
<1>4. AttendedInv'
  BY DEF AttendedInv, Admitted, GuardIsReady, TypeOK, budget, guardVars, stopVars, cleanVars,
         cloudVars
<1>5. OwnersInv' BY DEF OwnersInv, TypeOK, budget, guardVars, stopVars, cleanVars, cloudVars
<1>6. CleanerInv'
  BY DEF CleanerInv, Admitted, Stopping, TypeOK, budget, guardVars, stopVars, cleanVars,
         cloudVars
<1>7. StateLockInv' BY DEF StateLockInv, budget, guardVars, stopVars, cleanVars, cloudVars
<1>8. DeletedInv'
  BY Cleaners DEF DeletedInv, Stopping, Deleted, TypeOK, budget, guardVars, stopVars, cleanVars,
         cloudVars, BeforeApply, CleanerInv
<1>9. QED BY <1>1, <1>2, <1>3, <1>4, <1>5, <1>6, <1>7, <1>8

(* The apply starts, of an attempt that is open and attended. *)
LEMMA StartApplyKeeps == ASSUME PilotInv, NEW s \in Session, StartApply(s) PROVE PilotInv'
<1> USE DEF PilotInv, StartApply
<1>1. TypeOK'
  BY Cleaners DEF TypeOK, budget, guardVars, stopVars, cleanVars, BeforeApply, LedgerInv
<1>2. LedgerInv' BY DEF LedgerInv, budget, guardVars, stopVars, cleanVars
<1>3. LaunchInv' BY DEF LaunchInv, Admitted, TypeOK, budget, guardVars, stopVars, cleanVars
<1>4. AttendedInv'
  BY DEF AttendedInv, Admitted, GuardIsReady, TypeOK, budget, guardVars, stopVars, cleanVars
<1>5. OwnersInv' BY DEF OwnersInv, TypeOK, budget, guardVars, stopVars, cleanVars
<1>6. CleanerInv'
  BY DEF CleanerInv, Admitted, Stopping, TypeOK, budget, guardVars, stopVars, cleanVars
<1>7. StateLockInv'
  BY Cleaners DEF StateLockInv, TypeOK, budget, guardVars, stopVars, cleanVars, BeforeApply
<1>8. DeletedInv'
  BY Cleaners DEF DeletedInv, Stopping, Deleted, TypeOK, budget, guardVars, stopVars, cleanVars,
         CleanerInv
<1>9. QED BY <1>1, <1>2, <1>3, <1>4, <1>5, <1>6, <1>7, <1>8

(* The apply has ended by itself. *)
LEMMA ApplyReturnsKeeps == ASSUME PilotInv, NEW s \in Session, ApplyReturns(s) PROVE PilotInv'
<1> USE DEF PilotInv, ApplyReturns
<1>1. TypeOK' BY DEF TypeOK, budget, guardVars, stopVars, cleanVars, cloudVars
<1>2. LedgerInv' BY DEF LedgerInv, budget, guardVars, stopVars, cleanVars, cloudVars
<1>3. LaunchInv'
  BY Cleaners DEF LaunchInv, Admitted, budget, guardVars, stopVars, cleanVars, cloudVars,
         BeforeApply
<1>4. AttendedInv'
  BY DEF AttendedInv, Admitted, GuardIsReady, budget, guardVars, stopVars, cleanVars, cloudVars
<1>5. OwnersInv' BY DEF OwnersInv, TypeOK, budget, guardVars, stopVars, cleanVars, cloudVars
<1>6. CleanerInv'
  BY Cleaners DEF CleanerInv, Admitted, Stopping, budget, guardVars, stopVars, cleanVars,
         cloudVars, BeforeApply
<1>7. StateLockInv' BY DEF StateLockInv, budget, guardVars, stopVars, cleanVars, cloudVars
<1>8. DeletedInv'
  BY Cleaners DEF DeletedInv, Stopping, Deleted, budget, guardVars, stopVars, cleanVars,
         cloudVars, BeforeApply
<1>9. QED BY <1>1, <1>2, <1>3, <1>4, <1>5, <1>6, <1>7, <1>8

(* The launcher ends its apply, and with it what could still be created. *)
LEMMA InterruptApplyKeeps ==
  ASSUME PilotInv, NEW s \in Session, InterruptApply(s)
  PROVE  PilotInv'
<1> USE DEF PilotInv, InterruptApply
<1>1. TypeOK' BY DEF TypeOK, budget, guardVars, stopVars, cleanVars, EndApply
<1>2. LedgerInv' BY DEF LedgerInv, budget, guardVars, stopVars, cleanVars
<1>3. LaunchInv'
  BY Cleaners DEF LaunchInv, Admitted, TypeOK, budget, guardVars, stopVars, cleanVars,
         BeforeApply
<1>4. AttendedInv'
  BY DEF AttendedInv, Admitted, GuardIsReady, budget, guardVars, stopVars, cleanVars, EndApply
<1>5. OwnersInv' BY DEF OwnersInv, TypeOK, budget, guardVars, stopVars, cleanVars, EndApply
<1>6. CleanerInv'
  BY Cleaners DEF CleanerInv, Admitted, Stopping, budget, guardVars, stopVars, cleanVars,
         BeforeApply
<1>7. StateLockInv'
  BY Cleaners DEF StateLockInv, TypeOK, budget, guardVars, stopVars, cleanVars, EndApply,
         BeforeApply
<1>8. DeletedInv'
  BY Cleaners DEF DeletedInv, Stopping, Deleted, budget, guardVars, stopVars, cleanVars,
         EndApply, BeforeApply
<1>9. QED BY <1>1, <1>2, <1>3, <1>4, <1>5, <1>6, <1>7, <1>8

(* A launcher that fails cleans up its own attempt. *)
LEMMA FailureCleanupKeeps ==
  ASSUME PilotInv, NEW s \in Session, FailureCleanup(s)
  PROVE  PilotInv'
<1> USE DEF PilotInv, FailureCleanup
<1>1. TypeOK' BY DEF TypeOK, budget, guardVars, stopVars, cloudVars
<1>2. LedgerInv' BY DEF LedgerInv, budget, guardVars, stopVars, cloudVars
<1>3. LaunchInv'
  BY Cleaners DEF LaunchInv, Admitted, TypeOK, budget, guardVars, stopVars, cloudVars,
         BeforeApply
<1>4. AttendedInv'
  BY DEF AttendedInv, Admitted, GuardIsReady, TypeOK, budget, guardVars, stopVars, cloudVars
<1>5. OwnersInv'
  BY Cleaners DEF OwnersInv, TypeOK, budget, guardVars, stopVars, cloudVars, BeforeApply
<1>6. CleanerInv'
  BY Cleaners DEF CleanerInv, Admitted, Stopping, budget, guardVars, stopVars, cloudVars,
         BeforeApply, OwnersInv, LaunchInv
<1>7. StateLockInv' BY DEF StateLockInv, budget, guardVars, stopVars, cloudVars
<1>8. DeletedInv'
  BY Cleaners DEF DeletedInv, Stopping, Deleted, budget, guardVars, stopVars, cloudVars,
         BeforeApply
<1>9. QED BY <1>1, <1>2, <1>3, <1>4, <1>5, <1>6, <1>7, <1>8

(* The guard watches. *)
LEMMA GuardStartsKeeps == ASSUME PilotInv, NEW s \in Session, GuardStarts(s) PROVE PilotInv'
<1> USE DEF PilotInv, GuardStarts
<1>1. TypeOK' BY DEF TypeOK, budget, launchVars, stopVars, cleanVars, cloudVars
<1>2. LedgerInv' BY DEF LedgerInv, budget, launchVars, stopVars, cleanVars, cloudVars
<1>3. LaunchInv'
  BY DEF LaunchInv, Admitted, TypeOK, budget, launchVars, stopVars, cleanVars, cloudVars
<1>4. AttendedInv'
  BY DEF AttendedInv, Admitted, GuardIsReady, budget, launchVars, stopVars, cleanVars, cloudVars
<1>5. OwnersInv' BY DEF OwnersInv, TypeOK, budget, launchVars, stopVars, cleanVars, cloudVars
<1>6. CleanerInv'
  BY DEF CleanerInv, budget, launchVars, stopVars, cleanVars, cloudVars, Admitted, Stopping
<1>7. StateLockInv' BY DEF StateLockInv, budget, launchVars, stopVars, cleanVars, cloudVars
<1>8. DeletedInv'
  BY DEF DeletedInv, budget, launchVars, stopVars, cleanVars, cloudVars, Stopping, Deleted
<1>9. QED BY <1>1, <1>2, <1>3, <1>4, <1>5, <1>6, <1>7, <1>8

(* The deadline is the same for all steps. *)
LEMMA DeadlinePassesKeeps ==
  ASSUME PilotInv, NEW s \in Session, DeadlinePasses(s)
  PROVE  PilotInv'
<1> USE DEF PilotInv, DeadlinePasses
<1>1. TypeOK' BY DEF TypeOK, budget, launchVars, stopVars, cleanVars, cloudVars
<1>2. LedgerInv' BY DEF LedgerInv, budget, launchVars, stopVars, cleanVars, cloudVars
<1>3. LaunchInv'
  BY DEF LaunchInv, Admitted, TypeOK, budget, launchVars, stopVars, cleanVars, cloudVars
<1>4. AttendedInv'
  BY DEF AttendedInv, budget, launchVars, stopVars, cleanVars, cloudVars, Admitted,
         GuardIsReady
<1>5. OwnersInv' BY DEF OwnersInv, budget, launchVars, stopVars, cleanVars, cloudVars
<1>6. CleanerInv'
  BY DEF CleanerInv, budget, launchVars, stopVars, cleanVars, cloudVars, Admitted, Stopping
<1>7. StateLockInv' BY DEF StateLockInv, budget, launchVars, stopVars, cleanVars, cloudVars
<1>8. DeletedInv'
  BY DEF DeletedInv, budget, launchVars, stopVars, cleanVars, cloudVars, Stopping, Deleted
<1>9. QED BY <1>1, <1>2, <1>3, <1>4, <1>5, <1>6, <1>7, <1>8

(* The guard cleans up its own session, after the deadline. *)
LEMMA GuardActsKeeps == ASSUME PilotInv, NEW s \in Session, GuardActs(s) PROVE PilotInv'
<1> USE DEF PilotInv, GuardActs
<1>1. TypeOK' BY DEF TypeOK, budget, launchVars, stopVars, cloudVars
<1>2. LedgerInv' BY DEF LedgerInv, budget, launchVars, stopVars, cloudVars
<1>3. LaunchInv' BY DEF LaunchInv, Admitted, TypeOK, budget, launchVars, stopVars, cloudVars
<1>4. AttendedInv'
  BY DEF AttendedInv, Admitted, GuardIsReady, TypeOK, budget, launchVars, stopVars, cloudVars
<1>5. OwnersInv'
  BY Cleaners DEF OwnersInv, TypeOK, budget, launchVars, stopVars, cloudVars, BeforeApply
<1>6. CleanerInv'
  BY Cleaners DEF CleanerInv, Admitted, Stopping, budget, launchVars, stopVars, cloudVars,
         OwnersInv, LaunchInv
<1>7. StateLockInv' BY DEF StateLockInv, budget, launchVars, stopVars, cloudVars
<1>8. DeletedInv' BY DEF DeletedInv, budget, launchVars, stopVars, cloudVars, Stopping, Deleted
<1>9. QED BY <1>1, <1>2, <1>3, <1>4, <1>5, <1>6, <1>7, <1>8

(* A guard leaves a session that is verified. *)
LEMMA GuardLeavesKeeps == ASSUME PilotInv, NEW s \in Session, GuardLeaves(s) PROVE PilotInv'
<1> USE DEF PilotInv, GuardLeaves
<1>1. TypeOK' BY DEF TypeOK, budget, launchVars, stopVars, cleanVars, cloudVars
<1>2. LedgerInv' BY DEF LedgerInv, budget, launchVars, stopVars, cleanVars, cloudVars
<1>3. LaunchInv'
  BY DEF LaunchInv, Admitted, TypeOK, budget, launchVars, stopVars, cleanVars, cloudVars
<1>4. AttendedInv'
  BY DEF AttendedInv, Admitted, GuardIsReady, budget, launchVars, stopVars, cleanVars, cloudVars
<1>5. OwnersInv' BY DEF OwnersInv, TypeOK, budget, launchVars, stopVars, cleanVars, cloudVars
<1>6. CleanerInv'
  BY DEF CleanerInv, budget, launchVars, stopVars, cleanVars, cloudVars, Admitted, Stopping
<1>7. StateLockInv' BY DEF StateLockInv, budget, launchVars, stopVars, cleanVars, cloudVars
<1>8. DeletedInv'
  BY DEF DeletedInv, budget, launchVars, stopVars, cleanVars, cloudVars, Stopping, Deleted
<1>9. QED BY <1>1, <1>2, <1>3, <1>4, <1>5, <1>6, <1>7, <1>8

(* An operator cleans up a session of whom no launcher will start an apply. *)
LEMMA OperatorCleansKeeps ==
  ASSUME PilotInv, NEW o \in Operator, NEW s \in Session, OperatorCleans(o, s)
  PROVE  PilotInv'
<1> USE DEF PilotInv, OperatorCleans
<1>1. TypeOK' BY DEF TypeOK, budget, launchVars, guardVars, stopVars, cloudVars
<1>2. LedgerInv' BY DEF LedgerInv, budget, launchVars, guardVars, stopVars, cloudVars
<1>3. LaunchInv' BY DEF LaunchInv, budget, launchVars, guardVars, stopVars, cloudVars, Admitted
<1>4. AttendedInv'
  BY DEF AttendedInv, budget, launchVars, guardVars, stopVars, cloudVars, Admitted,
         GuardIsReady
<1>5. OwnersInv'
  BY Cleaners DEF OwnersInv, TypeOK, budget, launchVars, guardVars, stopVars, cloudVars,
         BeforeApply
<1>6. CleanerInv'
  <2> DEFINE own == <<"operator", o>>
  <2>1. own \in Cleaner BY Cleaners
  <2>2. clean[own] = "off" /\ teardown[own] = "none" BY <2>1 DEF CleanerInv
  <2>3. clean'[own] = "waiting" /\ job'[own] = s BY <2>1 DEF TypeOK
  <2>4. \A c \in Cleaner : c # own => clean'[c] = clean[c] /\ job'[c] = job[c] BY DEF TypeOK
  <2>5. UNCHANGED <<budget, launch, stopRequested, lock, marker, teardown>>
    BY DEF launchVars, stopVars, cloudVars
  <2>6. Admitted(s) /\ Stopping(s) BY DEF Admitted, Stopping, BeforeApply
  <2> HIDE DEF own
  <2>7. QED BY <2>1, <2>2, <2>3, <2>4, <2>5, <2>6 DEF CleanerInv, Admitted, Stopping, budget
<1>7. StateLockInv' BY DEF StateLockInv, budget, launchVars, guardVars, stopVars, cloudVars
<1>8. DeletedInv'
  <2>1. teardown[<<"operator", o>>] = "none" BY Cleaners DEF CleanerInv
  <2>2. \A c \in Cleaner : c # <<"operator", o>> => job'[c] = job[c] BY DEF TypeOK
  <2>3. QED
    BY <2>1, <2>2
    DEF DeletedInv, Stopping, Deleted, budget, launchVars, guardVars, stopVars, cloudVars
<1>9. QED BY <1>1, <1>2, <1>3, <1>4, <1>5, <1>6, <1>7, <1>8

(* One cleaner has the lock. *)
LEMMA AcquireLockKeeps == ASSUME PilotInv, NEW c \in Cleaner, AcquireLock(c) PROVE PilotInv'
<1> USE DEF PilotInv, AcquireLock
<1>1. TypeOK' BY DEF TypeOK, budget, launchVars, guardVars, stopVars, cloudVars
<1>2. LedgerInv' BY DEF LedgerInv, budget, launchVars, guardVars, stopVars, cloudVars
<1>3. LaunchInv' BY DEF LaunchInv, budget, launchVars, guardVars, stopVars, cloudVars, Admitted
<1>4. AttendedInv'
  BY DEF AttendedInv, budget, launchVars, guardVars, stopVars, cloudVars, Admitted,
         GuardIsReady
<1>5. OwnersInv' BY DEF OwnersInv, TypeOK, budget, launchVars, guardVars, stopVars, cloudVars
<1>6. CleanerInv'
  BY Cleaners DEF CleanerInv, Admitted, Stopping, TypeOK, budget, launchVars, guardVars,
         stopVars, cloudVars
<1>7. StateLockInv' BY DEF StateLockInv, budget, launchVars, guardVars, stopVars, cloudVars
<1>8. DeletedInv'
  BY DEF DeletedInv, budget, launchVars, guardVars, stopVars, cloudVars, Stopping, Deleted
<1>9. QED BY <1>1, <1>2, <1>3, <1>4, <1>5, <1>6, <1>7, <1>8

(* A teardown is of the job of its cleaner. *)
LEMMA StartTeardownKeeps == ASSUME PilotInv, NEW c \in Cleaner, StartTeardown(c) PROVE PilotInv'
<1> USE DEF PilotInv, StartTeardown
<1>1. TypeOK' BY DEF TypeOK, budget, launchVars, guardVars, stopVars
<1>2. LedgerInv' BY DEF LedgerInv, budget, launchVars, guardVars, stopVars
<1>3. LaunchInv' BY DEF LaunchInv, budget, launchVars, guardVars, stopVars, Admitted
<1>4. AttendedInv'
  BY DEF AttendedInv, budget, launchVars, guardVars, stopVars, Admitted, GuardIsReady
<1>5. OwnersInv' BY DEF OwnersInv, TypeOK, budget, launchVars, guardVars, stopVars
<1>6. CleanerInv'
  BY DEF CleanerInv, Admitted, Stopping, TypeOK, budget, launchVars, guardVars, stopVars
<1>7. StateLockInv' BY DEF StateLockInv, TypeOK, budget, launchVars, guardVars, stopVars
<1>8. DeletedInv'
  BY DEF DeletedInv, Stopping, Deleted, TypeOK, budget, launchVars, guardVars, stopVars
<1>9. QED BY <1>1, <1>2, <1>3, <1>4, <1>5, <1>6, <1>7, <1>8

(* The marker is written by a teardown that found nothing left. *)
LEMMA TeardownVerifiedKeeps ==
  ASSUME PilotInv, NEW c \in Cleaner, TeardownVerified(c)
  PROVE  PilotInv'
<1> USE DEF PilotInv, TeardownVerified
<1>1. TypeOK' BY DEF TypeOK, budget, launchVars, guardVars, stopVars
<1>2. LedgerInv' BY DEF LedgerInv, TypeOK, budget, launchVars, guardVars, stopVars
<1>3. LaunchInv' BY DEF LaunchInv, budget, launchVars, guardVars, stopVars, Admitted
<1>4. AttendedInv'
  BY DEF AttendedInv, Admitted, GuardIsReady, TypeOK, budget, launchVars, guardVars, stopVars
<1>5. OwnersInv' BY DEF OwnersInv, TypeOK, budget, launchVars, guardVars, stopVars
<1>6. CleanerInv'
  BY DEF CleanerInv, Admitted, Stopping, TypeOK, budget, launchVars, guardVars, stopVars
<1>7. StateLockInv' BY DEF StateLockInv, TypeOK, budget, launchVars, guardVars, stopVars
<1>8. DeletedInv'
  BY Cleaners DEF DeletedInv, Stopping, Deleted, budget, launchVars, guardVars, stopVars,
         CleanerInv
<1>9. QED BY <1>1, <1>2, <1>3, <1>4, <1>5, <1>6, <1>7, <1>8

(* What is retried starts from the beginning. *)
LEMMA TeardownRetriedKeeps ==
  ASSUME PilotInv, NEW c \in Cleaner, TeardownRetried(c)
  PROVE  PilotInv'
<1> USE DEF PilotInv, TeardownRetried
<1>1. TypeOK' BY DEF TypeOK, budget, launchVars, guardVars, stopVars
<1>2. LedgerInv' BY DEF LedgerInv, budget, launchVars, guardVars, stopVars
<1>3. LaunchInv' BY DEF LaunchInv, budget, launchVars, guardVars, stopVars, Admitted
<1>4. AttendedInv'
  BY DEF AttendedInv, budget, launchVars, guardVars, stopVars, Admitted, GuardIsReady
<1>5. OwnersInv' BY DEF OwnersInv, TypeOK, budget, launchVars, guardVars, stopVars
<1>6. CleanerInv'
  BY DEF CleanerInv, Admitted, Stopping, TypeOK, budget, launchVars, guardVars, stopVars
<1>7. StateLockInv' BY DEF StateLockInv, TypeOK, budget, launchVars, guardVars, stopVars
<1>8. DeletedInv'
  BY DEF DeletedInv, Stopping, Deleted, TypeOK, budget, launchVars, guardVars, stopVars
<1>9. QED BY <1>1, <1>2, <1>3, <1>4, <1>5, <1>6, <1>7, <1>8

(* A teardown that takes too long is left to itself. *)
LEMMA TeardownTimesOutKeeps ==
  ASSUME PilotInv, NEW c \in Cleaner, TeardownTimesOut(c)
  PROVE  PilotInv'
<1> USE DEF PilotInv, TeardownTimesOut
<1>1. TypeOK' BY DEF TypeOK, budget, launchVars, guardVars, stopVars, cleanVars
<1>2. LedgerInv' BY DEF LedgerInv, budget, launchVars, guardVars, stopVars, cleanVars
<1>3. LaunchInv' BY DEF LaunchInv, budget, launchVars, guardVars, stopVars, cleanVars, Admitted
<1>4. AttendedInv'
  BY DEF AttendedInv, budget, launchVars, guardVars, stopVars, cleanVars, Admitted,
         GuardIsReady
<1>5. OwnersInv' BY DEF OwnersInv, budget, launchVars, guardVars, stopVars, cleanVars
<1>6. CleanerInv'
  BY DEF CleanerInv, Admitted, Stopping, budget, launchVars, guardVars, stopVars, cleanVars
<1>7. StateLockInv'
  BY Cleaners DEF StateLockInv, TypeOK, budget, launchVars, guardVars, stopVars, cleanVars,
         BeforeApply
<1>8. DeletedInv'
  BY DEF DeletedInv, Stopping, Deleted, budget, launchVars, guardVars, stopVars, cleanVars
<1>9. QED BY <1>1, <1>2, <1>3, <1>4, <1>5, <1>6, <1>7, <1>8

(* An attempt is closed once its marker is there. *)
LEMMA MarkCleanedKeeps == ASSUME PilotInv, NEW c \in Cleaner, MarkCleaned(c) PROVE PilotInv'
<1> USE DEF PilotInv, MarkCleaned
<1>1. TypeOK' BY DEF TypeOK, Ledger!Clean, budget, stopVars, cloudVars, CleanerEnds
<1>2. LedgerInv'
  BY Cleaners DEF LedgerInv, TypeOK, Ledger!Clean, budget, stopVars, cloudVars, CleanerEnds,
         CleanerInv
<1>3. LaunchInv'
  BY Cleaners DEF LaunchInv, Admitted, Ledger!Clean, budget, stopVars, cloudVars, CleanerEnds,
         BeforeApply, OwnersInv
<1>4. AttendedInv'
  BY Cleaners DEF AttendedInv, Admitted, GuardIsReady, Ledger!Clean, budget, stopVars,
         cloudVars, CleanerEnds, CleanerInv, OwnersInv
<1>5. OwnersInv'
  BY DEF OwnersInv, TypeOK, Ledger!Clean, budget, stopVars, cloudVars, CleanerEnds
<1>6. CleanerInv'
  BY Cleaners DEF CleanerInv, Admitted, Stopping, TypeOK, Ledger!Clean, budget, stopVars,
         cloudVars, CleanerEnds, BeforeApply
<1>7. StateLockInv' BY DEF StateLockInv, budget, stopVars, cloudVars
<1>8. DeletedInv'
  BY Cleaners DEF DeletedInv, Stopping, Deleted, budget, stopVars, cloudVars, CleanerEnds,
         BeforeApply, CleanerInv
<1>9. QED BY <1>1, <1>2, <1>3, <1>4, <1>5, <1>6, <1>7, <1>8

(* The destroy takes the lock of the state, so no apply runs. *)
LEMMA BeginDestroyKeeps == ASSUME PilotInv, NEW c \in Cleaner, BeginDestroy(c) PROVE PilotInv'
<1> USE DEF PilotInv, BeginDestroy
<1>1. TypeOK' BY DEF TypeOK, budget, launchVars, guardVars, stopVars, cleanVars
<1>2. LedgerInv' BY DEF LedgerInv, budget, launchVars, guardVars, stopVars, cleanVars
<1>3. LaunchInv' BY DEF LaunchInv, budget, launchVars, guardVars, stopVars, cleanVars, Admitted
<1>4. AttendedInv'
  BY DEF AttendedInv, budget, launchVars, guardVars, stopVars, cleanVars, Admitted,
         GuardIsReady
<1>5. OwnersInv' BY DEF OwnersInv, budget, launchVars, guardVars, stopVars, cleanVars
<1>6. CleanerInv'
  BY DEF CleanerInv, Admitted, Stopping, budget, launchVars, guardVars, stopVars, cleanVars
<1>7. StateLockInv'
  BY Cleaners DEF StateLockInv, TypeOK, budget, launchVars, guardVars, stopVars, cleanVars,
         BeforeApply
<1>8. DeletedInv'
  BY Cleaners DEF DeletedInv, Stopping, Deleted, budget, launchVars, guardVars, stopVars,
         cleanVars, CleanerInv
<1>9. QED BY <1>1, <1>2, <1>3, <1>4, <1>5, <1>6, <1>7, <1>8

(* Nothing is left, of the session that was destroyed. *)
LEMMA FinishDestroyKeeps == ASSUME PilotInv, NEW c \in Cleaner, FinishDestroy(c) PROVE PilotInv'
<1> USE DEF PilotInv, FinishDestroy
<1>1. TypeOK' BY DEF TypeOK, budget, launchVars, guardVars, stopVars, cleanVars
<1>2. LedgerInv' BY DEF LedgerInv, budget, launchVars, guardVars, stopVars, cleanVars
<1>3. LaunchInv' BY DEF LaunchInv, budget, launchVars, guardVars, stopVars, cleanVars, Admitted
<1>4. AttendedInv'
  BY DEF AttendedInv, Admitted, GuardIsReady, budget, launchVars, guardVars, stopVars, cleanVars
<1>5. OwnersInv' BY DEF OwnersInv, budget, launchVars, guardVars, stopVars, cleanVars
<1>6. CleanerInv'
  BY DEF CleanerInv, Admitted, Stopping, budget, launchVars, guardVars, stopVars, cleanVars
<1>7. StateLockInv'
  BY Cleaners DEF StateLockInv, TypeOK, budget, launchVars, guardVars, stopVars, cleanVars,
         BeforeApply
<1>8. DeletedInv'
  BY Cleaners DEF DeletedInv, Stopping, Deleted, budget, launchVars, guardVars, stopVars,
         cleanVars, CleanerInv, StateLockInv
<1>9. QED BY <1>1, <1>2, <1>3, <1>4, <1>5, <1>6, <1>7, <1>8

(* The lock of the state is free again. *)
LEMMA FailDestroyKeeps == ASSUME PilotInv, NEW c \in Cleaner, FailDestroy(c) PROVE PilotInv'
<1> USE DEF PilotInv, FailDestroy
<1>1. TypeOK' BY DEF TypeOK, budget, launchVars, guardVars, stopVars, cleanVars
<1>2. LedgerInv' BY DEF LedgerInv, budget, launchVars, guardVars, stopVars, cleanVars
<1>3. LaunchInv' BY DEF LaunchInv, budget, launchVars, guardVars, stopVars, cleanVars, Admitted
<1>4. AttendedInv'
  BY DEF AttendedInv, budget, launchVars, guardVars, stopVars, cleanVars, Admitted,
         GuardIsReady
<1>5. OwnersInv' BY DEF OwnersInv, budget, launchVars, guardVars, stopVars, cleanVars
<1>6. CleanerInv'
  BY DEF CleanerInv, Admitted, Stopping, budget, launchVars, guardVars, stopVars, cleanVars
<1>7. StateLockInv'
  BY Cleaners DEF StateLockInv, TypeOK, budget, launchVars, guardVars, stopVars, cleanVars,
         BeforeApply
<1>8. DeletedInv'
  BY DEF DeletedInv, Stopping, Deleted, budget, launchVars, guardVars, stopVars, cleanVars
<1>9. QED BY <1>1, <1>2, <1>3, <1>4, <1>5, <1>6, <1>7, <1>8

(* The teardown has seen that nothing is left, and no apply can run. *)
LEMMA VerifyEmptyKeeps == ASSUME PilotInv, NEW c \in Cleaner, VerifyEmpty(c) PROVE PilotInv'
<1> USE DEF PilotInv, VerifyEmpty
<1>1. TypeOK' BY DEF TypeOK, budget, launchVars, guardVars, stopVars, cleanVars
<1>2. LedgerInv' BY DEF LedgerInv, budget, launchVars, guardVars, stopVars, cleanVars
<1>3. LaunchInv' BY DEF LaunchInv, budget, launchVars, guardVars, stopVars, cleanVars, Admitted
<1>4. AttendedInv'
  BY DEF AttendedInv, budget, launchVars, guardVars, stopVars, cleanVars, Admitted,
         GuardIsReady
<1>5. OwnersInv' BY DEF OwnersInv, budget, launchVars, guardVars, stopVars, cleanVars
<1>6. CleanerInv'
  BY DEF CleanerInv, Admitted, Stopping, TypeOK, budget, launchVars, guardVars, stopVars,
         cleanVars
<1>7. StateLockInv'
  BY DEF StateLockInv, TypeOK, budget, launchVars, guardVars, stopVars, cleanVars
<1>8. DeletedInv'
  BY DEF DeletedInv, Stopping, Deleted, TypeOK, budget, launchVars, guardVars, stopVars,
         cleanVars
<1>9. QED BY <1>1, <1>2, <1>3, <1>4, <1>5, <1>6, <1>7, <1>8

(* What a killed cleaner left behind exits. *)
LEMMA OrphanExitsKeeps == ASSUME PilotInv, NEW c \in Cleaner, OrphanExits(c) PROVE PilotInv'
<1> USE DEF PilotInv, OrphanExits
<1>1. TypeOK' BY DEF TypeOK, budget, launchVars, guardVars, stopVars, cleanVars
<1>2. LedgerInv' BY DEF LedgerInv, budget, launchVars, guardVars, stopVars, cleanVars
<1>3. LaunchInv' BY DEF LaunchInv, budget, launchVars, guardVars, stopVars, cleanVars, Admitted
<1>4. AttendedInv'
  BY DEF AttendedInv, budget, launchVars, guardVars, stopVars, cleanVars, Admitted,
         GuardIsReady
<1>5. OwnersInv' BY DEF OwnersInv, budget, launchVars, guardVars, stopVars, cleanVars
<1>6. CleanerInv'
  BY DEF CleanerInv, Admitted, Stopping, budget, launchVars, guardVars, stopVars, cleanVars
<1>7. StateLockInv'
  BY DEF StateLockInv, TypeOK, budget, launchVars, guardVars, stopVars, cleanVars
<1>8. DeletedInv'
  BY DEF DeletedInv, Stopping, Deleted, budget, launchVars, guardVars, stopVars, cleanVars
<1>9. QED BY <1>1, <1>2, <1>3, <1>4, <1>5, <1>6, <1>7, <1>8

(* An apply creates resources, of a session that is attended. *)
LEMMA CreateResourcesKeeps ==
  ASSUME PilotInv, NEW s \in Session, CreateResources(s)
  PROVE  PilotInv'
<1> USE DEF PilotInv, CreateResources
<1>1. TypeOK' BY DEF TypeOK, budget, launchVars, guardVars, stopVars, cleanVars
<1>2. LedgerInv' BY DEF LedgerInv, budget, launchVars, guardVars, stopVars, cleanVars
<1>3. LaunchInv' BY DEF LaunchInv, budget, launchVars, guardVars, stopVars, cleanVars, Admitted
<1>4. AttendedInv'
  BY DEF AttendedInv, Admitted, GuardIsReady, budget, launchVars, guardVars, stopVars, cleanVars
<1>5. OwnersInv' BY DEF OwnersInv, budget, launchVars, guardVars, stopVars, cleanVars
<1>6. CleanerInv'
  BY DEF CleanerInv, budget, launchVars, guardVars, stopVars, cleanVars, Admitted, Stopping
<1>7. StateLockInv' BY DEF StateLockInv, budget, launchVars, guardVars, stopVars, cleanVars
<1>8. DeletedInv'
  BY DEF DeletedInv, Stopping, Deleted, budget, launchVars, guardVars, stopVars, cleanVars
<1>9. QED BY <1>1, <1>2, <1>3, <1>4, <1>5, <1>6, <1>7, <1>8

(* The apply ends, and its lock is free. *)
LEMMA FinishApplyKeeps == ASSUME PilotInv, NEW s \in Session, FinishApply(s) PROVE PilotInv'
<1> USE DEF PilotInv, FinishApply
<1>1. TypeOK' BY DEF TypeOK, budget, guardVars, stopVars, cleanVars
<1>2. LedgerInv' BY DEF LedgerInv, budget, guardVars, stopVars, cleanVars
<1>3. LaunchInv' BY DEF LaunchInv, budget, guardVars, stopVars, cleanVars, Admitted
<1>4. AttendedInv'
  BY DEF AttendedInv, Admitted, GuardIsReady, TypeOK, budget, guardVars, stopVars, cleanVars
<1>5. OwnersInv' BY DEF OwnersInv, budget, guardVars, stopVars, cleanVars
<1>6. CleanerInv' BY DEF CleanerInv, budget, guardVars, stopVars, cleanVars, Admitted, Stopping
<1>7. StateLockInv'
  <2>1. /\ tfLock = ApplyOf(s) /\ teardown' = teardown
        /\ \A t \in Session \ {s} : apply'[t] = apply[t]
        /\ apply'[s] # "creating"
    BY DEF StateLockInv, TypeOK
  <2>2. \A t \in Session : apply'[t] # "creating"
    BY <2>1, Cleaners DEF StateLockInv
  <2>3. \A c \in Cleaner : teardown'[c] # "destroying"
    BY <2>1, Cleaners DEF StateLockInv
  <2>4. QED BY <2>2, <2>3 DEF StateLockInv
<1>8. DeletedInv'
  BY Cleaners DEF DeletedInv, Stopping, Deleted, TypeOK, budget, guardVars, stopVars, cleanVars,
         CleanerInv
<1>9. QED BY <1>1, <1>2, <1>3, <1>4, <1>5, <1>6, <1>7, <1>8

(* The record of an emergency stop touches no session. *)
LEMMA WriteStopRecordKeeps == ASSUME PilotInv, WriteStopRecord PROVE PilotInv'
<1> USE DEF PilotInv, WriteStopRecord
<1>1. TypeOK' BY DEF TypeOK, budget, launchVars, guardVars, cleanVars, cloudVars
<1>2. LedgerInv' BY DEF LedgerInv, budget, launchVars, guardVars, cleanVars, cloudVars
<1>3. LaunchInv'
  BY DEF LaunchInv, budget, launchVars, guardVars, cleanVars, cloudVars, Admitted
<1>4. AttendedInv'
  BY DEF AttendedInv, budget, launchVars, guardVars, cleanVars, cloudVars, Admitted,
         GuardIsReady
<1>5. OwnersInv' BY DEF OwnersInv, TypeOK, budget, launchVars, guardVars, cleanVars, cloudVars
<1>6. CleanerInv'
  BY DEF CleanerInv, budget, launchVars, guardVars, cleanVars, cloudVars, Admitted, Stopping
<1>7. StateLockInv' BY DEF StateLockInv, budget, launchVars, guardVars, cleanVars, cloudVars
<1>8. DeletedInv'
  BY DEF DeletedInv, budget, launchVars, guardVars, cleanVars, cloudVars, Stopping, Deleted
<1>9. QED BY <1>1, <1>2, <1>3, <1>4, <1>5, <1>6, <1>7, <1>8

(* A stop that finds no open attempt ends. *)
LEMMA FindNothingKeeps == ASSUME PilotInv, FindNothing PROVE PilotInv'
<1> USE DEF PilotInv, FindNothing
<1>1. TypeOK' BY DEF TypeOK, budget, launchVars, guardVars, cleanVars, cloudVars, Active
<1>2. LedgerInv' BY DEF LedgerInv, budget, launchVars, guardVars, cleanVars, cloudVars
<1>3. LaunchInv'
  BY DEF LaunchInv, budget, launchVars, guardVars, cleanVars, cloudVars, Admitted
<1>4. AttendedInv'
  BY DEF AttendedInv, budget, launchVars, guardVars, cleanVars, cloudVars, Admitted,
         GuardIsReady
<1>5. OwnersInv'
  BY DEF OwnersInv, TypeOK, budget, launchVars, guardVars, cleanVars, cloudVars, Active
<1>6. CleanerInv'
  BY DEF CleanerInv, budget, launchVars, guardVars, cleanVars, cloudVars, Admitted, Stopping
<1>7. StateLockInv' BY DEF StateLockInv, budget, launchVars, guardVars, cleanVars, cloudVars
<1>8. DeletedInv'
  BY DEF DeletedInv, budget, launchVars, guardVars, cleanVars, cloudVars, Stopping, Deleted
<1>9. QED BY <1>1, <1>2, <1>3, <1>4, <1>5, <1>6, <1>7, <1>8

(* The launcher is asked to stop. *)
LEMMA RequestStopKeeps == ASSUME PilotInv, NEW s \in Session, RequestStop(s) PROVE PilotInv'
<1> USE DEF PilotInv, RequestStop
<1>1. TypeOK' BY DEF TypeOK, budget, launchVars, guardVars, cleanVars, cloudVars, Active
<1>2. LedgerInv' BY DEF LedgerInv, budget, launchVars, guardVars, cleanVars, cloudVars
<1>3. LaunchInv'
  BY DEF LaunchInv, Admitted, budget, launchVars, guardVars, cleanVars, cloudVars, Active
<1>4. AttendedInv'
  BY DEF AttendedInv, budget, launchVars, guardVars, cleanVars, cloudVars, Admitted,
         GuardIsReady
<1>5. OwnersInv'
  BY DEF OwnersInv, TypeOK, budget, launchVars, guardVars, cleanVars, cloudVars, Active
<1>6. CleanerInv'
  BY DEF CleanerInv, Admitted, Stopping, budget, launchVars, guardVars, cleanVars, cloudVars
<1>7. StateLockInv' BY DEF StateLockInv, budget, launchVars, guardVars, cleanVars, cloudVars
<1>8. DeletedInv'
  BY DEF DeletedInv, Stopping, Deleted, budget, launchVars, guardVars, cleanVars, cloudVars
<1>9. QED BY <1>1, <1>2, <1>3, <1>4, <1>5, <1>6, <1>7, <1>8

(* The launcher is signalled. *)
LEMMA SignalLauncherKeeps ==
  ASSUME PilotInv, NEW s \in Session, SignalLauncher(s)
  PROVE  PilotInv'
<1> USE DEF PilotInv, SignalLauncher
<1>1. TypeOK' BY DEF TypeOK, budget, guardVars, EndApply, LoseCleaner
<1>2. LedgerInv' BY DEF LedgerInv, budget, guardVars
<1>3. LaunchInv'
  BY Cleaners DEF LaunchInv, Admitted, TypeOK, budget, guardVars, EndApply, LoseCleaner,
         BeforeApply
<1>4. AttendedInv'
  BY DEF AttendedInv, Admitted, GuardIsReady, TypeOK, budget, guardVars, EndApply, LoseCleaner
<1>5. OwnersInv'
  BY Cleaners DEF OwnersInv, TypeOK, budget, guardVars, EndApply, LoseCleaner, BeforeApply
<1>6. CleanerInv'
  BY Cleaners DEF CleanerInv, Admitted, Stopping, TypeOK, budget, guardVars, LoseCleaner,
         BeforeApply, OwnersInv, LaunchInv
<1>7. StateLockInv'
  BY Cleaners DEF StateLockInv, TypeOK, budget, guardVars, EndApply, LoseCleaner, BeforeApply
<1>8. DeletedInv'
  BY Cleaners DEF DeletedInv, Stopping, Deleted, TypeOK, budget, guardVars, EndApply, CleanerInv
<1>9. QED BY <1>1, <1>2, <1>3, <1>4, <1>5, <1>6, <1>7, <1>8

(* The stop cleans up a session whose launcher has been told to stop. *)
LEMMA StopCleansKeeps == ASSUME PilotInv, NEW s \in Session, StopCleans(s) PROVE PilotInv'
<1> USE DEF PilotInv, StopCleans
<1>1. TypeOK' BY DEF TypeOK, budget, launchVars, guardVars, cloudVars
<1>2. LedgerInv' BY DEF LedgerInv, budget, launchVars, guardVars, cloudVars
<1>3. LaunchInv' BY DEF LaunchInv, budget, launchVars, guardVars, cloudVars, Admitted
<1>4. AttendedInv'
  BY DEF AttendedInv, budget, launchVars, guardVars, cloudVars, Admitted, GuardIsReady
<1>5. OwnersInv'
  BY Cleaners DEF OwnersInv, TypeOK, budget, launchVars, guardVars, cloudVars, BeforeApply
<1>6. CleanerInv'
  BY Cleaners DEF CleanerInv, Admitted, Stopping, TypeOK, budget, launchVars, guardVars,
         cloudVars, OwnersInv, LaunchInv
<1>7. StateLockInv' BY DEF StateLockInv, budget, launchVars, guardVars, cloudVars
<1>8. DeletedInv'
  BY Cleaners DEF DeletedInv, Stopping, Deleted, budget, launchVars, guardVars, cloudVars,
         CleanerInv, OwnersInv
<1>9. QED BY <1>1, <1>2, <1>3, <1>4, <1>5, <1>6, <1>7, <1>8

(* A launcher that is killed leaves its apply, and its guard. *)
LEMMA KillLauncherKeeps == ASSUME PilotInv, NEW s \in Session, KillLauncher(s) PROVE PilotInv'
<1> USE DEF PilotInv, KillLauncher
<1>1. TypeOK' BY DEF TypeOK, budget, guardVars, stopVars, cloudVars, LoseCleaner
<1>2. LedgerInv' BY DEF LedgerInv, budget, guardVars, stopVars, cloudVars
<1>3. LaunchInv'
  BY Cleaners DEF LaunchInv, Admitted, TypeOK, budget, guardVars, stopVars, cloudVars,
         BeforeApply
<1>4. AttendedInv'
  BY DEF AttendedInv, Admitted, GuardIsReady, TypeOK, budget, guardVars, stopVars, cloudVars
<1>5. OwnersInv'
  BY Cleaners DEF OwnersInv, TypeOK, budget, guardVars, stopVars, cloudVars, LoseCleaner,
         BeforeApply
<1>6. CleanerInv'
  BY Cleaners DEF CleanerInv, Admitted, Stopping, TypeOK, budget, guardVars, stopVars,
         cloudVars, LoseCleaner, BeforeApply, OwnersInv, LaunchInv
<1>7. StateLockInv' BY DEF StateLockInv, budget, guardVars, stopVars, cloudVars
<1>8. DeletedInv'
  BY Cleaners DEF DeletedInv, Stopping, Deleted, budget, guardVars, stopVars, cloudVars,
         BeforeApply
<1>9. QED BY <1>1, <1>2, <1>3, <1>4, <1>5, <1>6, <1>7, <1>8

(* A guard that is killed leaves its cleanup. *)
LEMMA KillGuardKeeps == ASSUME PilotInv, NEW s \in Session, KillGuard(s) PROVE PilotInv'
<1> USE DEF PilotInv, KillGuard
<1>1. TypeOK'
  BY Cleaners DEF TypeOK, budget, launchVars, stopVars, cloudVars, LoseCleaner, BeforeApply
<1>2. LedgerInv' BY DEF LedgerInv, budget, launchVars, stopVars, cloudVars
<1>3. LaunchInv'
  BY DEF LaunchInv, Admitted, TypeOK, budget, launchVars, stopVars, cloudVars, LoseCleaner
<1>4. AttendedInv'
  BY DEF AttendedInv, Admitted, GuardIsReady, TypeOK, budget, launchVars, stopVars, cloudVars
<1>5. OwnersInv'
  BY Cleaners DEF OwnersInv, TypeOK, budget, launchVars, stopVars, cloudVars, LoseCleaner,
         BeforeApply
<1>6. CleanerInv'
  <2> USE DEF CleanerInv, Admitted, Stopping, budget, launchVars, stopVars, cloudVars
  <2>1. CASE UNCHANGED <<clean, lock>> BY <2>1
  <2>2. CASE guard[s] = "cleaning" /\ LoseCleaner(GuardCleaner(s))
    <3>1. clean[GuardCleaner(s)] # "off" BY <2>2 DEF OwnersInv
    <3>2. QED BY <2>2, <3>1, Cleaners DEF LoseCleaner, TypeOK
  <2>3. QED BY <2>1, <2>2
<1>7. StateLockInv' BY DEF StateLockInv, budget, launchVars, stopVars, cloudVars
<1>8. DeletedInv' BY DEF DeletedInv, budget, launchVars, stopVars, cloudVars, Stopping, Deleted
<1>9. QED BY <1>1, <1>2, <1>3, <1>4, <1>5, <1>6, <1>7, <1>8

(* A cleaner that is killed leaves its teardown. *)
LEMMA KillCleanupKeeps == ASSUME PilotInv, NEW c \in Cleaner, KillCleanup(c) PROVE PilotInv'
<1> USE DEF PilotInv, KillCleanup
<1>1. TypeOK' BY DEF TypeOK, budget, launchVars, guardVars, stopVars, cloudVars, LoseCleaner
<1>2. LedgerInv' BY DEF LedgerInv, budget, launchVars, guardVars, stopVars, cloudVars
<1>3. LaunchInv' BY DEF LaunchInv, budget, launchVars, guardVars, stopVars, cloudVars, Admitted
<1>4. AttendedInv'
  BY DEF AttendedInv, budget, launchVars, guardVars, stopVars, cloudVars, Admitted,
         GuardIsReady
<1>5. OwnersInv'
  BY DEF OwnersInv, TypeOK, budget, launchVars, guardVars, stopVars, cloudVars, LoseCleaner
<1>6. CleanerInv'
  BY DEF CleanerInv, Admitted, Stopping, TypeOK, budget, launchVars, guardVars, stopVars,
         cloudVars, LoseCleaner
<1>7. StateLockInv' BY DEF StateLockInv, budget, launchVars, guardVars, stopVars, cloudVars
<1>8. DeletedInv'
  BY DEF DeletedInv, budget, launchVars, guardVars, stopVars, cloudVars, Stopping, Deleted
<1>9. QED BY <1>1, <1>2, <1>3, <1>4, <1>5, <1>6, <1>7, <1>8

-----------------------------------------------------------------------------
(* Before the first launch there is nothing. *)
LEMMA InitKeeps == Init => PilotInv
<1> SUFFICES ASSUME Init PROVE PilotInv OBVIOUS
<1> USE DEF Init, Ledger!Init
<1>1. \A s \in Session : job[GuardCleaner(s)] = s /\ job[LauncherCleaner(s)] = s
  BY Cleaners DEF GuardCleaner, LauncherCleaner
<1>2. TypeOK
  <2>1. job \in [Cleaner -> Session \cup {None}]
    BY CleanerKinds DEF StopCleaner, GuardCleaner, LauncherCleaner
  <2>2. QED BY <2>1 DEF TypeOK
<1>3. LedgerInv BY DEF LedgerInv
<1>4. LaunchInv BY DEF LaunchInv, Admitted, BeforeApply
<1>5. AttendedInv BY DEF AttendedInv
<1>6. OwnersInv BY <1>1, Cleaners DEF OwnersInv
<1>7. CleanerInv BY DEF CleanerInv
<1>8. StateLockInv BY DEF StateLockInv
<1>9. DeletedInv BY DEF DeletedInv
<1>10. QED BY <1>2, <1>3, <1>4, <1>5, <1>6, <1>7, <1>8, <1>9 DEF PilotInv

(* Nothing but the listed steps changes the state. *)
LEMMA StutterKeeps == PilotInv /\ UNCHANGED pilotVars => PilotInv'
<1> SUFFICES ASSUME PilotInv, UNCHANGED pilotVars PROVE PilotInv' OBVIOUS
<1> USE DEF PilotInv, pilotVars, budget, launchVars, guardVars, stopVars, cleanVars, cloudVars
<1>1. TypeOK' BY DEF TypeOK
<1>2. LedgerInv' BY DEF LedgerInv
<1>3. LaunchInv' BY DEF LaunchInv, Admitted
<1>4. AttendedInv' BY DEF AttendedInv, GuardIsReady, Admitted
<1>5. OwnersInv' BY DEF OwnersInv
<1>6. CleanerInv' BY DEF CleanerInv, Admitted, Stopping
<1>7. StateLockInv' BY DEF StateLockInv
<1>8. DeletedInv' BY DEF DeletedInv, Deleted, Stopping
<1>9. QED BY <1>1, <1>2, <1>3, <1>4, <1>5, <1>6, <1>7, <1>8

(* What the launcher, the guard and the terraform of a session do. *)
LEMMA SessionKeeps ==
  ASSUME PilotInv, NEW s \in Session,
         \/ LauncherStep(s) \/ GuardStep(s) \/ DeadlinePasses(s)
         \/ CreateResources(s) \/ FinishApply(s) \/ KillLauncher(s) \/ KillGuard(s)
  PROVE  PilotInv'
BY CheckStopRecordKeeps, ReconcileKeeps, AdmitKeeps, SpawnGuardKeeps, SeeGuardReadyKeeps,
   GiveUpOnGuardKeeps, CheckBeforeApplyKeeps, StartApplyKeeps, ApplyReturnsKeeps,
   InterruptApplyKeeps, FailureCleanupKeeps, GuardStartsKeeps, DeadlinePassesKeeps,
   GuardActsKeeps, GuardLeavesKeeps, CreateResourcesKeeps, FinishApplyKeeps,
   KillLauncherKeeps, KillGuardKeeps
DEF LauncherStep, LauncherRuns, GuardStep

(* What a cleaner and its teardown do. *)
LEMMA CleanupKeeps ==
  ASSUME PilotInv, NEW c \in Cleaner,
         CleanerStep(c) \/ TeardownStep(c) \/ TeardownTimesOut(c) \/ KillCleanup(c)
  PROVE  PilotInv'
BY AcquireLockKeeps, StartTeardownKeeps, TeardownVerifiedKeeps, TeardownRetriedKeeps,
   MarkCleanedKeeps, TeardownTimesOutKeeps, BeginDestroyKeeps, FinishDestroyKeeps,
   FailDestroyKeeps, VerifyEmptyKeeps, OrphanExitsKeeps, KillCleanupKeeps
DEF CleanerStep, TeardownStep

(* What the emergency stop does. *)
LEMMA StopKeeps == ASSUME PilotInv, WriteStopRecord \/ StopRuns PROVE PilotInv'
BY WriteStopRecordKeeps, FindNothingKeeps, RequestStopKeeps, SignalLauncherKeeps,
   StopCleansKeeps
DEF StopRuns

(* The strengthened invariant holds in every reachable state. *)
THEOREM PilotInvariance == Spec => []PilotInv
<1>1. PilotInv /\ [Next]_pilotVars => PilotInv'
  <2> SUFFICES ASSUME PilotInv, [Next]_pilotVars PROVE PilotInv' OBVIOUS
  <2>1. CASE UNCHANGED pilotVars BY <2>1, StutterKeeps
  <2>2. CASE Next BY <2>2, SessionKeeps, CleanupKeeps, OperatorCleansKeeps, StopKeeps DEF Next
  <2>3. QED BY <2>1, <2>2
<1>2. QED BY InitKeeps, <1>1, PTL DEF Spec

(* It implies the invariants that the runs check. *)
LEMMA PilotInvImplies ==
  PilotInv => /\ TypeOK /\ VerifiedMeansDeleted /\ BilledIsOpen
              /\ "guard" \notin Mortal => NeverUnattended
<1> SUFFICES ASSUME PilotInv
             PROVE  /\ TypeOK /\ VerifiedMeansDeleted /\ BilledIsOpen
                    /\ "guard" \notin Mortal => NeverUnattended
  OBVIOUS
<1> USE DEF PilotInv
<1>1. VerifiedMeansDeleted BY DEF VerifiedMeansDeleted, DeletedInv, Deleted
<1>2. BilledIsOpen
  BY <1>1 DEF BilledIsOpen, VerifiedMeansDeleted, AttendedInv, Admitted, LedgerInv, TypeOK
<1>3. "guard" \notin Mortal => NeverUnattended
  BY <1>1 DEF NeverUnattended, VerifiedMeansDeleted, AttendedInv, GuardIsReady
<1>4. QED BY <1>1, <1>2, <1>3

(* Launchers, guards, cleaners, teardowns and the cloud keep their types,  *)
(* and only an open attempt is marked as cleaned.                          *)
THEOREM PilotTypeCorrect == Spec => []TypeOK
<1>1. QED BY PilotInvariance, PilotInvImplies, PTL

(* A session whose marker cleanup-verified.json is there has no resources  *)
(* and no apply that could still create some, whoever is killed.           *)
THEOREM VerifiedAreDeleted == Spec => []VerifiedMeansDeleted
<1>1. QED BY PilotInvariance, PilotInvImplies, PTL

(* What is billed belongs to the one open attempt, whoever is killed. *)
THEOREM OnlyOpenIsBilled == Spec => []BilledIsOpen
<1>1. QED BY PilotInvariance, PilotInvImplies, PTL

(* Resources never exist without a guard that watches or cleans up, as     *)
(* long as no guard is killed.                                             *)
THEOREM AlwaysAttended == ASSUME "guard" \notin Mortal PROVE Spec => []NeverUnattended
<1>1. PilotInv => NeverUnattended BY PilotInvImplies
<1>2. QED BY <1>1, PilotInvariance, PTL

(* A cleanup that is not killed holds the lock of an attempt that is not   *)
(* verified, and so of the only one that can have resources.               *)
THEOREM DestroysAreScoped == Spec => ScopedDestroy
<1>1. ASSUME PilotInv, [Next]_pilotVars, NEW c \in Cleaner,
             teardown[c] = "destroying", teardown'[c] = "destroyed", clean[c] # "dead"
      PROVE  cloud \subseteq {job[c]}
  <2>1. job[c] \in Session /\ Admitted(job[c]) /\ ~marker[job[c]]
    BY <1>1 DEF PilotInv, CleanerInv
  <2>2. job[c] \in open BY <1>1, <2>1 DEF PilotInv, LedgerInv, Admitted
  <2>3. cloud \subseteq open BY <1>1, PilotInvImplies DEF BilledIsOpen
  <2>4. QED BY <1>1, <2>2, <2>3 DEF PilotInv, LedgerInv
<1>2. PilotInv /\ [Next]_pilotVars =>
        [\A c \in Cleaner :
           teardown[c] = "destroying" /\ teardown'[c] = "destroyed" /\ clean[c] # "dead"
             => cloud \subseteq {job[c]}]_pilotVars
  BY <1>1
<1>3. QED BY <1>2, PilotInvariance, PTL DEF Spec, ScopedDestroy
===============================================================================
