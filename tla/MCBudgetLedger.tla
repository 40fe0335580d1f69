--------------------------- MODULE MCBudgetLedger ---------------------------
(* Model values and bounds for BudgetLedger. *)
EXTENDS BudgetLedger, TLC

CONSTANTS once, many, lower

(* once is a single-attempt approval, many a standing one, and lower       *)
(* replaces the remaining authority by less.  By LegacySpend, lower opens  *)
(* the ledger where there was a legacy attempt, and many where not.        *)
MCBudget     == [a \in Approval |-> IF a = lower THEN 3 ELSE 5]
MCHistorical == [a \in Approval |-> 0]
LegacySpend  == [a \in Approval |-> IF a = lower THEN 2 ELSE 0]
MCExpires    == [a \in Approval |-> IF a = many THEN MaxTime ELSE MaxTime + 1]
MCAdmission  == [a \in Approval |-> 2]
MCRate       == [a \in Approval |-> 2]
MCTarget     == [a \in Approval |-> 1]

(* No attempt predates the ledger. *)
FreshInit == Init /\ ~legacyRun

FreshSpec == FreshInit /\ [][Next]_ledgerVars

Symmetric == Permutations(Launcher) \cup Permutations(Cleaner)
               \cup Permutations(Session \ {Legacy})
=============================================================================
