-------------------------- MODULE RentalLifecycle --------------------------
(***************************************************************************)
(* What the session store promises, without files, locks or processes: one *)
(* rental at a time.  A rental is admitted when none is open; it is closed *)
(* in two steps, deletion verified and then cost settled; a settled rental *)
(* never comes back.  BudgetLedger implements it.                          *)
(***************************************************************************)
CONSTANTS Session, Legacy

VARIABLES
  open,     \* rentals admitted and not settled
  cleaned,  \* open rentals whose deletion is verified
  settled   \* rentals deleted and charged

vars == <<open, cleaned, settled>>

Init == open = {} /\ cleaned = {} /\ settled = {}

(* The one attempt that predates the ledger is taken over as settled. *)
Adopt ==
  /\ open = {} /\ settled = {}
  /\ settled' = {Legacy}
  /\ UNCHANGED <<open, cleaned>>

Admit(s) ==
  /\ open = {}
  /\ s \notin settled
  /\ open' = {s}
  /\ UNCHANGED <<cleaned, settled>>

Clean(s) ==
  /\ s \in open \ cleaned
  /\ cleaned' = {s}
  /\ UNCHANGED <<open, settled>>

Settle(s) ==
  /\ s \in cleaned
  /\ settled' = settled \cup {s}
  /\ open' = open \ {s}
  /\ cleaned' = {}

Next == Adopt \/ \E s \in Session : Admit(s) \/ Clean(s) \/ Settle(s)

Spec == Init /\ [][Next]_vars
=============================================================================
