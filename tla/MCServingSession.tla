-------------------------- MODULE MCServingSession --------------------------
(* A small serving session: one arm per decoder and one policy block. *)
EXTENDS ServingSession

CONSTANTS soft, hard

MCPlan == << [pin |-> "local", count |-> 1], [pin |-> "remote", count |-> 1],
             [pin |-> None, count |-> 1] >>

MCOutcome == { [good |-> 1, bad |-> 0], [good |-> 0, bad |-> 0], [good |-> 0, bad |-> 1] }
=============================================================================
