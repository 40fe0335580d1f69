--------------------------- MODULE MCRouterSession ---------------------------
EXTENDS RouterSession

CONSTANTS diagnostic, hard

MCTrials == << [mode |-> "qualify", policy |-> None, pin |-> "remote", size |-> 2],
               [mode |-> "train", policy |-> diagnostic, pin |-> "local", size |-> 1],
               [mode |-> "held", policy |-> hard, pin |-> None, size |-> 2] >>

MCOutcome == { [good |-> 1, bad |-> 0], [good |-> 0, bad |-> 0], [good |-> 2, bad |-> 1] }
=============================================================================
