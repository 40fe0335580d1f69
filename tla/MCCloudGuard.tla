---------------------------- MODULE MCCloudGuard ----------------------------
(* Small instances of CloudGuard: a session of four time units, whose      *)
(* original target money shortens.                                         *)
EXTENDS CloudGuard
==============================================================================
