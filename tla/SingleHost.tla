------------------------------ MODULE SingleHost ------------------------------
(***************************************************************************)
(* A rented GPU host runs one program, the one its session was admitted    *)
(* for: both controllers refuse a session.json of another profile.         *)
(***************************************************************************)
EXTENDS LayoutSession, IpcDiagnostic

VARIABLE profile  \* session.json

hostVars == <<vars, ipcVars, profile>>

HostInit ==
  /\ Init /\ IpcInit
  /\ profile \in {"tp4-h200-layout-local", "ipc-diagnostic"}
  /\ profile # "ipc-diagnostic" => ~coordinator.splitFirst

MeasureLayouts(step) ==
  profile = "tp4-h200-layout-local" /\ step /\ UNCHANGED <<ipcVars, profile>>

DiagnoseIpc == profile = "ipc-diagnostic" /\ IpcNext /\ UNCHANGED <<vars, profile>>

HostNext == MeasureLayouts(Next) \/ DiagnoseIpc

(* layout-engines.py keeps running; a diagnostic goes on while it can. *)
HostSpec ==
  /\ HostInit /\ [][HostNext]_hostVars
  /\ WF_hostVars(MeasureLayouts(Restarting)) /\ WF_hostVars(DiagnoseIpc)

(* The types of both programs, and the clock of a case within its limits.  *)
HostTypeOK == TypeOK /\ IpcTypeOK
=============================================================================
