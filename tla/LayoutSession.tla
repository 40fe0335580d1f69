---------------------------- MODULE LayoutSession ----------------------------
(***************************************************************************)
(* One GPU host measured under several cache layouts in a row, an epoch    *)
(* each.  In the engine container layout-engines.py starts one supervisor  *)
(* (tp4-engines.py) after the other and drains what an epoch leaves behind *)
(* before the next; in the client Pod layout-client.py measures an epoch;  *)
(* run-layout-local.py on the Mac orders them through files it reads and   *)
(* writes with kubectl exec.                                               *)
(*                                                                         *)
(* A process is [pid, id, sig, cuda, reused]: id is [epoch, kind] for a    *)
(* process that carries the epoch's marker in its environment, epoch 0 for *)
(* one that does not, and stands for the start time that tells processes   *)
(* of one pid apart; reused (history) says that it has taken the number    *)
(* that a drain was about to signal.  Timeouts may pass whenever what they *)
(* wait for has not happened.                                              *)
(***************************************************************************)
EXTENDS Naturals, Sequences

CONSTANTS
  Epochs,     \* number of epochs, each with its layout
  Pids,       \* bound on process numbers
  Requests,   \* requests of a client run
  Rounds,     \* bound on the rounds of a drain: its 50 s
  MaxProbes,  \* bound on commands of the controller that run in the container
  MaxCrashes  \* bound on engine processes that die by themselves

ASSUME LayoutAssumption ==
  /\ {Epochs, Requests, Rounds} \subseteq Nat \ {0} /\ Pids \subseteq Nat
  /\ {MaxProbes, MaxCrashes} \subseteq Nat

VARIABLES
  sup,      \* layout-engines.py: [at, epoch, again, stopping]
  engine,   \* tp4-engines.py of the epoch: [at, failed, forked]
  procs,    \* processes of the container but layout-engines.py itself
  contexts, \* ids of the processes whose CUDA contexts exist
  drain,    \* drain_epoch: [round, listed, aim, busy]
  files,    \* what is in /results: [current, advance, failure, engine, shutdown]
  ctl,      \* run-layout-local.py: [at, epoch, errors]
  client,   \* layout-client.py: [at, base, rows]
  retained, \* what is copied of each epoch: rows of the client, and its engines' files
  drained,  \* epochs whose shutdown marker the controller has recorded
  qualified,\* qualification-complete.json is written
  probes, crashes

vars == <<sup, engine, procs, contexts, drain, files, ctl, client, retained, drained, qualified,
          probes, crashes>>
containerVars == <<sup, engine, procs, contexts, drain>>
macVars       == <<ctl, retained, drained, qualified>>
boundVars     == <<probes, crashes>>

Epoch   == 1..Epochs
Kinds   == {"supervisor", "api", "worker"}
Marked(e) == {p \in procs : p.id.epoch = e}
Named(k)  == {p \in procs : p.id = [epoch |-> sup.epoch, kind |-> k]}
FreePid   == CHOOSE n \in Pids : \A p \in procs : p.pid # n
Room      == \E n \in Pids : \A p \in procs : p.pid # n
Process(e, k) ==
  [pid |-> FreePid, id |-> [epoch |-> e, kind |-> k], sig |-> "none", cuda |-> FALSE,
   reused |-> \E l \in drain.aim : l.pid = FreePid]
Signalled(ps, s) ==
  {IF p \in ps THEN [p EXCEPT !.sig = IF @ = "kill" THEN @ ELSE s] ELSE p : p \in procs}

NoDrain  == [round |-> 0, listed |-> {}, aim |-> {}, busy |-> FALSE]
NoClient == [at |-> "none", base |-> {}, rows |-> <<>>]

Init ==
  /\ sup = [at |-> "launch", epoch |-> 1, again |-> FALSE, stopping |-> FALSE]
  /\ engine = [at |-> "none", failed |-> FALSE, forked |-> FALSE]
  /\ procs = {} /\ contexts = {} /\ drain = NoDrain
  /\ files = [current |-> 0, advance |-> {}, failure |-> FALSE, engine |-> {},
              shutdown |-> [e \in Epoch |-> "none"]]
  /\ ctl = [at |-> "ready", epoch |-> 1, errors |-> FALSE]
  /\ client = NoClient
  /\ retained = [e \in Epoch |-> [rows |-> <<>>, engines |-> FALSE]]
  /\ drained = {} /\ qualified = FALSE
  /\ probes = 0 /\ crashes = 0

-----------------------------------------------------------------------------
(* tp4-engines.py *)

(* Its API process, in a group of its own, forks a worker that leaves it.  *)
SpawnApi ==
  /\ engine.at = "starting" /\ Room /\ Named("supervisor") # {}
  /\ procs' = procs \cup {Process(sup.epoch, "api")}
  /\ engine' = [engine EXCEPT !.at = "running"]
  /\ UNCHANGED <<sup, contexts, drain, files, client, macVars, boundVars>>

ForkWorker ==
  /\ ~engine.forked /\ Room /\ Named("api") # {}
  /\ procs' = procs \cup {Process(sup.epoch, "worker")}
  /\ engine' = [engine EXCEPT !.forked = TRUE]
  /\ UNCHANGED <<sup, contexts, drain, files, client, macVars, boundVars>>

TakeGpu(p) ==
  /\ p \in Named("worker") /\ ~p.cuda
  /\ procs' = (procs \ {p}) \cup {[p EXCEPT !.cuda = TRUE]}
  /\ contexts' = contexts \cup {p.id}
  /\ UNCHANGED <<sup, engine, drain, files, client, macVars, boundVars>>

(* The supervision loop: an engine is gone without a stop. *)
SeeEngineExit ==
  /\ engine.at = "running" /\ Named("api") = {} /\ Named("supervisor") # {}
  /\ engine' = [engine EXCEPT !.at = "stopping", !.failed = TRUE]
  /\ UNCHANGED <<sup, procs, contexts, drain, files, client, macVars, boundVars>>

(* SIGTERM: stop() passes it to the groups of the engines. *)
SupervisorStops ==
  /\ engine.at \in {"starting", "running"}
  /\ \E p \in Named("supervisor") : p.sig = "term"
  /\ engine' = [engine EXCEPT !.at = "stopping"]
  /\ procs' = Signalled(Named("api"), "term")
  /\ UNCHANGED <<sup, contexts, drain, files, client, macVars, boundVars>>

SupervisorKills ==
  /\ engine.at = "stopping" /\ Named("supervisor") # {} /\ Named("api") # {}
  /\ \A p \in Named("api") : p.sig # "kill"
  /\ procs' = Signalled(Named("api"), "kill")
  /\ UNCHANGED <<sup, engine, contexts, drain, files, client, macVars, boundVars>>

(* All children have ended: exit, or, after a failure, leave a file and stay. *)
SupervisorEnds ==
  /\ engine.at = "stopping" /\ Named("supervisor") # {} /\ Named("api") = {}
  /\ IF engine.failed
     THEN /\ files' = [files EXCEPT !.engine = @ \cup {sup.epoch}]
          /\ engine' = [engine EXCEPT !.at = "holding"]
          /\ UNCHANGED procs
     ELSE /\ procs' = procs \ Named("supervisor")
          /\ engine' = [engine EXCEPT !.at = "none"]
          /\ UNCHANGED files
  /\ UNCHANGED <<sup, contexts, drain, client, macVars, boundVars>>

(* A signalled process dies, or ignores it, or hangs in the driver; only   *)
(* the supervisor handles SIGTERM, until it has failed.                    *)
Exits(p) ==
  /\ p \in procs
  /\ IF p.id.kind = "supervisor" THEN p.sig = "kill" \/ (engine.at = "holding" /\ p.sig = "term")
                                 ELSE p.sig # "none" \/ p.id.kind = "probe"
  /\ procs' = procs \ {p}
  /\ engine' = IF p.id.kind = "supervisor" THEN [engine EXCEPT !.at = "none"] ELSE engine
  /\ UNCHANGED <<sup, contexts, drain, files, client, macVars, boundVars>>

Crashes(p) ==
  /\ p \in procs /\ p.id.kind \in {"api", "worker"} /\ crashes < MaxCrashes
  /\ crashes' = crashes + 1
  /\ procs' = procs \ {p}
  /\ UNCHANGED <<sup, engine, contexts, drain, files, client, macVars, probes>>

(* The driver takes its time after a process with a context has gone. *)
ContextFreed(i) ==
  /\ i \in contexts /\ \A p \in procs : p.id # i
  /\ contexts' = contexts \ {i}
  /\ UNCHANGED <<sup, engine, procs, drain, files, client, macVars, boundVars>>

(* kubectl exec of the controller: a process without the epoch's marker. *)
Probe ==
  /\ probes < MaxProbes /\ Room /\ \A p \in procs : p.id.kind # "probe"
  /\ probes' = probes + 1
  /\ procs' = procs \cup {Process(0, "probe")}
  /\ UNCHANGED <<sup, engine, contexts, drain, files, client, macVars, crashes>>

-----------------------------------------------------------------------------
(* layout-engines.py *)

Launch ==
  /\ sup.at = "launch" /\ Room
  /\ procs' = procs \cup {Process(sup.epoch, "supervisor")}
  /\ engine' = [at |-> "starting", failed |-> FALSE, forked |-> FALSE]
  /\ files' = [files EXCEPT !.current = sup.epoch]
  /\ sup' = [sup EXCEPT !.at = "watch"]
  /\ UNCHANGED <<contexts, drain, client, macVars, boundVars>>

(* The Pod is deleted, or the supervisor has exited, or .advance is there. *)
Watch ==
  /\ sup.at = "watch"
  /\ \/ /\ sup.stopping
        /\ sup' = [sup EXCEPT !.at = "stop"]
     \/ /\ ~sup.stopping /\ Named("supervisor") = {}
        /\ sup' = [sup EXCEPT !.at = "stop", !.again = TRUE]
     \/ /\ ~sup.stopping /\ Named("supervisor") # {} /\ sup.epoch \in files.advance
        /\ sup' = [sup EXCEPT !.at = "stop"]
  /\ UNCHANGED <<engine, procs, contexts, drain, files, client, macVars, boundVars>>

PodDeleted ==
  /\ ctl.at = "failed" /\ ~sup.stopping /\ sup.at \notin {"failed", "stopped"}
  /\ sup' = [sup EXCEPT !.stopping = TRUE]
  /\ procs' = Signalled(Named("supervisor"), "term")
  /\ UNCHANGED <<engine, contexts, drain, files, client, macVars, boundVars>>

(* stop_epoch *)
Terminate ==
  /\ sup.at = "stop"
  /\ procs' = Signalled(Named("supervisor"), "term")
  /\ sup' = [sup EXCEPT !.at = "wait"]
  /\ UNCHANGED <<engine, contexts, drain, files, client, macVars, boundVars>>

(* Faulty variant: the supervisor is waited for without a time limit. *)
WaitForever ==
  /\ sup.at = "wait" /\ Named("supervisor") = {}
  /\ sup' = [sup EXCEPT !.at = "list"]
  /\ drain' = NoDrain
  /\ UNCHANGED <<engine, procs, contexts, files, client, macVars, boundVars>>

WaitChild ==
  /\ sup.at = "wait"
  /\ IF Named("supervisor") = {}
     THEN sup' = [sup EXCEPT !.at = "list"] /\ drain' = NoDrain /\ UNCHANGED procs
     ELSE /\ procs' = Signalled(Named("supervisor"), "kill")
          /\ sup' = [sup EXCEPT !.at = "killed"] /\ UNCHANGED drain
  /\ UNCHANGED <<engine, contexts, files, client, macVars, boundVars>>

(* What raises in stop_epoch runs it once more, from main's finally. *)
Raised ==
  IF sup.again THEN [sup EXCEPT !.at = "raise"]
               ELSE [sup EXCEPT !.at = "stop", !.again = TRUE]

WaitKilled ==
  /\ sup.at = "killed"
  /\ IF Named("supervisor") = {}
     THEN sup' = [sup EXCEPT !.at = "list"] /\ drain' = NoDrain
     ELSE sup' = Raised /\ UNCHANGED drain
  /\ UNCHANGED <<engine, procs, contexts, files, client, macVars, boundVars>>

(* drain_epoch *)
ListProcesses ==
  /\ sup.at = "list"
  /\ drain' = [drain EXCEPT !.round = @ + 1,
                            !.listed = {[pid |-> p.pid, id |-> p.id] : p \in Marked(sup.epoch)}]
  /\ sup' = [sup EXCEPT !.at = "signal"]
  /\ UNCHANGED <<engine, procs, contexts, files, client, macVars, boundVars>>

Harder == IF drain.round = 1 THEN "term" ELSE "kill"

(* Faulty variant: a listed process is not looked up again. *)
AimAtNumber ==
  /\ sup.at = "signal" /\ drain.aim = {}
  /\ \E l \in drain.listed :
       drain' = [drain EXCEPT !.listed = @ \ {l}, !.aim = {l}]
  /\ UNCHANGED <<sup, engine, procs, contexts, files, client, macVars, boundVars>>

(* A listed process, looked up again by number and start time. *)
LookUp ==
  /\ sup.at = "signal" /\ drain.aim = {}
  /\ \E l \in drain.listed :
       drain' = [drain EXCEPT !.listed = @ \ {l},
                              !.aim = {m \in {l} : \E p \in procs : p.pid = m.pid /\ p.id = m.id}]
  /\ UNCHANGED <<sup, engine, procs, contexts, files, client, macVars, boundVars>>

(* os.kill: whatever has the number by then, if anything. *)
SignalPid ==
  /\ sup.at = "signal" /\ drain.aim # {}
  /\ procs' = Signalled({p \in procs : \E l \in drain.aim : p.pid = l.pid}, Harder)
  /\ drain' = [drain EXCEPT !.aim = {}]
  /\ UNCHANGED <<sup, engine, contexts, files, client, macVars, boundVars>>

(* The GPU is asked before the processes are listed again.  nvidia-smi may *)
(* fail, without a marker; killed after its 10 s it is waited for without  *)
(* a limit, however long the driver holds it.                              *)
QueryGpu ==
  /\ sup.at = "signal" /\ drain.listed = {} /\ drain.aim = {}
  /\ \/ /\ drain' = [drain EXCEPT !.busy = contexts # {}]
        /\ sup' = [sup EXCEPT !.at = "look"]
     \/ sup' \in {Raised, [sup EXCEPT !.at = "stuck"]} /\ UNCHANGED drain
  /\ UNCHANGED <<engine, procs, contexts, files, client, macVars, boundVars>>

(* The driver lets the killed nvidia-smi go: subprocess.TimeoutExpired. *)
QueryDies ==
  /\ sup.at = "stuck"
  /\ sup' = Raised
  /\ UNCHANGED <<engine, procs, contexts, drain, files, client, macVars, boundVars>>

(* Faulty variant: the processes alone decide. *)
NothingAlive == Marked(sup.epoch) = {}

NothingLeft == Marked(sup.epoch) = {} /\ ~drain.busy

Marker(m) == files' = [files EXCEPT !.shutdown[sup.epoch] = m]

LookAgain ==
  /\ sup.at = "look"
  /\ \/ /\ NothingLeft
        /\ Marker("drained")
        /\ sup' = [sup EXCEPT !.at = IF sup.again THEN "raise"
                                     ELSE IF sup.stopping THEN "stopped" ELSE "next"]
     \/ /\ ~NothingLeft /\ drain.round < Rounds
        /\ sup' = [sup EXCEPT !.at = "list"] /\ UNCHANGED files
     \/ /\ ~NothingLeft
        /\ Marker("remaining")
        /\ sup' = Raised
  /\ UNCHANGED <<engine, procs, contexts, drain, client, macVars, boundVars>>

NextEpoch ==
  /\ sup.at = "next"
  /\ sup' = IF sup.epoch < Epochs THEN [sup EXCEPT !.at = "launch", !.epoch = @ + 1]
                                  ELSE [sup EXCEPT !.at = "stopped"]
  /\ UNCHANGED <<engine, procs, contexts, drain, files, client, macVars, boundVars>>

(* main has failed: a file says so, and the container stays. *)
LayoutFailure ==
  /\ sup.at = "raise"
  /\ files' = [files EXCEPT !.failure = TRUE]
  /\ sup' = [sup EXCEPT !.at = "failed"]
  /\ UNCHANGED <<engine, procs, contexts, drain, client, macVars, boundVars>>

-----------------------------------------------------------------------------
(* layout-client.py: every request is answered by the engines of one epoch *)

clientOnly == <<containerVars, files, macVars, boundVars>>

Answering == {p.id : p \in {q \in procs : q.cuda /\ q.sig = "none"}}

Baseline ==
  /\ client.at = "start" /\ Answering # {}
  /\ client' = [client EXCEPT !.at = "ask", !.base = Answering]
  /\ UNCHANGED clientOnly

Ask ==
  /\ client.at = "ask" /\ Len(client.rows) < Requests
  /\ \E i \in Answering : client' = [client EXCEPT !.rows = Append(@, i.epoch)]
  /\ UNCHANGED clientOnly

(* The final evidence is that of the same processes, and all alive. *)
ClientCompletes ==
  /\ client.at = "ask" /\ Len(client.rows) = Requests
  /\ Answering = client.base /\ Named("api") # {}
  /\ client' = [client EXCEPT !.at = "ok"]
  /\ UNCHANGED clientOnly

ClientFails ==
  /\ client.at \in {"start", "ask"}
  /\ client' = [client EXCEPT !.at = "failed"]
  /\ UNCHANGED clientOnly

-----------------------------------------------------------------------------
(* run-layout-local.py *)

ctlOnly == <<containerVars, client, retained, drained, qualified, boundVars>>

(* One probe: no failure files, the epoch is current, and it answers. *)
Ready ==
  /\ ctl.at = "ready"
  /\ ~files.failure /\ ctl.epoch \notin files.engine
  /\ files.current = ctl.epoch /\ Answering # {} /\ Named("api") # {}
  /\ ctl' = [ctl EXCEPT !.at = "epoch"]
  /\ UNCHANGED <<files, ctlOnly>>

StartEpoch ==
  /\ ctl.at = "epoch"
  /\ client' = [NoClient EXCEPT !.at = "start"]
  /\ ctl' = [ctl EXCEPT !.at = "exit"]
  /\ UNCHANGED <<containerVars, files, retained, drained, qualified, boundVars>>

SeeComplete ==
  /\ ctl.at = "exit" /\ client.at = "ok"
  /\ ctl' = [ctl EXCEPT !.at = "collect"]
  /\ UNCHANGED <<files, ctlOnly>>

(* collect: a fresh archive of each Pod that holds what the epoch must     *)
(* have left there.  An error is noted, and the other Pod is copied.       *)
CopyEngines ==
  /\ ctl.at = "collect"
  /\ \/ /\ retained' = [retained EXCEPT ![ctl.epoch].engines = TRUE]
        /\ ctl' = [ctl EXCEPT !.at = "copy-client"]
     \/ ctl' = [ctl EXCEPT !.at = "copy-client", !.errors = TRUE] /\ UNCHANGED retained
  /\ UNCHANGED <<containerVars, files, client, drained, qualified, boundVars>>

CopyClient ==
  /\ ctl.at = "copy-client"
  /\ \/ /\ retained' = [retained EXCEPT ![ctl.epoch].rows = client.rows]
        /\ ctl' = [ctl EXCEPT !.at = "copied"]
     \/ ctl' = [ctl EXCEPT !.at = "copied", !.errors = TRUE] /\ UNCHANGED retained
  /\ UNCHANGED <<containerVars, files, client, drained, qualified, boundVars>>

(* Faulty variant: errors are written down, and the session goes on. *)
CollectedAnyway ==
  /\ ctl.at = "copied"
  /\ ctl' = [ctl EXCEPT !.at = "reserve"]
  /\ UNCHANGED <<files, ctlOnly>>

(* Anything less than both copies raises (Fail). *)
Collected ==
  /\ ctl.at = "copied" /\ ~ctl.errors
  /\ ctl' = [ctl EXCEPT !.at = "reserve"]
  /\ UNCHANGED <<files, ctlOnly>>

(* advance, if there is time left for another restart *)
Advance ==
  /\ ctl.at = "reserve"
  /\ files' = [files EXCEPT !.advance = @ \cup {ctl.epoch}]
  /\ ctl' = [ctl EXCEPT !.at = "poll"]
  /\ UNCHANGED ctlOnly

(* Each round reads layout-failure.json first, then the shutdown marker.   *)
NoFailureYet ==
  /\ ctl.at = "poll" /\ ~files.failure
  /\ ctl' = [ctl EXCEPT !.at = "marker"]
  /\ UNCHANGED <<files, ctlOnly>>

ReadMarker ==
  /\ ctl.at = "marker"
  /\ \/ /\ files.shutdown[ctl.epoch] = "none"
        /\ ctl' = [ctl EXCEPT !.at = "poll"] /\ UNCHANGED drained
     \/ /\ files.shutdown[ctl.epoch] = "drained"
        /\ drained' = drained \cup {ctl.epoch}
        /\ ctl' = IF ctl.epoch < Epochs THEN [ctl EXCEPT !.at = "ready", !.epoch = @ + 1]
                                        ELSE [ctl EXCEPT !.at = "final"]
  /\ UNCHANGED <<containerVars, files, client, retained, qualified, boundVars>>

(* The last epoch is collected once more, then the session is qualified.   *)
Qualify ==
  /\ ctl.at = "final"
  /\ qualified' = TRUE
  /\ ctl' = [ctl EXCEPT !.at = "done"]
  /\ UNCHANGED <<containerVars, files, client, retained, drained, boundVars>>

(* A timeout, a failed command, a failure file, a marker that says no. *)
Fail ==
  /\ ctl.at \notin {"done", "failed"}
  /\ ctl' = [ctl EXCEPT !.at = "failed", !.errors = FALSE]
  /\ UNCHANGED <<files, ctlOnly>>

-----------------------------------------------------------------------------
Container ==
  \/ SpawnApi \/ ForkWorker \/ SeeEngineExit \/ SupervisorStops \/ SupervisorKills
  \/ SupervisorEnds \/ Probe \/ PodDeleted \/ QueryDies
  \/ \E p \in procs : TakeGpu(p) \/ Exits(p) \/ Crashes(p)
  \/ \E i \in contexts : ContextFreed(i)

Restarting ==
  \/ Launch \/ Watch \/ Terminate \/ WaitChild \/ WaitKilled \/ ListProcesses
  \/ LookUp \/ SignalPid \/ QueryGpu \/ LookAgain \/ NextEpoch \/ LayoutFailure

Measuring ==
  \/ Baseline \/ Ask \/ ClientCompletes \/ ClientFails
  \/ Ready \/ StartEpoch \/ SeeComplete \/ CopyEngines \/ CopyClient \/ Collected \/ Advance
  \/ NoFailureYet \/ ReadMarker \/ Qualify \/ Fail

Next == Container \/ Restarting \/ Measuring

(* layout-engines.py keeps running; nothing else is relied upon. *)
Spec == Init /\ [][Next]_vars /\ WF_vars(Restarting)

-----------------------------------------------------------------------------
TypeOK ==
  /\ sup.epoch \in Epoch
  /\ sup.at \in {"launch", "watch", "stop", "wait", "killed", "list", "signal", "stuck", "look",
                 "next", "raise", "failed", "stopped"}
  /\ engine.at \in {"none", "starting", "running", "stopping", "holding"}
  /\ \A p, q \in procs : p.pid = q.pid \/ p.id = q.id => p = q
  /\ contexts \subseteq [epoch : Epoch, kind : Kinds]
  /\ drain.round \in 0..Rounds
  /\ files.current \in 0..sup.epoch /\ files.advance \subseteq Epoch
  /\ ctl.epoch \in Epoch /\ drained \subseteq Epoch
  /\ client.at \in {"none", "start", "ask", "ok", "failed"} /\ Len(client.rows) <= Requests

(* While the supervisor of an epoch runs, no process of an earlier epoch   *)
(* is alive and no CUDA context of one is left, although workers outlive   *)
(* their parents, hang in the driver, or free the GPU late.                *)
EpochsDisjoint ==
  \A p \in procs : p.id.kind = "supervisor" =>
    /\ \A q \in procs : q.id.epoch \in {0, p.id.epoch}
    /\ \A i \in contexts : i.epoch = p.id.epoch

(* However long ago a drain has listed a process, it signals a process     *)
(* that is not its epoch's only if that has taken the number since the     *)
(* second look at it.  The code's comment (layout-engines.py:52) says      *)
(* never; the scan before os.kill leaves this gap.                         *)
SignalsOwn == \A p \in procs : p.id.epoch = 0 /\ p.sig # "none" => p.reused

(* A qualified session holds the results of every epoch from both Pods,    *)
(* complete and each served by the engines of that epoch alone, and has    *)
(* seen each epoch drained.                                                *)
QualifiedWhole ==
  qualified =>
    /\ drained = Epoch
    /\ \A e \in Epoch : retained[e] = [rows |-> [i \in 1..Requests |-> e], engines |-> TRUE]

(* A stop ends, in the next epoch or in a failure: neither a supervisor    *)
(* that hangs nor a process that cannot be killed holds it up, only an     *)
(* nvidia-smi that hangs in the driver for ever.                           *)
StopEnds ==
  \/ sup.at = "stop" ~> sup.at \in {"launch", "failed", "stopped"}
  \/ <>[](sup.at = "stuck")
=============================================================================
