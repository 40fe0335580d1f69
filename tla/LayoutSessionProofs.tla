-------------------------- MODULE LayoutSessionProofs --------------------------
(***************************************************************************)
(* Proofs about LayoutSession, for all numbers of epochs, processes,       *)
(* requests, rounds and crashes.                                           *)
(***************************************************************************)
EXTENDS LayoutSession, Integers, SequenceTheorems, TLAPS

(* A process of the container, and what a drain has listed of it. *)
Ids       == [epoch : 0..Epochs, kind : Kinds \cup {"probe"}]
Processes == [pid : Pids, id : Ids, sig : {"none", "term", "kill"}, cuda : BOOLEAN,
              reused : BOOLEAN]
Listed    == [pid : Pids, id : Ids]

Supervisors == [at : {"launch", "watch", "stop", "wait", "killed", "list", "signal", "stuck",
                      "look", "next", "raise", "failed", "stopped"},
                epoch : Epoch, again : BOOLEAN, stopping : BOOLEAN]
Engines  == [at : {"none", "starting", "running", "stopping", "holding"},
             failed : BOOLEAN, forked : BOOLEAN]
Drains   == [round : 0..Rounds, listed : SUBSET Listed, aim : SUBSET Listed, busy : BOOLEAN]
Results  == [current : 0..Epochs, advance : SUBSET Epoch, failure : BOOLEAN,
             engine : SUBSET Epoch, shutdown : [Epoch -> {"none", "drained", "remaining"}]]
Clients  == [at : {"none", "start", "ask", "ok", "failed"}, base : SUBSET Ids,
             rows : Seq(0..Epochs)]
Controls == [at : {"ready", "epoch", "exit", "collect", "copy-client", "copied", "reserve",
                   "poll", "marker", "final", "done", "failed"},
             epoch : Epoch, errors : BOOLEAN]
Copies   == [rows : Seq(0..Epochs), engines : BOOLEAN]

(* The controller measures the epoch: from the probe that found it ready   *)
(* to the .advance.                                                        *)
Measured == {"epoch", "exit", "collect", "copy-client", "copied", "reserve"}

(* The supervisor ends the epoch, on the way to the next one. *)
Ending == {"stop", "wait", "killed", "list", "signal", "stuck", "look"}

(* The worker holds its GPU, as long as it lives, and none will follow it. *)
WorkerReady == engine.forked /\ \A p \in Named("worker") : p.cuda

Types ==
  /\ sup \in Supervisors /\ engine \in Engines
  /\ contexts \subseteq [epoch : {sup.epoch}, kind : Kinds]
  /\ drain \in Drains /\ files \in Results /\ ctl \in Controls /\ client \in Clients
  /\ retained \in [Epoch -> Copies] /\ drained \subseteq Epoch /\ qualified \in BOOLEAN

(* The number of a process without a marker is one that a drain is about   *)
(* to signal only if the process has taken it since the drain looked.      *)
Taken(ps, d) ==
  \A p \in ps : p.id.epoch = 0 /\ (\E l \in d.aim : l.pid = p.pid) => p.reused

(* The processes are of the epoch or of no epoch, no two have one number   *)
(* or one role, and only a worker holds a GPU.                             *)
ProcsInv ==
  /\ procs \subseteq Processes
  /\ \A p, q \in procs : p.pid = q.pid \/ p.id = q.id => p = q
  /\ \A p \in procs :
       /\ p.id.epoch \in {0, sup.epoch}
       /\ p.id.kind = "probe" <=> p.id.epoch = 0
       /\ p.id.kind = "probe" => p.sig = "none" \/ p.reused
       /\ p.cuda => p.id.kind = "worker"
       /\ p.id.kind = "worker" => engine.forked
       /\ engine.at = "starting" => p.id.kind # "api"
  /\ Taken(procs, drain)

(* Nothing of an epoch is there before it is launched, or after it is left. *)
EmptyInv ==
  sup.at \in {"launch", "next"} =>
    /\ contexts = {}
    /\ \A p \in procs : p.id.epoch = 0

(* A drain that neither a failure nor the Pod's end has cut short is one   *)
(* the controller asked for, and then a GPU found free stays free.         *)
DrainInv ==
  /\ sup.at = "list" => drain.round < Rounds
  /\ sup.at = "signal" => \A l \in drain.listed : l.id.epoch = sup.epoch
  /\ sup.at \in Ending /\ ~sup.again /\ ~sup.stopping => sup.epoch \in files.advance
  /\ sup.at = "next" => sup.epoch \in files.advance
  /\ sup.at = "look" /\ ~drain.busy /\ ~sup.again /\ ~sup.stopping => contexts = {}

(* The two programs are in one epoch while it is measured. *)
EpochInv ==
  /\ files.current = IF sup.at = "launch" THEN sup.epoch - 1 ELSE sup.epoch
  /\ files.advance \subseteq 1..sup.epoch
  /\ sup.at = "launch" => sup.epoch \notin files.advance
  /\ ctl.at \in {"ready"} \cup Measured => files.advance = 1..(ctl.epoch - 1)
  /\ ctl.at \in {"poll", "marker"} => files.advance = 1..ctl.epoch
  /\ ctl.at \in Measured => sup.epoch = ctl.epoch /\ sup.at # "launch"
  /\ ctl.at \in Measured \/ sup.epoch \in files.advance => WorkerReady

Whole(e) == retained[e] = [rows |-> [i \in 1..Requests |-> e], engines |-> TRUE]

(* What the controller holds of the epochs before, and of this one. *)
ResultsInv ==
  /\ Len(client.rows) <= Requests
  /\ client.at = "ok" => Len(client.rows) = Requests
  /\ ctl.at \in {"collect", "copy-client"} => client.at = "ok"
  /\ ctl.at = "copy-client" /\ ~ctl.errors => retained[ctl.epoch].engines
  /\ ctl.at = "copied" /\ ~ctl.errors => Whole(ctl.epoch)
  /\ ctl.at \in {"exit", "collect", "copy-client"} =>
       \A i \in 1..Len(client.rows) : client.rows[i] = ctl.epoch
  /\ ctl.at \in {"ready"} \cup Measured \cup {"poll", "marker"} =>
       drained = 1..(ctl.epoch - 1) /\ \A e \in 1..(ctl.epoch - 1) : Whole(e)
  /\ ctl.at \in {"reserve", "poll", "marker"} => Whole(ctl.epoch)
  /\ ctl.at \in {"final", "done"} => drained = Epoch /\ \A e \in Epoch : Whole(e)
  /\ qualified => ctl.at = "done"

LayoutInv == Types /\ ProcsInv /\ EmptyInv /\ DrainInv /\ EpochInv /\ ResultsInv

-----------------------------------------------------------------------------
(* The constants are numbers. *)
LEMMA Numbers ==
  /\ Epochs \in Nat \ {0} /\ Requests \in Nat \ {0} /\ Rounds \in Nat \ {0}
  /\ Epoch \subseteq Nat \ {0} /\ 1 \in Epoch
BY LayoutAssumption DEF LayoutAssumption, Epoch

(* A drain that has not begun. *)
LEMMA NoDrainTyped == NoDrain \in Drains
BY Numbers DEF NoDrain, Drains

(* A process that is started has a number that no other has. *)
LEMMA SpawnKeeps ==
  ASSUME procs \subseteq Processes,
         \A p, q \in procs : p.pid = q.pid \/ p.id = q.id => p = q,
         Room, NEW e \in 0..Epochs, NEW k \in Kinds \cup {"probe"},
         \A p \in procs : p.id # [epoch |-> e, kind |-> k],
         procs' = procs \cup {Process(e, k)}, Taken(procs, drain)
  PROVE  /\ procs' \subseteq Processes
         /\ \A p, q \in procs' : p.pid = q.pid \/ p.id = q.id => p = q
         /\ Taken(procs', drain)
         /\ Process(e, k).id = [epoch |-> e, kind |-> k]
         /\ Process(e, k).sig = "none" /\ ~Process(e, k).cuda
<1>1. FreePid \in Pids /\ \A p \in procs : p.pid # FreePid BY DEF FreePid, Room
<1>2. Process(e, k) \in Processes BY <1>1 DEF Process, Processes, Ids
<1>3. Process(e, k).pid = FreePid /\ Process(e, k).id = [epoch |-> e, kind |-> k]
  BY DEF Process
<1>4. procs' \subseteq Processes BY <1>2
<1>5. \A p, q \in procs' : p.pid = q.pid \/ p.id = q.id => p = q BY <1>1, <1>3
<1>6. Taken(procs', drain)
  <2>1. (\E l \in drain.aim : l.pid = FreePid) => Process(e, k).reused BY DEF Process
  <2>2. QED BY <1>3, <2>1 DEF Taken
<1>7. QED BY <1>3, <1>4, <1>5, <1>6 DEF Process

(* A signal changes nothing else of a process, and loses none. *)
LEMMA SignalKeeps ==
  ASSUME ProcsInv, NEW ps, NEW s \in {"term", "kill"}, procs' = Signalled(ps, s),
         \A p \in procs : p.id.kind = "probe" => p \notin ps \/ p.reused,
         drain'.aim \subseteq drain.aim,
         sup'.epoch = sup.epoch, engine'.forked = engine.forked,
         engine'.at = "starting" => engine.at = "starting"
  PROVE  /\ ProcsInv'
         /\ \A q \in procs' : \E p \in procs : q.id = p.id /\ q.pid = p.pid /\ q.cuda = p.cuda
<1> DEFINE After(p) == IF p \in ps THEN [p EXCEPT !.sig = IF @ = "kill" THEN @ ELSE s] ELSE p
<1>1. procs' = {After(p) : p \in procs} BY DEF Signalled
<1>2. \A p \in procs : p \in Processes BY DEF ProcsInv
<1>3. ASSUME NEW p \in procs
      PROVE  /\ After(p) \in Processes /\ After(p).pid = p.pid /\ After(p).id = p.id
             /\ After(p).cuda = p.cuda /\ After(p).reused = p.reused
             /\ (p.id.kind = "probe" => After(p).sig = p.sig \/ p.reused)
  BY <1>2, <1>3 DEF Processes
<1> HIDE DEF After
<1>4. procs' \subseteq Processes BY <1>1, <1>3
<1>5. \A p, q \in procs' : p.pid = q.pid \/ p.id = q.id => p = q BY <1>1, <1>3 DEF ProcsInv
<1>6. \A p \in procs' :
        /\ p.id.epoch \in {0, sup'.epoch}
        /\ p.id.kind = "probe" <=> p.id.epoch = 0
        /\ p.id.kind = "probe" => p.sig = "none" \/ p.reused
        /\ p.cuda => p.id.kind = "worker"
        /\ p.id.kind = "worker" => engine'.forked
        /\ engine'.at = "starting" => p.id.kind # "api"
  BY <1>1, <1>3 DEF ProcsInv
<1>7. Taken(procs', drain') BY <1>1, <1>3 DEF ProcsInv, Taken
<1>8. ProcsInv' BY <1>4, <1>5, <1>6, <1>7 DEF ProcsInv
<1>9. QED BY <1>1, <1>3, <1>8

-----------------------------------------------------------------------------
(* Steps in the engine container *)

(* An API process is started once in an epoch, with a number of its own. *)
LEMMA SpawnApiKeeps == ASSUME LayoutInv, SpawnApi PROVE LayoutInv'
<1> USE DEF LayoutInv, SpawnApi
<1>0. /\ procs' \subseteq Processes /\ Taken(procs', drain)
      /\ \A p, q \in procs' : p.pid = q.pid \/ p.id = q.id => p = q
      /\ Process(sup.epoch, "api").id = [epoch |-> sup.epoch, kind |-> "api"]
      /\ Process(sup.epoch, "api").sig = "none" /\ ~Process(sup.epoch, "api").cuda
  <2>1. sup.epoch \in 0..Epochs BY Numbers DEF Types, Supervisors, Epoch
  <2>2. \A p \in procs : p.id # [epoch |-> sup.epoch, kind |-> "api"]
    BY DEF ProcsInv
  <2>3. /\ procs \subseteq Processes /\ Room /\ Taken(procs, drain)
        /\ \A p, q \in procs : p.pid = q.pid \/ p.id = q.id => p = q
        /\ procs' = procs \cup {Process(sup.epoch, "api")} /\ "api" \in Kinds \cup {"probe"}
    BY DEF ProcsInv, Kinds
  <2> HIDE DEF LayoutInv, SpawnApi
  <2>4. QED BY <2>1, <2>2, <2>3, SpawnKeeps
<1>1. Types'
  <2>1. engine' \in Engines BY DEF Types, Engines
  <2>2. QED BY <2>1 DEF Types, macVars, boundVars
<1>2. ProcsInv' BY <1>0 DEF ProcsInv, Taken, Types, macVars, boundVars, Named, Room, Engines
<1>3. EmptyInv' BY <1>0 DEF EmptyInv, Types, macVars, boundVars, Named, Room, Engines
<1>4. DrainInv' BY DEF DrainInv, macVars, boundVars
<1>5. EpochInv' BY <1>0 DEF EpochInv, macVars, boundVars, Types, Engines, WorkerReady, Named
<1>6. ResultsInv' BY DEF ResultsInv, macVars, boundVars, Whole
<1>7. QED BY <1>1, <1>2, <1>3, <1>4, <1>5, <1>6

(* A worker is forked once in an epoch, with a number of its own. *)
LEMMA ForkWorkerKeeps == ASSUME LayoutInv, ForkWorker PROVE LayoutInv'
<1> USE DEF LayoutInv, ForkWorker
<1>0. /\ procs' \subseteq Processes /\ Taken(procs', drain)
      /\ \A p, q \in procs' : p.pid = q.pid \/ p.id = q.id => p = q
      /\ Process(sup.epoch, "worker").id = [epoch |-> sup.epoch, kind |-> "worker"]
      /\ Process(sup.epoch, "worker").sig = "none" /\ ~Process(sup.epoch, "worker").cuda
  <2>1. sup.epoch \in 0..Epochs BY Numbers DEF Types, Supervisors, Epoch
  <2>2. \A p \in procs : p.id # [epoch |-> sup.epoch, kind |-> "worker"]
    BY DEF ProcsInv
  <2>3. /\ procs \subseteq Processes /\ Room /\ Taken(procs, drain)
        /\ \A p, q \in procs : p.pid = q.pid \/ p.id = q.id => p = q
        /\ procs' = procs \cup {Process(sup.epoch, "worker")} /\ "worker" \in Kinds \cup {"probe"}
    BY DEF ProcsInv, Kinds
  <2> HIDE DEF LayoutInv, ForkWorker
  <2>4. QED BY <2>1, <2>2, <2>3, SpawnKeeps
<1>1. Types'
  <2>1. engine' \in Engines BY DEF Types, Engines
  <2>2. QED BY <2>1 DEF Types, macVars, boundVars
<1>2. ProcsInv' BY <1>0 DEF ProcsInv, Taken, Types, macVars, boundVars, Named, Room, Engines
<1>3. EmptyInv' BY <1>0 DEF EmptyInv, Types, macVars, boundVars, Named, Room, Engines
<1>4. DrainInv' BY DEF DrainInv, macVars, boundVars
<1>5. EpochInv' BY <1>0 DEF EpochInv, macVars, boundVars, Types, Engines, WorkerReady, Named
<1>6. ResultsInv' BY DEF ResultsInv, macVars, boundVars, Whole
<1>7. QED BY <1>1, <1>2, <1>3, <1>4, <1>5, <1>6

(* A worker takes a GPU only while its epoch runs, and none does so once the epoch is to end. *)
LEMMA TakeGpuKeeps == ASSUME LayoutInv, NEW p \in procs, TakeGpu(p) PROVE LayoutInv'
<1> USE DEF LayoutInv, TakeGpu
<1>1. Types'
  <2>1. p.id \in [epoch : {sup.epoch}, kind : Kinds] BY DEF Named, Kinds
  <2>2. QED BY <2>1 DEF Types, macVars, boundVars
<1>2. ProcsInv'
  <2> DEFINE q == [p EXCEPT !.cuda = TRUE]
  <2>1. p \in Processes BY DEF ProcsInv
  <2>2. q \in Processes /\ q.pid = p.pid /\ q.id = p.id /\ q.sig = p.sig
        /\ q.reused = p.reused
    BY <2>1 DEF Processes
  <2>3. p.id.kind = "worker" BY DEF Named
  <2>4. procs' = (procs \ {p}) \cup {q} /\ UNCHANGED <<sup, engine, drain>>
    OBVIOUS
  <2> HIDE DEF q
  <2>5. Taken(procs, drain)' BY <2>2, <2>4 DEF ProcsInv, Taken
  <2>6. QED BY <2>2, <2>3, <2>4, <2>5 DEF ProcsInv
<1>3. EmptyInv'
  <2>1. sup.at \notin {"launch", "next"}
    BY Numbers DEF EmptyInv, Named, Types, Supervisors
  <2>2. QED BY <2>1 DEF EmptyInv
<1>4. DrainInv'
  <2>1. ~WorkerReady BY DEF WorkerReady
  <2>2. QED BY <2>1 DEF DrainInv, EpochInv, Ending
<1>5. EpochInv' BY DEF EpochInv, macVars, boundVars, WorkerReady, Named
<1>6. ResultsInv' BY DEF ResultsInv, macVars, boundVars, Whole
<1>7. QED BY <1>1, <1>2, <1>3, <1>4, <1>5, <1>6

(* An engine that is gone is noted; no process is touched. *)
LEMMA SeeEngineExitKeeps == ASSUME LayoutInv, SeeEngineExit PROVE LayoutInv'
<1> USE DEF LayoutInv, SeeEngineExit
<1>1. Types'
  <2>1. engine' \in Engines BY DEF Types, Engines
  <2>2. QED BY <2>1 DEF Types, macVars, boundVars
<1>2. ProcsInv' BY DEF ProcsInv, Taken, macVars, boundVars, Types, Engines
<1>3. EmptyInv' BY DEF EmptyInv, macVars, boundVars
<1>4. DrainInv' BY DEF DrainInv, macVars, boundVars
<1>5. EpochInv' BY DEF EpochInv, macVars, boundVars, Types, Engines, WorkerReady, Named
<1>6. ResultsInv' BY DEF ResultsInv, macVars, boundVars, Whole
<1>7. QED BY <1>1, <1>2, <1>3, <1>4, <1>5, <1>6

(* The first signal to the engine. *)
LEMMA SupervisorStopsKeeps == ASSUME LayoutInv, SupervisorStops PROVE LayoutInv'
<1> USE DEF LayoutInv, SupervisorStops
<1>0. /\ ProcsInv'
      /\ \A q \in procs' : \E p \in procs : q.id = p.id /\ q.pid = p.pid /\ q.cuda = p.cuda
  <2>1. \A p \in procs : p.id.kind = "probe" => p \notin Named("api") BY DEF Named
  <2>2. sup'.epoch = sup.epoch /\ engine'.forked = engine.forked
        /\ (engine'.at = "starting" => engine.at = "starting")
    BY DEF Types, Supervisors, Engines
  <2>3. QED BY <2>1, <2>2, SignalKeeps
<1>1. Types'
  <2>1. engine' \in Engines BY DEF Types, Engines
  <2>2. QED BY <2>1 DEF Types, macVars, boundVars
<1>2. ProcsInv' BY <1>0 DEF ProcsInv, Taken, macVars, boundVars, Types, Engines
<1>3. EmptyInv' BY <1>0 DEF EmptyInv, macVars, boundVars
<1>4. DrainInv' BY DEF DrainInv, macVars, boundVars
<1>5. EpochInv'
  <2>1. WorkerReady => WorkerReady' BY <1>0 DEF WorkerReady, Named, Types, Engines
  <2>2. UNCHANGED <<sup.epoch, files, ctl>> /\ (sup'.at = "launch" <=> sup.at = "launch")
    BY DEF macVars
  <2>3. QED BY <2>1, <2>2 DEF EpochInv
<1>6. ResultsInv' BY DEF ResultsInv, macVars, boundVars, Whole
<1>7. QED BY <1>1, <1>2, <1>3, <1>4, <1>5, <1>6

(* The second signal to the engine. *)
LEMMA SupervisorKillsKeeps == ASSUME LayoutInv, SupervisorKills PROVE LayoutInv'
<1> USE DEF LayoutInv, SupervisorKills
<1>0. /\ ProcsInv'
      /\ \A q \in procs' : \E p \in procs : q.id = p.id /\ q.pid = p.pid /\ q.cuda = p.cuda
  <2>1. \A p \in procs : p.id.kind = "probe" => p \notin Named("api") BY DEF Named
  <2>2. sup'.epoch = sup.epoch /\ engine'.forked = engine.forked
        /\ (engine'.at = "starting" => engine.at = "starting")
    BY DEF Types, Supervisors, Engines
  <2>3. QED BY <2>1, <2>2, SignalKeeps
<1>1. Types' BY DEF Types, macVars, boundVars
<1>2. ProcsInv' BY <1>0 DEF ProcsInv, Taken, macVars, boundVars
<1>3. EmptyInv' BY <1>0 DEF EmptyInv, macVars, boundVars
<1>4. DrainInv' BY DEF DrainInv, macVars, boundVars
<1>5. EpochInv' BY <1>0 DEF EpochInv, macVars, boundVars, WorkerReady, Named
<1>6. ResultsInv' BY DEF ResultsInv, macVars, boundVars, Whole
<1>7. QED BY <1>1, <1>2, <1>3, <1>4, <1>5, <1>6

(* The supervisor leaves, or stays beside its failure file. *)
LEMMA SupervisorEndsKeeps == ASSUME LayoutInv, SupervisorEnds PROVE LayoutInv'
<1> USE DEF LayoutInv, SupervisorEnds
<1>1. Types'
  <2>1. engine' \in Engines BY DEF Types, Engines
  <2>2. sup.epoch \in Epoch /\ files \in Results BY DEF Types, Supervisors
  <2>3. [files EXCEPT !.engine = @ \cup {sup.epoch}] \in Results BY <2>2 DEF Results
  <2>4. files' \in Results BY <2>2, <2>3
  <2>5. QED BY <2>1, <2>4 DEF Types, macVars, boundVars
<1>2. ProcsInv' BY DEF ProcsInv, Taken, macVars, boundVars, Types, Engines
<1>3. EmptyInv' BY DEF EmptyInv, macVars, boundVars
<1>4. DrainInv' BY DEF DrainInv, macVars, boundVars, Types, Results
<1>5. EpochInv'
  BY DEF EpochInv, macVars, boundVars, Types, Engines, Results, WorkerReady, Named, Measured
<1>6. ResultsInv' BY DEF ResultsInv, macVars, boundVars, Whole
<1>7. QED BY <1>1, <1>2, <1>3, <1>4, <1>5, <1>6

(* A process fewer breaks nothing; its context stays behind. *)
LEMMA ExitsKeeps == ASSUME LayoutInv, NEW p \in procs, Exits(p) PROVE LayoutInv'
<1> USE DEF LayoutInv, Exits
<1>1. Types'
  <2>1. engine' \in Engines BY DEF Types, Engines
  <2>2. QED BY <2>1 DEF Types, macVars, boundVars
<1>2. ProcsInv' BY DEF ProcsInv, Taken, macVars, boundVars, Types, Engines
<1>3. EmptyInv' BY DEF EmptyInv, macVars, boundVars
<1>4. DrainInv' BY DEF DrainInv, macVars, boundVars
<1>5. EpochInv' BY DEF EpochInv, macVars, boundVars, Types, Engines, WorkerReady, Named
<1>6. ResultsInv' BY DEF ResultsInv, macVars, boundVars, Whole
<1>7. QED BY <1>1, <1>2, <1>3, <1>4, <1>5, <1>6

(* An engine process dies by itself; its context stays behind. *)
LEMMA CrashesKeeps == ASSUME LayoutInv, NEW p \in procs, Crashes(p) PROVE LayoutInv'
<1> USE DEF LayoutInv, Crashes
<1>1. Types' BY DEF Types, macVars
<1>2. ProcsInv' BY DEF ProcsInv, Taken, macVars
<1>3. EmptyInv' BY DEF EmptyInv, macVars
<1>4. DrainInv' BY DEF DrainInv, macVars
<1>5. EpochInv' BY DEF EpochInv, macVars, WorkerReady, Named
<1>6. ResultsInv' BY DEF ResultsInv, macVars, Whole
<1>7. QED BY <1>1, <1>2, <1>3, <1>4, <1>5, <1>6

(* The driver frees a context. *)
LEMMA ContextFreedKeeps == ASSUME LayoutInv, NEW i \in contexts, ContextFreed(i) PROVE LayoutInv'
<1> USE DEF LayoutInv, ContextFreed
<1>1. Types'
  <2>1. contexts' \subseteq [epoch : {sup'.epoch}, kind : Kinds] BY DEF Types
  <2>2. QED BY <2>1 DEF Types, macVars, boundVars
<1>2. ProcsInv' BY DEF ProcsInv, Taken, macVars, boundVars
<1>3. EmptyInv' BY DEF EmptyInv, macVars, boundVars
<1>4. DrainInv' BY DEF DrainInv, macVars, boundVars
<1>5. EpochInv' BY DEF EpochInv, macVars, boundVars, WorkerReady, Named
<1>6. ResultsInv' BY DEF ResultsInv, macVars, boundVars, Whole
<1>7. QED BY <1>1, <1>2, <1>3, <1>4, <1>5, <1>6

(* A command of the controller takes a free number, perhaps that of a listed process. *)
LEMMA ProbeKeeps == ASSUME LayoutInv, Probe PROVE LayoutInv'
<1> USE DEF LayoutInv, Probe
<1>0. /\ procs' \subseteq Processes /\ Taken(procs', drain)
      /\ \A p, q \in procs' : p.pid = q.pid \/ p.id = q.id => p = q
      /\ Process(0, "probe").id = [epoch |-> 0, kind |-> "probe"]
      /\ Process(0, "probe").sig = "none" /\ ~Process(0, "probe").cuda
  <2>1. 0 \in 0..Epochs /\ "probe" \in Kinds \cup {"probe"} BY Numbers
  <2>2. \A p \in procs : p.id # [epoch |-> 0, kind |-> "probe"]
    BY DEF ProcsInv
  <2>3. Room /\ procs' = procs \cup {Process(0, "probe")} OBVIOUS
  <2>4. procs \subseteq Processes /\ Taken(procs, drain)
        /\ \A p, q \in procs : p.pid = q.pid \/ p.id = q.id => p = q
    BY DEF ProcsInv
  <2> HIDE DEF LayoutInv, Probe
  <2>5. QED BY <2>1, <2>2, <2>3, <2>4, SpawnKeeps
<1>1. Types' BY DEF Types, macVars
<1>2. ProcsInv' BY <1>0 DEF ProcsInv, Taken, macVars
<1>3. EmptyInv' BY <1>0 DEF EmptyInv, macVars
<1>4. DrainInv' BY DEF DrainInv, macVars
<1>5. EpochInv' BY <1>0 DEF EpochInv, macVars, WorkerReady, Named
<1>6. ResultsInv' BY DEF ResultsInv, macVars, Whole
<1>7. QED BY <1>1, <1>2, <1>3, <1>4, <1>5, <1>6

(* The supervisor is told to stop; the epoch will not be followed by another. *)
LEMMA PodDeletedKeeps == ASSUME LayoutInv, PodDeleted PROVE LayoutInv'
<1> USE DEF LayoutInv, PodDeleted
<1>0. /\ ProcsInv'
      /\ \A q \in procs' : \E p \in procs : q.id = p.id /\ q.pid = p.pid /\ q.cuda = p.cuda
  <2>1. \A p \in procs : p.id.kind = "probe" => p \notin Named("supervisor") BY DEF Named
  <2>2. sup'.epoch = sup.epoch /\ engine'.forked = engine.forked
        /\ (engine'.at = "starting" => engine.at = "starting")
    BY DEF Types, Supervisors, Engines
  <2>3. QED BY <2>1, <2>2, SignalKeeps
<1>1. Types'
  <2>1. sup' \in Supervisors BY DEF Types, Supervisors
  <2>2. QED BY <2>1 DEF Types, macVars, boundVars, Supervisors
<1>2. ProcsInv' BY <1>0 DEF ProcsInv, Taken, macVars, boundVars, Types, Supervisors
<1>3. EmptyInv' BY <1>0 DEF EmptyInv, macVars, boundVars, Types, Supervisors
<1>4. DrainInv' BY DEF DrainInv, macVars, boundVars, Types, Supervisors
<1>5. EpochInv'
  <2>1. WorkerReady => WorkerReady' BY <1>0 DEF WorkerReady, Named, Types, Supervisors
  <2>2. UNCHANGED <<sup.epoch, files, ctl>> /\ (sup'.at = "launch" <=> sup.at = "launch")
    BY DEF macVars, Types, Supervisors
  <2>3. QED BY <2>1, <2>2 DEF EpochInv
<1>6. ResultsInv' BY DEF ResultsInv, macVars, boundVars, Whole
<1>7. QED BY <1>1, <1>2, <1>3, <1>4, <1>5, <1>6

-----------------------------------------------------------------------------
(* Steps of layout-engines.py *)

(* Only commands of the controller run when an epoch is launched. *)
LEMMA LaunchKeeps == ASSUME LayoutInv, Launch PROVE LayoutInv'
<1> USE DEF LayoutInv, Launch
<1>0. /\ procs' \subseteq Processes /\ Taken(procs', drain)
      /\ \A p, q \in procs' : p.pid = q.pid \/ p.id = q.id => p = q
      /\ Process(sup.epoch, "supervisor").id = [epoch |-> sup.epoch, kind |-> "supervisor"]
      /\ Process(sup.epoch, "supervisor").sig = "none" /\ ~Process(sup.epoch, "supervisor").cuda
  <2>1. sup.epoch \in 0..Epochs BY Numbers DEF Types, Supervisors, Epoch
  <2>2. \A p \in procs : p.id # [epoch |-> sup.epoch, kind |-> "supervisor"]
    BY Numbers DEF Types, Supervisors, EmptyInv
  <2>3. /\ procs \subseteq Processes /\ Room /\ Taken(procs, drain)
        /\ \A p, q \in procs : p.pid = q.pid \/ p.id = q.id => p = q
        /\ procs' = procs \cup {Process(sup.epoch, "supervisor")}
        /\ "supervisor" \in Kinds \cup {"probe"}
    BY DEF ProcsInv, Kinds
  <2> HIDE DEF LayoutInv, Launch
  <2>4. QED BY <2>1, <2>2, <2>3, SpawnKeeps
<1>1. Types'
  <2>1. engine' \in Engines BY DEF Engines
  <2>2. sup.epoch \in 0..Epochs BY Numbers DEF Types, Supervisors, Epoch
  <2>3. files' \in Results BY <2>2 DEF Types, Results
  <2>4. sup' \in Supervisors /\ sup'.epoch = sup.epoch BY DEF Types, Supervisors
  <2>5. QED BY <2>1, <2>3, <2>4 DEF Types, macVars, boundVars
<1>2. ProcsInv'
  <2>1. \A p \in procs : p.id.epoch = 0 /\ p.id.kind = "probe" BY DEF ProcsInv, EmptyInv
  <2>2. sup.epoch # 0 /\ sup'.epoch = sup.epoch BY Numbers DEF Types, Supervisors
  <2>3. \A p \in procs' : p \in procs \/ p = Process(sup.epoch, "supervisor") OBVIOUS
  <2>4. QED BY <1>0, <2>1, <2>2, <2>3 DEF ProcsInv
<1>3. EmptyInv' BY <1>0 DEF EmptyInv, macVars, boundVars, Types, Supervisors
<1>4. DrainInv' BY DEF DrainInv, macVars, boundVars, Types, Supervisors, Results, Ending
<1>5. EpochInv'
  BY <1>0 DEF EpochInv, macVars, boundVars, Types, Supervisors, Engines, Results, WorkerReady,
         Named
<1>6. ResultsInv' BY DEF ResultsInv, macVars, boundVars, Whole
<1>7. QED BY <1>1, <1>2, <1>3, <1>4, <1>5, <1>6

(* An epoch ends on request, on failure or with the Pod. *)
LEMMA WatchKeeps == ASSUME LayoutInv, Watch PROVE LayoutInv'
<1> USE DEF LayoutInv, Watch
<1>1. Types'
  <2>1. sup' \in Supervisors BY DEF Types, Supervisors
  <2>2. QED BY <2>1 DEF Types, macVars, boundVars, Supervisors
<1>2. ProcsInv' BY DEF ProcsInv, Taken, macVars, boundVars, Types, Supervisors
<1>3. EmptyInv' BY DEF EmptyInv, macVars, boundVars, Types, Supervisors
<1>4. DrainInv' BY DEF DrainInv, macVars, boundVars, Types, Supervisors
<1>5. EpochInv' BY DEF EpochInv, macVars, boundVars, Types, Supervisors, WorkerReady, Named
<1>6. ResultsInv' BY DEF ResultsInv, macVars, boundVars, Whole
<1>7. QED BY <1>1, <1>2, <1>3, <1>4, <1>5, <1>6

(* The signal to the supervisor. *)
LEMMA TerminateKeeps == ASSUME LayoutInv, Terminate PROVE LayoutInv'
<1> USE DEF LayoutInv, Terminate
<1>0. /\ ProcsInv'
      /\ \A q \in procs' : \E p \in procs : q.id = p.id /\ q.pid = p.pid /\ q.cuda = p.cuda
  <2>1. \A p \in procs : p.id.kind = "probe" => p \notin Named("supervisor") BY DEF Named
  <2>2. sup'.epoch = sup.epoch /\ engine'.forked = engine.forked
        /\ (engine'.at = "starting" => engine.at = "starting")
    BY DEF Types, Supervisors, Engines
  <2>3. QED BY <2>1, <2>2, SignalKeeps
<1>1. Types'
  <2>1. sup' \in Supervisors BY DEF Types, Supervisors
  <2>2. QED BY <2>1 DEF Types, macVars, boundVars, Supervisors
<1>2. ProcsInv' BY <1>0 DEF ProcsInv, Taken, macVars, boundVars, Types, Supervisors
<1>3. EmptyInv' BY <1>0 DEF EmptyInv, macVars, boundVars, Types, Supervisors
<1>4. DrainInv' BY DEF DrainInv, macVars, boundVars, Types, Supervisors, Ending
<1>5. EpochInv'
  <2>1. WorkerReady => WorkerReady' BY <1>0 DEF WorkerReady, Named, Types, Supervisors
  <2>2. UNCHANGED <<sup.epoch, files, ctl>> /\ (sup'.at = "launch" <=> sup.at = "launch")
    BY DEF macVars, Types, Supervisors
  <2>3. QED BY <2>1, <2>2 DEF EpochInv
<1>6. ResultsInv' BY DEF ResultsInv, macVars, boundVars, Whole
<1>7. QED BY <1>1, <1>2, <1>3, <1>4, <1>5, <1>6

(* The supervisor has ended, or is killed. *)
LEMMA WaitChildKeeps == ASSUME LayoutInv, WaitChild PROVE LayoutInv'
<1> USE DEF LayoutInv, WaitChild
<1>0. /\ ProcsInv'
      /\ \A q \in procs' : \E p \in procs : q.id = p.id /\ q.pid = p.pid /\ q.cuda = p.cuda
  <2>1. sup'.epoch = sup.epoch BY DEF Types, Supervisors
  <2>5. drain'.aim \subseteq drain.aim BY DEF NoDrain
  <2>2. CASE UNCHANGED procs
    <3>1. Taken(procs, drain)' BY <2>2, <2>5 DEF ProcsInv, Taken
    <3>2. QED BY <2>1, <2>2, <3>1 DEF ProcsInv
  <2>3. CASE procs' = Signalled(Named("supervisor"), "kill")
    <3>1. \A p \in procs : p.id.kind = "probe" => p \notin Named("supervisor") BY DEF Named
    <3>2. QED BY <2>1, <2>3, <2>5, <3>1, SignalKeeps
  <2>4. QED BY <2>2, <2>3
<1>1. Types'
  <2>1. sup' \in Supervisors /\ sup'.epoch = sup.epoch BY DEF Types, Supervisors
  <2>2. drain' \in Drains BY NoDrainTyped DEF Types
  <2>3. QED BY <2>1, <2>2 DEF Types, macVars, boundVars
<1>2. ProcsInv' BY <1>0 DEF ProcsInv, Taken, macVars, boundVars, Types, Supervisors
<1>3. EmptyInv' BY <1>0 DEF EmptyInv, macVars, boundVars, Types, Supervisors
<1>4. DrainInv'
  <2>1. sup'.epoch = sup.epoch /\ sup'.stopping = sup.stopping /\ files' = files
    BY DEF Types, Supervisors
  <2>2. sup.at \in Ending /\ (~sup.again /\ ~sup.stopping => sup.epoch \in files.advance)
    BY DEF DrainInv, Ending
  <2>3. sup' \in Supervisors /\ sup'.at \in {"list", "killed", "stop", "raise"}
        /\ (~sup'.again => ~sup.again)
    BY DEF Types, Supervisors
  <2>4. sup'.at = "list" => drain'.round = 0 BY DEF Types, Supervisors, NoDrain
  <2>5. QED BY <2>1, <2>2, <2>3, <2>4, Numbers DEF DrainInv
<1>5. EpochInv'
  <2>1. WorkerReady => WorkerReady' BY <1>0 DEF WorkerReady, Named, Types, Supervisors
  <2>2. UNCHANGED <<sup.epoch, files, ctl>> /\ (sup'.at = "launch" <=> sup.at = "launch")
    BY DEF macVars, Types, Supervisors
  <2>3. QED BY <2>1, <2>2 DEF EpochInv
<1>6. ResultsInv' BY DEF ResultsInv, macVars, boundVars, Whole
<1>7. QED BY <1>1, <1>2, <1>3, <1>4, <1>5, <1>6

(* The drain begins, or the stop has failed. *)
LEMMA WaitKilledKeeps == ASSUME LayoutInv, WaitKilled PROVE LayoutInv'
<1> USE DEF LayoutInv, WaitKilled
<1>1. Types'
  <2>1. sup' \in Supervisors /\ sup'.epoch = sup.epoch BY DEF Types, Supervisors, Raised
  <2>2. drain' \in Drains BY NoDrainTyped DEF Types
  <2>3. QED BY <2>1, <2>2 DEF Types, macVars, boundVars
<1>2. ProcsInv'
  <2>1. sup'.epoch = sup.epoch BY DEF Types, Supervisors, Raised
  <2>2. drain'.aim \subseteq drain.aim BY DEF NoDrain
  <2>3. Taken(procs, drain)' BY <2>2 DEF ProcsInv, Taken
  <2>4. QED BY <2>1, <2>3 DEF ProcsInv
<1>3. EmptyInv' BY DEF EmptyInv, macVars, boundVars, Types, Supervisors, Raised
<1>4. DrainInv'
  <2>1. sup'.epoch = sup.epoch /\ sup'.stopping = sup.stopping /\ files' = files
    BY DEF Types, Supervisors, Raised
  <2>2. sup.at \in Ending /\ (~sup.again /\ ~sup.stopping => sup.epoch \in files.advance)
    BY DEF DrainInv, Ending
  <2>3. sup' \in Supervisors /\ sup'.at \in {"list", "killed", "stop", "raise"}
        /\ (~sup'.again => ~sup.again)
    BY DEF Types, Supervisors, Raised
  <2>4. sup'.at = "list" => drain'.round = 0
    <3>1. CASE Named("supervisor") = {} BY <3>1 DEF NoDrain
    <3>2. CASE Named("supervisor") # {} BY <3>2 DEF Raised, Types, Supervisors
    <3>3. QED BY <3>1, <3>2
  <2>5. QED BY <2>1, <2>2, <2>3, <2>4, Numbers DEF DrainInv
<1>5. EpochInv'
  BY DEF EpochInv, macVars, boundVars, Types, Supervisors, WorkerReady, Named, Measured,
         Raised
<1>6. ResultsInv' BY DEF ResultsInv, macVars, boundVars, Whole
<1>7. QED BY <1>1, <1>2, <1>3, <1>4, <1>5, <1>6

(* What is listed is of this epoch. *)
LEMMA ListProcessesKeeps == ASSUME LayoutInv, ListProcesses PROVE LayoutInv'
<1> USE DEF LayoutInv, ListProcesses
<1>1. Types'
  <2>1. sup' \in Supervisors /\ sup'.epoch = sup.epoch BY DEF Types, Supervisors
  <2>2. {[pid |-> p.pid, id |-> p.id] : p \in Marked(sup.epoch)} \subseteq Listed
    BY DEF ProcsInv, Marked, Processes, Listed
  <2>3. drain \in Drains /\ drain.round + 1 \in 0..Rounds BY Numbers DEF Types, Drains, DrainInv
  <2>4. drain' \in Drains BY <2>2, <2>3 DEF Drains
  <2>5. QED BY <2>1, <2>4 DEF Types, macVars, boundVars
<1>2. ProcsInv' BY DEF ProcsInv, Taken, macVars, boundVars, Types, Supervisors
<1>3. EmptyInv' BY DEF EmptyInv, macVars, boundVars, Types, Supervisors
<1>4. DrainInv' BY DEF DrainInv, macVars, boundVars, Types, Supervisors, Drains, Ending, Marked
<1>5. EpochInv' BY DEF EpochInv, macVars, boundVars, Types, Supervisors, WorkerReady, Named
<1>6. ResultsInv' BY DEF ResultsInv, macVars, boundVars, Whole
<1>7. QED BY <1>1, <1>2, <1>3, <1>4, <1>5, <1>6

(* A listed process that is still there has its number to itself. *)
LEMMA LookUpKeeps == ASSUME LayoutInv, LookUp PROVE LayoutInv'
<1> USE DEF LayoutInv, LookUp
<1>0. PICK l \in drain.listed :
        drain' = [drain EXCEPT
                    !.listed = @ \ {l},
                    !.aim = {m \in {l} : \E p \in procs : p.pid = m.pid /\ p.id = m.id}]
  OBVIOUS
<1>1. Types'
  <2>1. drain' \in Drains BY <1>0 DEF Types, Drains
  <2>2. QED BY <2>1 DEF Types, macVars, boundVars
<1>2. ProcsInv'
  <2>1. l.id.epoch = sup.epoch /\ sup.epoch # 0
    BY Numbers DEF DrainInv, Types, Supervisors
  <2>2. drain'.aim = {m \in {l} : \E p \in procs : p.pid = m.pid /\ p.id = m.id}
    BY <1>0 DEF Types, Drains
  <2>3. ASSUME NEW p \in procs, NEW m \in drain'.aim, m.pid = p.pid PROVE p.id.epoch # 0
    <3>1. m = l /\ \E q \in procs : q.pid = l.pid /\ q.id = l.id BY <2>2
    <3>2. QED BY <2>1, <2>3, <3>1 DEF ProcsInv
  <2>4. Taken(procs, drain)' BY <2>3 DEF Taken
  <2>5. QED BY <2>4 DEF ProcsInv, macVars, boundVars
<1>3. EmptyInv' BY DEF EmptyInv, macVars, boundVars
<1>4. DrainInv' BY <1>0 DEF DrainInv, macVars, boundVars, Types, Drains
<1>5. EpochInv' BY DEF EpochInv, macVars, boundVars, WorkerReady, Named
<1>6. ResultsInv' BY DEF ResultsInv, macVars, boundVars, Whole
<1>7. QED BY <1>1, <1>2, <1>3, <1>4, <1>5, <1>6

(* A command that has the number by now has taken it since the look. *)
LEMMA SignalPidKeeps == ASSUME LayoutInv, SignalPid PROVE LayoutInv'
<1> USE DEF LayoutInv, SignalPid
<1>1. Types'
  <2>1. drain' \in Drains BY DEF Types, Drains
  <2>2. QED BY <2>1 DEF Types, macVars, boundVars
<1>0. /\ ProcsInv'
      /\ \A q \in procs' : \E p \in procs : q.id = p.id /\ q.pid = p.pid /\ q.cuda = p.cuda
  <2>1. \A p \in procs :
          p.id.kind = "probe" =>
            p \notin {q \in procs : \E l \in drain.aim : q.pid = l.pid} \/ p.reused
    BY DEF ProcsInv, Taken
  <2>2. Harder \in {"term", "kill"} BY DEF Harder
  <2>3. drain'.aim \subseteq drain.aim BY DEF Types, Drains
  <2>4. QED BY <2>1, <2>2, <2>3, SignalKeeps
<1>2. ProcsInv' BY <1>0
<1>3. EmptyInv' BY <1>0 DEF EmptyInv, macVars, boundVars
<1>4. DrainInv' BY DEF DrainInv, macVars, boundVars, Types, Drains
<1>5. EpochInv' BY <1>0 DEF EpochInv, macVars, boundVars, WorkerReady, Named
<1>6. ResultsInv' BY DEF ResultsInv, macVars, boundVars, Whole
<1>7. QED BY <1>1, <1>2, <1>3, <1>4, <1>5, <1>6

(* The driver lets nvidia-smi go; the stop has failed. *)
LEMMA QueryDiesKeeps == ASSUME LayoutInv, QueryDies PROVE LayoutInv'
<1> USE DEF LayoutInv, QueryDies
<1>1. Types'
  <2>1. sup' \in Supervisors /\ sup'.epoch = sup.epoch BY DEF Types, Supervisors, Raised
  <2>2. QED BY <2>1 DEF Types, macVars, boundVars
<1>2. ProcsInv' BY DEF ProcsInv, Taken, macVars, boundVars, Types, Supervisors, Raised
<1>3. EmptyInv' BY DEF EmptyInv, macVars, boundVars, Types, Supervisors, Raised
<1>4. DrainInv' BY DEF DrainInv, macVars, boundVars, Types, Supervisors, Ending, Raised
<1>5. EpochInv'
  BY DEF EpochInv, macVars, boundVars, Types, Supervisors, WorkerReady, Named, Measured,
         Raised
<1>6. ResultsInv' BY DEF ResultsInv, macVars, boundVars, Whole
<1>7. QED BY <1>1, <1>2, <1>3, <1>4, <1>5, <1>6

(* The GPU is found busy or free, or the query fails or hangs. *)
LEMMA QueryGpuKeeps == ASSUME LayoutInv, QueryGpu PROVE LayoutInv'
<1> USE DEF LayoutInv, QueryGpu
<1>1. Types'
  <2>1. sup' \in Supervisors BY DEF Types, Supervisors, Raised
  <2>2. drain' \in Drains BY DEF Types, Drains
  <2>3. QED BY <2>1, <2>2 DEF Types, macVars, boundVars, Supervisors, Raised
<1>2. ProcsInv'
  <2>1. sup'.epoch = sup.epoch BY DEF Types, Supervisors, Raised
  <2>2. drain'.aim = drain.aim BY DEF Types, Drains
  <2>3. Taken(procs, drain)' BY <2>2 DEF ProcsInv, Taken
  <2>4. QED BY <2>1, <2>3 DEF ProcsInv
<1>3. EmptyInv' BY DEF EmptyInv, macVars, boundVars, Types, Supervisors, Raised
<1>4. DrainInv' BY DEF DrainInv, macVars, boundVars, Types, Supervisors, Drains, Ending, Raised
<1>5. EpochInv'
  BY DEF EpochInv, macVars, boundVars, Types, Supervisors, WorkerReady, Named, Measured,
         Raised
<1>6. ResultsInv' BY DEF ResultsInv, macVars, boundVars, Whole
<1>7. QED BY <1>1, <1>2, <1>3, <1>4, <1>5, <1>6

(* Only a drain that finds no process and no context leads to the next epoch. *)
LEMMA LookAgainKeeps == ASSUME LayoutInv, LookAgain PROVE LayoutInv'
<1> USE DEF LayoutInv, LookAgain
<1>1. Types'
  <2>1. sup' \in Supervisors /\ sup'.epoch = sup.epoch BY DEF Types, Supervisors, Raised
  <2>2. ASSUME NEW m \in {"drained", "remaining"}, Marker(m) PROVE files' \in Results
    <3>1. sup.epoch \in Epoch /\ files \in Results BY DEF Types, Supervisors
    <3>2. [files.shutdown EXCEPT ![sup.epoch] = m] \in [Epoch -> {"none", "drained", "remaining"}]
      BY <3>1 DEF Results
    <3>3. QED BY <2>2, <3>1, <3>2 DEF Marker, Results
  <2>3. files' \in Results BY <2>2 DEF Types
  <2>4. QED BY <2>1, <2>3 DEF Types, macVars, boundVars
<1>2. ProcsInv' BY DEF ProcsInv, Taken, macVars, boundVars, Types, Supervisors, Raised
<1>3. EmptyInv'
  <2>1. CASE /\ NothingLeft /\ Marker("drained")
             /\ sup' = [sup EXCEPT !.at = IF sup.again THEN "raise"
                                          ELSE IF sup.stopping THEN "stopped" ELSE "next"]
    <3>1. ~sup.again /\ ~sup.stopping => contexts = {}
      BY <2>1 DEF DrainInv, NothingLeft
    <3>2. \A p \in procs : p.id.epoch = 0 BY <2>1 DEF NothingLeft, Marked, ProcsInv
    <3>3. QED BY <2>1, <3>1, <3>2 DEF EmptyInv, Types, Supervisors
  <2>2. CASE drain.round < Rounds /\ sup' = [sup EXCEPT !.at = "list"] /\ UNCHANGED files
    BY <2>2 DEF EmptyInv, Types, Supervisors
  <2>3. CASE Marker("remaining") /\ sup' = Raised
    BY <2>3 DEF EmptyInv, Types, Supervisors, Results, Raised, Marker
  <2>4. QED BY <2>1, <2>2, <2>3
<1>4. DrainInv'
  <2>1. CASE /\ NothingLeft /\ Marker("drained")
             /\ sup' = [sup EXCEPT !.at = IF sup.again THEN "raise"
                                          ELSE IF sup.stopping THEN "stopped" ELSE "next"]
    <3>1. files'.advance = files.advance BY <2>1 DEF Marker, Types, Results
    <3>2. ~sup.again /\ ~sup.stopping => sup.epoch \in files.advance BY DEF DrainInv, Ending
    <3>3. QED BY <2>1, <3>1, <3>2 DEF DrainInv, Types, Supervisors, Ending
  <2>2. CASE drain.round < Rounds /\ sup' = [sup EXCEPT !.at = "list"] /\ UNCHANGED files
    BY <2>2 DEF DrainInv, Types, Supervisors, Ending
  <2>3. CASE Marker("remaining") /\ sup' = Raised
    BY <2>3 DEF DrainInv, Types, Supervisors, Results, Raised, Marker, Ending
  <2>4. QED BY <2>1, <2>2, <2>3
<1>5. EpochInv'
  BY DEF EpochInv, macVars, boundVars, Types, Supervisors, Results, WorkerReady, Named,
         Measured, Raised, Marker
<1>6. ResultsInv' BY DEF ResultsInv, macVars, boundVars, Whole
<1>7. QED BY <1>1, <1>2, <1>3, <1>4, <1>5, <1>6

(* Nothing is left of the epoch, and the controller does not measure. *)
LEMMA NextEpochKeeps == ASSUME LayoutInv, NextEpoch PROVE LayoutInv'
<1> USE DEF LayoutInv, NextEpoch
<1>1. Types'
  <2>1. sup.epoch \in 1..Epochs BY DEF Types, Supervisors, Epoch
  <2>2. sup.epoch < Epochs => sup.epoch + 1 \in Epoch BY <2>1, Numbers DEF Epoch
  <2>3. sup' \in Supervisors BY <2>2 DEF Types, Supervisors
  <2>4. contexts = {} BY DEF EmptyInv
  <2>5. QED BY <2>3, <2>4 DEF Types, macVars, boundVars
<1>2. ProcsInv'
  <2>1. \A p \in procs : p.id.epoch = 0 BY DEF EmptyInv
  <2>2. QED BY <2>1 DEF ProcsInv
<1>3. EmptyInv' BY DEF EmptyInv, macVars, boundVars, Types, Supervisors
<1>4. DrainInv' BY DEF DrainInv, macVars, boundVars, Types, Supervisors, Ending
<1>5. EpochInv'
  <2>1. sup \in Supervisors /\ sup.epoch \in Nat /\ ctl.epoch \in Nat
    BY Numbers DEF Types, Supervisors, Controls
  <2>2. /\ files.current = sup.epoch /\ sup.epoch \in files.advance
        /\ files.advance \subseteq 1..sup.epoch
    BY DEF EpochInv, DrainInv
  <2>3. ctl.at \notin Measured BY <2>1, <2>2 DEF EpochInv
  <2>4. CASE sup.epoch < Epochs
    <3>1. sup'.at = "launch" /\ sup'.epoch = sup.epoch + 1 BY <2>1, <2>4 DEF Supervisors
    <3>2. sup'.epoch \notin files.advance /\ files.advance \subseteq 1..sup'.epoch
      BY <2>1, <2>2, <3>1
    <3>3. QED BY <2>1, <2>2, <2>3, <3>1, <3>2 DEF EpochInv, macVars
  <2>5. CASE ~(sup.epoch < Epochs)
    <3>1. sup'.at = "stopped" /\ sup'.epoch = sup.epoch BY <2>1, <2>5 DEF Supervisors
    <3>2. QED BY <3>1 DEF EpochInv, macVars, WorkerReady, Named
  <2>6. QED BY <2>4, <2>5
<1>6. ResultsInv' BY DEF ResultsInv, macVars, boundVars, Whole
<1>7. QED BY <1>1, <1>2, <1>3, <1>4, <1>5, <1>6

(* A failed supervisor stays where it is. *)
LEMMA LayoutFailureKeeps == ASSUME LayoutInv, LayoutFailure PROVE LayoutInv'
<1> USE DEF LayoutInv, LayoutFailure
<1>1. Types'
  <2>1. sup' \in Supervisors BY DEF Types, Supervisors
  <2>2. files' \in Results BY DEF Types, Results
  <2>3. QED BY <2>1, <2>2 DEF Types, macVars, boundVars, Supervisors
<1>2. ProcsInv' BY DEF ProcsInv, Taken, macVars, boundVars, Types, Supervisors
<1>3. EmptyInv' BY DEF EmptyInv, macVars, boundVars, Types, Supervisors
<1>4. DrainInv' BY DEF DrainInv, macVars, boundVars, Types, Supervisors, Results, Ending
<1>5. EpochInv'
  BY DEF EpochInv, macVars, boundVars, Types, Supervisors, Results, WorkerReady, Named
<1>6. ResultsInv' BY DEF ResultsInv, macVars, boundVars, Whole
<1>7. QED BY <1>1, <1>2, <1>3, <1>4, <1>5, <1>6

-----------------------------------------------------------------------------
(* Steps of the client and of the controller *)

(* The client notes who answers. *)
LEMMA BaselineKeeps == ASSUME LayoutInv, Baseline PROVE LayoutInv'
<1> USE DEF LayoutInv, Baseline
<1>1. Types'
  <2>1. Answering \subseteq Ids BY DEF Answering, ProcsInv, Processes
  <2>2. client' \in Clients BY <2>1 DEF Types, Clients
  <2>3. QED BY <2>2 DEF Types, macVars, boundVars, clientOnly, containerVars
<1>2. ProcsInv' BY DEF ProcsInv, Taken, containerVars, macVars, boundVars, clientOnly
<1>3. EmptyInv' BY DEF EmptyInv, containerVars, macVars, boundVars, clientOnly
<1>4. DrainInv' BY DEF DrainInv, containerVars, macVars, boundVars, clientOnly
<1>5. EpochInv'
  BY DEF EpochInv, containerVars, macVars, boundVars, clientOnly, WorkerReady, Named
<1>6. ResultsInv'
  BY DEF ResultsInv, containerVars, macVars, boundVars, clientOnly, Types, Clients, Whole,
         Measured, Answering
<1>7. QED BY <1>1, <1>2, <1>3, <1>4, <1>5, <1>6

(* An answer is of the epoch that runs, which is the measured one until it is collected. *)
LEMMA AskKeeps == ASSUME LayoutInv, Ask PROVE LayoutInv'
<1> USE DEF LayoutInv, Ask
<1>1. Types'
  <2>1. Answering \subseteq Ids BY DEF Answering, ProcsInv, Processes
  <2>2. PICK i \in Answering : client' = [client EXCEPT !.rows = Append(@, i.epoch)]
    OBVIOUS
  <2>3. i.epoch \in 0..Epochs BY <2>1 DEF Ids
  <2>4. Append(client.rows, i.epoch) \in Seq(0..Epochs) BY <2>3 DEF Types, Clients
  <2>5. client' \in Clients BY <2>2, <2>4 DEF Types, Clients
  <2>6. QED BY <2>5 DEF Types, macVars, boundVars, clientOnly, containerVars
<1>2. ProcsInv' BY DEF ProcsInv, Taken, containerVars, macVars, boundVars, clientOnly
<1>3. EmptyInv' BY DEF EmptyInv, containerVars, macVars, boundVars, clientOnly
<1>4. DrainInv' BY DEF DrainInv, containerVars, macVars, boundVars, clientOnly
<1>5. EpochInv'
  BY DEF EpochInv, containerVars, macVars, boundVars, clientOnly, WorkerReady, Named
<1>6. ResultsInv'
  <2>1. PICK i \in Answering : client' = [client EXCEPT !.rows = Append(@, i.epoch)]
    OBVIOUS
  <2>2. i.epoch = sup.epoch /\ i.epoch \in 0..Epochs
    BY DEF Answering, ProcsInv, Processes, Ids
  <2>3. /\ client'.at = client.at /\ Len(client'.rows) = Len(client.rows) + 1
        /\ Len(client.rows) \in Nat /\ client'.rows[Len(client.rows) + 1] = i.epoch
        /\ \A k \in 1..Len(client.rows) : client'.rows[k] = client.rows[k]
    BY <2>1, <2>2 DEF Types, Clients
  <2>4. Len(client'.rows) <= Requests BY <2>3, Numbers
  <2>5. ctl.at \in {"exit", "collect"} =>
          \A k \in 1..Len(client'.rows) : client'.rows[k] = ctl.epoch
    BY <2>2, <2>3 DEF ResultsInv, EpochInv, Measured
  <2>6. QED BY <2>3, <2>4, <2>5 DEF ResultsInv, macVars, clientOnly, Whole
<1>7. QED BY <1>1, <1>2, <1>3, <1>4, <1>5, <1>6

(* A client is done when all its requests are. *)
LEMMA ClientCompletesKeeps == ASSUME LayoutInv, ClientCompletes PROVE LayoutInv'
<1> USE DEF LayoutInv, ClientCompletes
<1>1. Types'
  <2>1. client' \in Clients BY DEF Types, Clients, Answering
  <2>2. QED BY <2>1 DEF Types, containerVars, macVars, boundVars, clientOnly
<1>2. ProcsInv' BY DEF ProcsInv, Taken, containerVars, macVars, boundVars, clientOnly
<1>3. EmptyInv' BY DEF EmptyInv, containerVars, macVars, boundVars, clientOnly
<1>4. DrainInv' BY DEF DrainInv, containerVars, macVars, boundVars, clientOnly
<1>5. EpochInv'
  BY DEF EpochInv, containerVars, macVars, boundVars, clientOnly, WorkerReady, Named
<1>6. ResultsInv'
  BY DEF ResultsInv, containerVars, macVars, boundVars, clientOnly, Types, Clients, Whole,
         Measured, Answering
<1>7. QED BY <1>1, <1>2, <1>3, <1>4, <1>5, <1>6

(* A client that fails is not collected. *)
LEMMA ClientFailsKeeps == ASSUME LayoutInv, ClientFails PROVE LayoutInv'
<1> USE DEF LayoutInv, ClientFails
<1>1. Types'
  <2>1. client' \in Clients BY DEF Types, Clients
  <2>2. QED BY <2>1 DEF Types, containerVars, macVars, boundVars, clientOnly
<1>2. ProcsInv' BY DEF ProcsInv, Taken, containerVars, macVars, boundVars, clientOnly
<1>3. EmptyInv' BY DEF EmptyInv, containerVars, macVars, boundVars, clientOnly
<1>4. DrainInv' BY DEF DrainInv, containerVars, macVars, boundVars, clientOnly
<1>5. EpochInv'
  BY DEF EpochInv, containerVars, macVars, boundVars, clientOnly, WorkerReady, Named
<1>6. ResultsInv'
  BY DEF ResultsInv, containerVars, macVars, boundVars, clientOnly, Types, Clients, Whole,
         Measured
<1>7. QED BY <1>1, <1>2, <1>3, <1>4, <1>5, <1>6

(* Who answers after the epoch is current is its worker, and it has its GPU. *)
LEMMA ReadyKeeps == ASSUME LayoutInv, Ready PROVE LayoutInv'
<1> USE DEF LayoutInv, Ready
<1>1. Types'
  <2>1. ctl' \in Controls BY DEF Types, Controls
  <2>2. QED BY <2>1 DEF Types, containerVars, boundVars, ctlOnly
<1>2. ProcsInv' BY DEF ProcsInv, Taken, containerVars, boundVars, ctlOnly
<1>3. EmptyInv' BY DEF EmptyInv, containerVars, boundVars, ctlOnly
<1>4. DrainInv' BY DEF DrainInv, containerVars, boundVars, ctlOnly
<1>5. EpochInv'
  <2>1. PICK p \in procs : p.cuda BY DEF Answering
  <2>2. p.id = [epoch |-> sup.epoch, kind |-> "worker"] /\ p.id.epoch # 0
    BY <2>1 DEF ProcsInv, Processes, Ids
  <2>3. sup.at # "launch" BY <2>2 DEF EmptyInv
  <2>4. ctl.epoch = sup.epoch BY <2>3 DEF EpochInv
  <2>5. WorkerReady
    <3>1. \A w \in Named("worker") : w = p BY <2>2 DEF Named, ProcsInv
    <3>2. QED BY <2>1, <2>2, <3>1 DEF WorkerReady, ProcsInv
  <2>6. ctl'.epoch = ctl.epoch /\ ctl'.at = "epoch" /\ ctl.at = "ready" BY DEF Types, Controls
  <2>7. UNCHANGED <<sup, engine, procs, files>> BY DEF ctlOnly, containerVars
  <2>8. QED BY <2>3, <2>4, <2>5, <2>6, <2>7 DEF EpochInv, Measured, WorkerReady, Named
<1>6. ResultsInv'
  BY DEF ResultsInv, containerVars, boundVars, ctlOnly, Types, Controls, Whole, Measured
<1>7. QED BY <1>1, <1>2, <1>3, <1>4, <1>5, <1>6

(* A new client has no rows. *)
LEMMA StartEpochKeeps == ASSUME LayoutInv, StartEpoch PROVE LayoutInv'
<1> USE DEF LayoutInv, StartEpoch
<1>1. Types'
  <2>1. ctl' \in Controls BY DEF Types, Controls
  <2>2. client' \in Clients BY Numbers, EmptySeq DEF Types, Clients, NoClient
  <2>3. QED BY <2>1, <2>2 DEF Types, containerVars, boundVars
<1>2. ProcsInv' BY DEF ProcsInv, Taken, containerVars, boundVars
<1>3. EmptyInv' BY DEF EmptyInv, containerVars, boundVars
<1>4. DrainInv' BY DEF DrainInv, containerVars, boundVars
<1>5. EpochInv'
  BY DEF EpochInv, containerVars, boundVars, Types, Controls, WorkerReady, Named, Measured
<1>6. ResultsInv'
  <2>1. client'.rows = <<>> /\ client'.at = "start" BY DEF NoClient
  <2>2. Len(client'.rows) = 0 BY <2>1
  <2>3. ctl.at = "epoch" /\ ctl'.at = "exit" /\ ctl'.epoch = ctl.epoch BY DEF Types, Controls
  <2>4. drained = 1..(ctl.epoch - 1) /\ (\A e \in 1..(ctl.epoch - 1) : Whole(e)) /\ ~qualified
    BY <2>3 DEF ResultsInv, Measured
  <2>5. UNCHANGED <<retained, drained, qualified>> OBVIOUS
  <2>6. \A i \in 1..Len(client'.rows) : client'.rows[i] = ctl'.epoch BY <2>2
  <2> HIDE DEF LayoutInv, StartEpoch
  <2>7. /\ Len(client'.rows) <= Requests /\ client'.at # "ok" /\ ~qualified'
        /\ ctl'.at \notin {"collect", "copy-client", "copied", "reserve", "poll", "marker",
                          "final", "done"}
    BY <2>1, <2>2, <2>3, <2>4, <2>5, Numbers
  <2>8. drained' = 1..(ctl'.epoch - 1) /\ \A e \in 1..(ctl'.epoch - 1) : Whole(e)'
    BY <2>3, <2>4, <2>5 DEF Whole
  <2>9. QED BY <2>6, <2>7, <2>8 DEF ResultsInv
<1>7. QED BY <1>1, <1>2, <1>3, <1>4, <1>5, <1>6

(* The controller sees a client that is done. *)
LEMMA SeeCompleteKeeps == ASSUME LayoutInv, SeeComplete PROVE LayoutInv'
<1> USE DEF LayoutInv, SeeComplete
<1>1. Types'
  <2>1. ctl' \in Controls BY DEF Types, Controls
  <2>2. QED BY <2>1 DEF Types, containerVars, boundVars, ctlOnly
<1>2. ProcsInv' BY DEF ProcsInv, Taken, containerVars, boundVars, ctlOnly
<1>3. EmptyInv' BY DEF EmptyInv, containerVars, boundVars, ctlOnly
<1>4. DrainInv' BY DEF DrainInv, containerVars, boundVars, ctlOnly
<1>5. EpochInv'
  BY DEF EpochInv, containerVars, boundVars, ctlOnly, Types, Controls, WorkerReady, Named,
         Measured
<1>6. ResultsInv'
  BY DEF ResultsInv, containerVars, boundVars, ctlOnly, Types, Controls, Whole, Measured
<1>7. QED BY <1>1, <1>2, <1>3, <1>4, <1>5, <1>6

(* The engines' files are copied, or an error is noted. *)
LEMMA CopyEnginesKeeps == ASSUME LayoutInv, CopyEngines PROVE LayoutInv'
<1> USE DEF LayoutInv, CopyEngines
<1>1. Types'
  <2>1. ctl' \in Controls BY DEF Types, Controls
  <2>2. retained' \in [Epoch -> Copies] BY DEF Types, Copies, Controls
  <2>3. QED BY <2>1, <2>2 DEF Types, containerVars, boundVars
<1>2. ProcsInv' BY DEF ProcsInv, Taken, containerVars, boundVars
<1>3. EmptyInv' BY DEF EmptyInv, containerVars, boundVars
<1>4. DrainInv' BY DEF DrainInv, containerVars, boundVars
<1>5. EpochInv'
  BY DEF EpochInv, containerVars, boundVars, Types, Controls, WorkerReady, Named, Measured
<1>6. ResultsInv'
  <2>1. /\ ctl'.epoch = ctl.epoch /\ ctl'.at = "copy-client" /\ ctl.at = "collect"
        /\ ctl.epoch \in Epoch /\ ctl.epoch \in Nat
    BY Numbers DEF Types, Controls
  <2>2. ~ctl'.errors => retained'[ctl.epoch].engines BY <2>1 DEF Types, Controls, Copies
  <2>3. \A e \in 1..(ctl.epoch - 1) : retained'[e] = retained[e]
    <3>1. \A e \in 1..(ctl.epoch - 1) : e \in Epoch /\ e # ctl.epoch BY <2>1, Numbers DEF Epoch
    <3>2. \A e \in Epoch \ {ctl.epoch} : retained'[e] = retained[e] BY DEF Types
    <3>3. QED BY <3>1, <3>2
  <2>4. QED BY <2>1, <2>2, <2>3 DEF ResultsInv, Whole, Measured, containerVars, boundVars
<1>7. QED BY <1>1, <1>2, <1>3, <1>4, <1>5, <1>6

(* The client's rows are copied, one a request and all of the epoch, or an error is noted. *)
LEMMA CopyClientKeeps == ASSUME LayoutInv, CopyClient PROVE LayoutInv'
<1> USE DEF LayoutInv, CopyClient
<1>1. Types'
  <2>1. ctl' \in Controls BY DEF Types, Controls
  <2>2. retained' \in [Epoch -> Copies]
    <3>1. /\ ctl.epoch \in Epoch /\ client.rows \in Seq(0..Epochs)
          /\ retained \in [Epoch -> Copies]
      BY DEF Types, Clients, Controls
    <3>2. [retained[ctl.epoch] EXCEPT !.rows = client.rows] \in Copies
      BY <3>1 DEF Copies
    <3>3. QED BY <3>1, <3>2
  <2>3. QED BY <2>1, <2>2 DEF Types, containerVars, boundVars
<1>2. ProcsInv' BY DEF ProcsInv, Taken, containerVars, boundVars
<1>3. EmptyInv' BY DEF EmptyInv, containerVars, boundVars
<1>4. DrainInv' BY DEF DrainInv, containerVars, boundVars
<1>5. EpochInv'
  BY DEF EpochInv, containerVars, boundVars, Types, Controls, WorkerReady, Named, Measured
<1>6. ResultsInv'
  <2>1. /\ ctl'.epoch = ctl.epoch /\ ctl'.at = "copied" /\ ctl.at = "copy-client"
        /\ ctl.epoch \in Epoch /\ ctl.epoch \in Nat
    BY Numbers DEF Types, Controls
  <2>2. /\ Len(client.rows) = Requests /\ client.rows \in Seq(0..Epochs)
        /\ \A i \in 1..Len(client.rows) : client.rows[i] = ctl.epoch
    BY <2>1 DEF ResultsInv, Types, Clients
  <2>3. client.rows = [i \in 1..Requests |-> ctl.epoch] BY <2>2, LenProperties
  <2>4. ~ctl'.errors => Whole(ctl.epoch)'
    <3>1. SUFFICES ASSUME ~ctl'.errors PROVE Whole(ctl.epoch)' OBVIOUS
    <3>2. ~ctl.errors /\ retained' = [retained EXCEPT ![ctl.epoch].rows = client.rows]
      BY <3>1 DEF Types, Controls
    <3>3. retained[ctl.epoch] \in Copies /\ retained[ctl.epoch].engines = TRUE
      BY <2>1, <3>2 DEF ResultsInv, Types, Copies
    <3>4. retained'[ctl.epoch] = [rows |-> client.rows, engines |-> TRUE]
      BY <2>1, <3>2, <3>3 DEF Types, Copies
    <3>5. QED BY <2>1, <2>3, <3>4 DEF Whole
  <2>5. \A e \in 1..(ctl.epoch - 1) : retained'[e] = retained[e]
    <3>1. \A e \in 1..(ctl.epoch - 1) : e \in Epoch /\ e # ctl.epoch BY <2>1, Numbers DEF Epoch
    <3>2. \A e \in Epoch \ {ctl.epoch} : retained'[e] = retained[e] BY DEF Types
    <3>3. QED BY <3>1, <3>2
  <2>6. QED BY <2>1, <2>4, <2>5 DEF ResultsInv, Whole, Measured, containerVars, boundVars
<1>7. QED BY <1>1, <1>2, <1>3, <1>4, <1>5, <1>6

(* Without an error both copies are there. *)
LEMMA CollectedKeeps == ASSUME LayoutInv, Collected PROVE LayoutInv'
<1> USE DEF LayoutInv, Collected
<1>1. Types'
  <2>1. ctl' \in Controls BY DEF Types, Controls
  <2>2. QED BY <2>1 DEF Types, containerVars, boundVars, ctlOnly
<1>2. ProcsInv' BY DEF ProcsInv, Taken, containerVars, boundVars, ctlOnly
<1>3. EmptyInv' BY DEF EmptyInv, containerVars, boundVars, ctlOnly
<1>4. DrainInv' BY DEF DrainInv, containerVars, boundVars, ctlOnly
<1>5. EpochInv'
  BY DEF EpochInv, containerVars, boundVars, ctlOnly, Types, Controls, WorkerReady, Named,
         Measured
<1>6. ResultsInv'
  BY DEF ResultsInv, containerVars, boundVars, ctlOnly, Types, Controls, Whole, Measured
<1>7. QED BY <1>1, <1>2, <1>3, <1>4, <1>5, <1>6

(* The epoch may end; its results are collected. *)
LEMMA AdvanceKeeps == ASSUME LayoutInv, Advance PROVE LayoutInv'
<1> USE DEF LayoutInv, Advance
<1>1. Types'
  <2>1. files' \in Results BY DEF Types, Results, Controls
  <2>2. ctl' \in Controls BY DEF Types, Controls
  <2>3. QED BY <2>1, <2>2 DEF Types, containerVars, boundVars, ctlOnly
<1>2. ProcsInv' BY DEF ProcsInv, Taken, containerVars, boundVars, ctlOnly
<1>3. EmptyInv' BY DEF EmptyInv, containerVars, boundVars, ctlOnly
<1>4. DrainInv' BY DEF DrainInv, containerVars, boundVars, ctlOnly, Types, Results
<1>5. EpochInv'
  <2>1. /\ ctl.epoch \in Nat \ {0} /\ ctl'.epoch = ctl.epoch
        /\ ctl'.at = "poll" /\ ctl.at = "reserve"
    BY Numbers DEF Types, Controls
  <2>2. files'.current = files.current /\ files'.advance = files.advance \cup {ctl.epoch}
    BY DEF Types, Results
  <2>3. /\ files.advance = 1..(ctl.epoch - 1) /\ sup.epoch = ctl.epoch /\ sup.at # "launch"
        /\ WorkerReady
    BY <2>1 DEF EpochInv, Measured
  <2>4. files'.advance = 1..ctl.epoch BY <2>1, <2>2, <2>3
  <2>5. UNCHANGED <<sup, engine, procs>> BY DEF ctlOnly, containerVars
  <2>6. QED BY <2>1, <2>2, <2>3, <2>4, <2>5 DEF EpochInv, Measured, WorkerReady, Named
<1>6. ResultsInv'
  BY DEF ResultsInv, containerVars, boundVars, ctlOnly, Types, Controls, Whole, Measured
<1>7. QED BY <1>1, <1>2, <1>3, <1>4, <1>5, <1>6

(* The controller reads on. *)
LEMMA NoFailureYetKeeps == ASSUME LayoutInv, NoFailureYet PROVE LayoutInv'
<1> USE DEF LayoutInv, NoFailureYet
<1>1. Types'
  <2>1. ctl' \in Controls BY DEF Types, Controls
  <2>2. QED BY <2>1 DEF Types, containerVars, boundVars, ctlOnly
<1>2. ProcsInv' BY DEF ProcsInv, Taken, containerVars, boundVars, ctlOnly
<1>3. EmptyInv' BY DEF EmptyInv, containerVars, boundVars, ctlOnly
<1>4. DrainInv' BY DEF DrainInv, containerVars, boundVars, ctlOnly
<1>5. EpochInv'
  BY DEF EpochInv, containerVars, boundVars, ctlOnly, Types, Controls, WorkerReady, Named,
         Measured
<1>6. ResultsInv'
  BY DEF ResultsInv, containerVars, boundVars, ctlOnly, Types, Controls, Whole, Measured
<1>7. QED BY <1>1, <1>2, <1>3, <1>4, <1>5, <1>6

(* The epoch is drained: the next one, or the end. *)
LEMMA ReadMarkerKeeps == ASSUME LayoutInv, ReadMarker PROVE LayoutInv'
<1> USE DEF LayoutInv, ReadMarker
<1>1. Types'
  <2>1. ctl.epoch \in 1..Epochs /\ ctl \in Controls BY DEF Types, Controls, Epoch
  <2>2. ctl.epoch < Epochs => ctl.epoch + 1 \in Epoch BY <2>1, Numbers DEF Epoch
  <2>3. ctl' \in Controls BY <2>1, <2>2 DEF Controls
  <2>4. drained' \subseteq Epoch BY <2>1 DEF Types, Epoch
  <2>5. QED BY <2>3, <2>4 DEF Types, containerVars, boundVars
<1>2. ProcsInv' BY DEF ProcsInv, Taken, containerVars, boundVars
<1>3. EmptyInv' BY DEF EmptyInv, containerVars, boundVars
<1>4. DrainInv' BY DEF DrainInv, containerVars, boundVars
<1>5. EpochInv'
  <2>1. ctl \in Controls /\ ctl.at = "marker" /\ ctl.epoch \in 1..Epochs
    BY DEF Types, Controls, Epoch
  <2>2. CASE ctl' = [ctl EXCEPT !.at = "poll"] /\ UNCHANGED drained
    BY <2>1, <2>2 DEF Controls, EpochInv, Measured, WorkerReady, Named, containerVars
  <2>3. CASE /\ drained' = drained \cup {ctl.epoch}
             /\ ctl' = IF ctl.epoch < Epochs THEN [ctl EXCEPT !.at = "ready", !.epoch = @ + 1]
                                             ELSE [ctl EXCEPT !.at = "final"]
    BY <2>1, <2>3 DEF Controls, EpochInv, Measured, WorkerReady, Named, containerVars
  <2>4. QED BY <2>2, <2>3
<1>6. ResultsInv'
  <2>1. ctl \in Controls /\ ctl.at = "marker" /\ ctl.epoch \in 1..Epochs
    BY DEF Types, Controls, Epoch
  <2>2. CASE ctl' = [ctl EXCEPT !.at = "poll"] /\ UNCHANGED drained
    BY <2>1, <2>2 DEF Controls, ResultsInv, Measured, Whole
  <2>3. CASE /\ drained' = drained \cup {ctl.epoch}
             /\ ctl' = IF ctl.epoch < Epochs THEN [ctl EXCEPT !.at = "ready", !.epoch = @ + 1]
                                             ELSE [ctl EXCEPT !.at = "final"]
    <3>1. /\ drained = 1..(ctl.epoch - 1) /\ Whole(ctl.epoch)
          /\ \A e \in 1..(ctl.epoch - 1) : Whole(e)
      BY <2>1 DEF ResultsInv
    <3>2. drained' = 1..ctl.epoch /\ \A e \in 1..ctl.epoch : Whole(e) BY <2>1, <2>3, <3>1
    <3>3. \A e : Whole(e)' <=> Whole(e) BY DEF Whole
    <3>4. CASE ctl.epoch < Epochs
      <4>1. ctl'.at = "ready" /\ ctl'.epoch - 1 = ctl.epoch BY <2>1, <2>3, <3>4
      <4>2. QED BY <2>1, <3>2, <3>3, <4>1 DEF ResultsInv
    <3>5. CASE ~(ctl.epoch < Epochs)
      <4>1. ctl.epoch = Epochs BY <2>1, <3>5, Numbers
      <4>2. ctl'.at = "final" BY <2>1, <2>3, <3>5 DEF Controls
      <4>3. QED BY <2>1, <3>2, <3>3, <4>1, <4>2 DEF ResultsInv, Epoch, Measured
    <3>6. QED BY <3>4, <3>5
  <2>4. QED BY <2>2, <2>3
<1>7. QED BY <1>1, <1>2, <1>3, <1>4, <1>5, <1>6

(* The session is qualified when every epoch is collected. *)
LEMMA QualifyKeeps == ASSUME LayoutInv, Qualify PROVE LayoutInv'
<1> USE DEF LayoutInv, Qualify
<1>1. Types'
  <2>1. ctl' \in Controls BY DEF Types, Controls
  <2>2. qualified' \in BOOLEAN BY DEF Types
  <2>3. QED BY <2>1, <2>2 DEF Types, containerVars, boundVars
<1>2. ProcsInv' BY DEF ProcsInv, Taken, containerVars, boundVars
<1>3. EmptyInv' BY DEF EmptyInv, containerVars, boundVars
<1>4. DrainInv' BY DEF DrainInv, containerVars, boundVars
<1>5. EpochInv'
  BY DEF EpochInv, containerVars, boundVars, Types, Controls, WorkerReady, Named, Measured
<1>6. ResultsInv' BY DEF ResultsInv, containerVars, boundVars, Types, Controls, Whole, Measured
<1>7. QED BY <1>1, <1>2, <1>3, <1>4, <1>5, <1>6

(* A controller that fails never qualifies. *)
LEMMA FailKeeps == ASSUME LayoutInv, Fail PROVE LayoutInv'
<1> USE DEF LayoutInv, Fail
<1>1. Types'
  <2>1. ctl' \in Controls BY DEF Types, Controls
  <2>2. QED BY <2>1 DEF Types, containerVars, boundVars, ctlOnly
<1>2. ProcsInv' BY DEF ProcsInv, Taken, containerVars, boundVars, ctlOnly
<1>3. EmptyInv' BY DEF EmptyInv, containerVars, boundVars, ctlOnly
<1>4. DrainInv' BY DEF DrainInv, containerVars, boundVars, ctlOnly
<1>5. EpochInv'
  BY DEF EpochInv, containerVars, boundVars, ctlOnly, Types, Controls, WorkerReady, Named,
         Measured
<1>6. ResultsInv'
  BY DEF ResultsInv, containerVars, boundVars, ctlOnly, Types, Controls, Whole, Measured
<1>7. QED BY <1>1, <1>2, <1>3, <1>4, <1>5, <1>6

-----------------------------------------------------------------------------
(* A new container has neither processes nor results. *)
LEMMA InitKeeps == Init => LayoutInv
<1> SUFFICES ASSUME Init PROVE LayoutInv OBVIOUS
<1> USE Numbers DEF Init
<1>1. Types
  <2>1. sup \in Supervisors BY DEF Supervisors
  <2>2. engine \in Engines BY DEF Engines
  <2>3. drain \in Drains BY NoDrainTyped
  <2>4. files \in Results BY DEF Results
  <2>5. ctl \in Controls BY DEF Controls
  <2>6. client \in Clients BY EmptySeq DEF Clients, NoClient
  <2>7. retained \in [Epoch -> Copies] BY EmptySeq DEF Copies
  <2>8. QED BY <2>1, <2>2, <2>3, <2>4, <2>5, <2>6, <2>7 DEF Types
<1>2. ProcsInv BY DEF ProcsInv, Taken
<1>3. EmptyInv BY DEF EmptyInv
<1>4. DrainInv BY DEF DrainInv, Ending
<1>5. EpochInv
  <2>1. files.advance = 1..(ctl.epoch - 1) OBVIOUS
  <2>2. QED BY <2>1 DEF EpochInv, Measured
<1>6. ResultsInv
  <2>1. Len(client.rows) = 0 /\ client.at = "none" BY EmptySeq DEF NoClient
  <2>2. drained = 1..(ctl.epoch - 1) /\ 1..(ctl.epoch - 1) = {} OBVIOUS
  <2>3. QED BY <2>1, <2>2 DEF ResultsInv, Measured
<1>7. QED BY <1>1, <1>2, <1>3, <1>4, <1>5, <1>6 DEF LayoutInv

(* Nothing but the listed steps changes the state. *)
LEMMA StutterKeeps == LayoutInv /\ UNCHANGED vars => LayoutInv'
<1> SUFFICES ASSUME LayoutInv, UNCHANGED vars PROVE LayoutInv' OBVIOUS
<1> USE DEF vars, LayoutInv
<1>1. Types' BY DEF Types
<1>2. ProcsInv' BY DEF ProcsInv, Taken
<1>3. EmptyInv' BY DEF EmptyInv
<1>4. DrainInv' BY DEF DrainInv
<1>5. EpochInv' BY DEF EpochInv, WorkerReady, Named
<1>6. ResultsInv' BY DEF ResultsInv, Whole
<1>7. QED BY <1>1, <1>2, <1>3, <1>4, <1>5, <1>6

(* What happens in the engine container by itself. *)
LEMMA ContainerKeeps == LayoutInv /\ Container => LayoutInv'
BY SpawnApiKeeps, ForkWorkerKeeps, SeeEngineExitKeeps, SupervisorStopsKeeps,
   SupervisorKillsKeeps, SupervisorEndsKeeps, ProbeKeeps, PodDeletedKeeps, TakeGpuKeeps,
   ExitsKeeps, CrashesKeeps, ContextFreedKeeps, QueryDiesKeeps
DEF Container

(* What layout-engines.py does. *)
LEMMA RestartingKeeps == LayoutInv /\ Restarting => LayoutInv'
BY LaunchKeeps, WatchKeeps, TerminateKeeps, WaitChildKeeps, WaitKilledKeeps,
   ListProcessesKeeps, LookUpKeeps, SignalPidKeeps, QueryGpuKeeps, LookAgainKeeps,
   NextEpochKeeps, LayoutFailureKeeps
DEF Restarting

(* What the client and the controller do. *)
LEMMA MeasuringKeeps == LayoutInv /\ Measuring => LayoutInv'
BY BaselineKeeps, AskKeeps, ClientCompletesKeeps, ClientFailsKeeps, ReadyKeeps,
   StartEpochKeeps, SeeCompleteKeeps, CopyEnginesKeeps, CopyClientKeeps, CollectedKeeps,
   AdvanceKeeps, NoFailureYetKeeps, ReadMarkerKeeps, QualifyKeeps, FailKeeps
DEF Measuring

(* Whatever is done, or nothing. *)
LEMMA NextKeeps == LayoutInv /\ [Next]_vars => LayoutInv'
BY StutterKeeps, ContainerKeeps, RestartingKeeps, MeasuringKeeps DEF Next

(* The strengthened invariant holds in every reachable state. *)
THEOREM LayoutInvariance == Spec => []LayoutInv
<1>1. QED BY InitKeeps, NextKeeps, PTL DEF Spec

(* It implies the four invariants that the runs check. *)
LEMMA LayoutInvImplies ==
  LayoutInv => TypeOK /\ EpochsDisjoint /\ SignalsOwn /\ QualifiedWhole
<1> SUFFICES ASSUME LayoutInv PROVE TypeOK /\ EpochsDisjoint /\ SignalsOwn /\ QualifiedWhole
  OBVIOUS
<1> USE DEF LayoutInv
<1>1. TypeOK
  <2>1. sup.epoch \in Epoch /\ ctl.epoch \in Epoch /\ files.current \in 0..sup.epoch
    <3>1. sup.epoch \in Epoch /\ ctl.epoch \in Epoch BY DEF Types, Supervisors, Controls
    <3>2. sup.epoch \in Nat \ {0} BY <3>1, Numbers
    <3>3. QED BY <3>1, <3>2 DEF EpochInv
  <2>2. \A p, q \in procs : p.pid = q.pid \/ p.id = q.id => p = q BY DEF ProcsInv
  <2>3. contexts \subseteq [epoch : Epoch, kind : Kinds] BY <2>1 DEF Types
  <2>4. drain.round \in 0..Rounds /\ files.advance \subseteq Epoch /\ drained \subseteq Epoch
    BY DEF Types, Drains, Results
  <2>5. Len(client.rows) <= Requests BY DEF ResultsInv
  <2>6. QED BY <2>1, <2>2, <2>3, <2>4, <2>5
    DEF TypeOK, Types, Supervisors, Engines, Clients
<1>2. EpochsDisjoint BY DEF EpochsDisjoint, ProcsInv, Types
<1>3. SignalsOwn BY DEF SignalsOwn, ProcsInv
<1>4. QualifiedWhole BY DEF QualifiedWhole, ResultsInv, Whole
<1>5. QED BY <1>1, <1>2, <1>3, <1>4

(* Every part of the layout session keeps its type, and no two processes   *)
(* of the container share a number or a role.                              *)
THEOREM LayoutTypeCorrect == Spec => []TypeOK
<1>1. QED BY LayoutInvariance, LayoutInvImplies, PTL

(* layout-engines.py starts an epoch only when nothing of an earlier one   *)
(* is alive or holds GPU memory.                                           *)
THEOREM EpochsAreDisjoint == Spec => []EpochsDisjoint
<1>1. QED BY LayoutInvariance, LayoutInvImplies, PTL

(* drain_epoch signals a process that carries no epoch's marker only if    *)
(* that took the number of a listed one between the second look at it and  *)
(* the signal, however much time has passed since the listing.             *)
THEOREM OnlyOwnSignalled == Spec => []SignalsOwn
<1>1. QED BY LayoutInvariance, LayoutInvImplies, PTL

(* run-layout-local.py qualifies a session only with whole results of      *)
(* every epoch from both Pods, each served by that epoch's engines.        *)
THEOREM QualifiedAreWhole == Spec => []QualifiedWhole
<1>1. QED BY LayoutInvariance, LayoutInvImplies, PTL
================================================================================
