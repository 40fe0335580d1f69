--------------------------- MODULE ServingSession ---------------------------
(***************************************************************************)
(* One serving session: run-serving.py qualifies the deployment with three *)
(* requests and writes correctness-verified.json; run-measurements.py runs *)
(* the arms of the first timing block and run-policy-comparison.py the     *)
(* blocks of one router policy, each as a benchmark Pod between two        *)
(* settled snapshots.                                                      *)
(*                                                                         *)
(* Work is numbered: kinds 1 to 3 are the correctness requests (direct,    *)
(* local, remote), kind 3 + i is item i of Plan.  The deadline is a flag:  *)
(* once it is up, remaining() fails and with it every command.             *)
(***************************************************************************)
EXTENDS Engines, FiniteSets, Sequences

CONSTANTS
  Plan,      \* the items: [pin, count], pin = None for a policy block
  Deployed,  \* the policy the router is first deployed with
  Declared,  \* the policy the plan of the blocks declares
  Attempts,  \* runs of the measurement programs an operator may start
  None

(* The arms of the timing block come first: policy blocks ask for them. *)
ASSUME ServingAssumption ==
  /\ Decoder = {"local", "remote"}
  /\ Plan \in Seq([pin : Decoder \cup {None}, count : Nat \ {0}]) /\ Plan # <<>>
  /\ \A i, j \in DOMAIN Plan : i < j /\ Plan[i].pin = None => Plan[j].pin = None
  /\ {Deployed, Declared} \subseteq Policy
  /\ Outcome \subseteq [good : Nat, bad : Nat] /\ Attempts \in Nat

(* None is nothing it stands in for: a pin, a request, the workers. *)
ASSUME NoneAssumption ==
  /\ None \notin Decoder
  /\ None \notin [by : Nat, to : Decoder]
  /\ None \notin [decoders : [Decoder -> Nat], epp : Nat]

VARIABLES
  pc,        \* where the controller is
  late,      \* the deadline, less the reserve, is over
  kind,      \* the kind of work being done
  base,      \* baseline_workers of the running program
  sample,    \* the metrics polled last
  seen,      \* pods.json and configmaps.json of the collection being made
  full,      \* the collection made last
  snap,      \* the settled snapshots of the work in hand
  marker,    \* correctness-verified.json exists
  validated, \* items that passed strict validation
  attempt,   \* measurement attempts so far
  pod,       \* the benchmark Pod
  sent,      \* requests it has sent
  call,      \* the request its client, or the correctness client, waits for
  log,       \* the access log of the kind: rows, and whether one is bad
  report     \* its report: "none", "written", "copied", "lost"

runnerVars == <<kind, base, sample, seen, full, snap, marker, validated, attempt>>
podVars    == <<pod, sent, call, log, report>>
servingVars == <<engineVars, pc, late, runnerVars, podVars>>

Kinds == 1..(3 + Len(Plan))
Stray == 0   \* requests left over from an earlier attempt
Qualifying == kind <= 3
Item(k) == Plan[k - 3]
Pin(k) == IF k = 3 THEN "remote" ELSE IF k <= 3 THEN "local" ELSE Item(k).pin
Incidents == epp.born + configMap.edits + SumFunction(born)
NewLog == [rows |-> 0, flawed |-> FALSE]

(* The benchmark Pod of the item is applied; the next snapshot is "after". *)
Measured == ~Qualifying /\ Len(snap) = 1 /\ pc # "create"

Boots == {"apply", "outputs", "nodes", "deploy", "serving", "client"}
Terminal == {"failed", "complete"}
Settling == {"poll1", "sleep", "poll", "pods", "metrics", "latesleep", "late"}
Places == Boots \cup Settling \cup Terminal \cup
          {"ask", "await", "judge", "start", "create", "exit", "delete", "preserve", "drop"}

Init ==
  /\ InitEngines(Kinds \cup {Stray}, Deployed)
  /\ pc = "apply" /\ late = FALSE /\ kind = 1
  /\ base = None /\ sample = None /\ seen = None /\ full = None /\ snap = <<>>
  /\ marker = FALSE /\ validated = {} /\ attempt = 0
  /\ pod = "none" /\ sent = 0 /\ call = None /\ log = NewLog /\ report = "none"

-----------------------------------------------------------------------------
(* From Terraform's result to a deployment that is ready.  A wait loop     *)
(* polls until what it waits for is there or remaining() fails.            *)

Phase(from, to) ==
  /\ pc = from /\ ~late
  /\ pc' = to
  /\ UNCHANGED <<engineVars, late, runnerVars, podVars>>

WaitApply       == Phase("apply", "outputs")
ReadOutputs     == Phase("outputs", "nodes")
WaitNodes       == Phase("nodes", "deploy")
ApplyModels     == Phase("deploy", "serving")
(* A container that has restarted is never ready. *)
WaitServing     == Fresh /\ Phase("serving", "client")
DeployClient    == Phase("client", "poll1")

-----------------------------------------------------------------------------
(* Settled snapshots *)

(* Faulty variant: only the counters are compared. *)
SettledWhileBusy(a, b) == a.shown = b.shown

(* Nothing runs or waits, and no counter moved between two samples. *)
MetricsSettled(a, b) == a.busy = {} /\ b.busy = {} /\ a.shown = b.shown

(* Faulty variant: a poll does not look at the workers. *)
AnyWorkers == base = base

(* The workers are those of the first poll of this program. *)
SameAsBaseline == base \in {None, Who}

FirstPoll ==
  /\ pc = "poll1" /\ ~late /\ SameAsBaseline
  /\ base' = Who /\ sample' = Sample
  /\ pc' = "sleep"
  /\ UNCHANGED <<engineVars, late, kind, seen, full, snap, marker, validated, attempt, podVars>>

Sleep ==
  /\ pc \in {"sleep", "latesleep"}
  /\ pc' = IF pc = "sleep" THEN "poll" ELSE "late"
  /\ ReportAll
  /\ UNCHANGED <<late, runnerVars, podVars>>

Poll ==
  /\ pc = "poll" /\ ~late /\ SameAsBaseline
  /\ sample' = Sample
  /\ pc' = IF MetricsSettled(sample, Sample) THEN "pods" ELSE "sleep"
  /\ UNCHANGED <<engineVars, late, kind, base, seen, full, snap, marker, validated, attempt,
                 podVars>>

(* collect.py reads the Pods and ConfigMaps first, logs and metrics later. *)
CollectPods ==
  /\ pc = "pods" /\ ~late
  /\ seen' = [who |-> Who, config |-> configMap.policy]
  /\ pc' = "metrics"
  /\ UNCHANGED <<engineVars, late, kind, base, sample, full, snap, marker, validated, attempt,
                 podVars>>

(* Faulty variant: an incomplete collection is good enough. *)
CollectAnything ==
  /\ pc = "metrics" /\ ~late
  /\ full' = [who |-> seen.who, config |-> seen.config, loaded |-> epp.loaded,
              metrics |-> Sample, log |-> log]
  /\ seen' = None
  /\ report' = IF Measured /\ pod = "done" THEN "copied" ELSE report
  /\ IF Qualifying
     THEN pc' = "latesleep" /\ UNCHANGED snap
     ELSE /\ MetricsSettled(sample, Sample)
          /\ snap' = Append(snap, full')
          /\ pc' = IF Measured THEN "judge" ELSE "create"
  /\ UNCHANGED <<engineVars, late, kind, base, sample, marker, validated, attempt, pod,
                 sent, call, log>>

(* The reports too, once the Pod has run; a failed harness fails the       *)
(* collection.  The correctness phase polls once more before it is content *)
(* and settles again if anything moved; the measurements give up.          *)
CollectMetrics ==
  /\ pc = "metrics" /\ ~late
  /\ full' = [who |-> seen.who, config |-> seen.config, loaded |-> epp.loaded,
              metrics |-> Sample, log |-> log]
  /\ seen' = None
  /\ report' = IF Measured THEN "copied" ELSE report
  /\ IF Qualifying
     THEN pc' = "latesleep" /\ UNCHANGED snap
     ELSE /\ MetricsSettled(sample, Sample)
          /\ Measured => pod = "done"
          /\ snap' = Append(snap, full')
          /\ pc' = IF Measured THEN "judge" ELSE "create"
  /\ UNCHANGED <<engineVars, late, kind, base, sample, marker, validated, attempt, pod,
                 sent, call, log>>

(* Some capture failed: the collection is incomplete, whatever it has. *)
CollectPartly ==
  /\ pc = "metrics" /\ ~late /\ Measured
  /\ pod \in {"done", "crashed"}
  /\ report' = "copied"
  /\ pc' = "preserve"
  /\ UNCHANGED <<engineVars, late, runnerVars, pod, sent, call, log>>

LatePoll ==
  /\ pc = "late" /\ ~late /\ SameAsBaseline
  /\ IF MetricsSettled(full.metrics, Sample)
     THEN /\ snap' = Append(snap, full)
          /\ pc' = IF Len(snap) = 3 THEN "judge" ELSE "ask"
     ELSE pc' = "sleep" /\ UNCHANGED snap
  /\ sample' = Sample
  /\ full' = None
  /\ UNCHANGED <<engineVars, late, kind, base, seen, marker, validated, attempt, podVars>>

-----------------------------------------------------------------------------
(* Correctness: three requests, each between two snapshots *)

Ask ==
  /\ pc = "ask" /\ ~late
  /\ \E d \in Decoder :
       /\ kind = 1 => d = "local"       \* sent to the decoder, not to the EPP
       /\ Receive(kind, d)
       /\ call' = [by |-> kind, to |-> d]
  /\ log' = NewLog
  /\ pc' = "await"
  /\ UNCHANGED <<late, runnerVars, pod, sent, report>>

(* The client ends with status 0: answered, by the pinned decoder. *)
Answered ==
  /\ pc = "await" /\ ~late
  /\ call = None /\ log = [rows |-> 1, flawed |-> FALSE]
  /\ kind' = IF kind < 3 THEN kind + 1 ELSE kind
  /\ pc' = "poll1"
  /\ UNCHANGED <<engineVars, late, base, sample, seen, full, snap, marker, validated, attempt,
                 podVars>>

Moved(a, b, d) == b.metrics.shown[d].good - a.metrics.shown[d].good
SameWho(s)     == \A i \in DOMAIN s : s[i].who = s[1].who
NoFailures(s)  == \A d \in Decoder : s[Len(s)].metrics.shown[d].bad = s[1].metrics.shown[d].bad

(* Faulty variant: only the total of each route is checked. *)
ValidateRoutesOnly(s) ==
  /\ SameWho(s)
  /\ \A k \in 2..3 : Moved(s[k], s[k + 1], Pin(k)) = 1
  /\ NoFailures(s)

ValidateCorrectness(s) ==
  /\ SameWho(s)
  /\ \A k \in 1..3 : \A d \in Decoder :
       Moved(s[k], s[k + 1], d) = IF k > 1 /\ d = Pin(k) THEN 1 ELSE 0
  /\ NoFailures(s)

(* Faulty variant: the snapshots of the correctness phase are kept. *)
WriteMarkerOnly ==
  /\ pc = "judge" /\ Qualifying /\ ValidateCorrectness(snap)
  /\ marker' = TRUE
  /\ pc' = "start" /\ kind' = 4
  /\ UNCHANGED <<engineVars, late, base, sample, seen, full, snap, validated, attempt, podVars>>

WriteMarker ==
  /\ pc = "judge" /\ Qualifying /\ ValidateCorrectness(snap)
  /\ marker' = TRUE
  /\ pc' = "start" /\ kind' = 4 /\ snap' = <<>>
  /\ UNCHANGED <<engineVars, late, base, sample, seen, full, validated, attempt, podVars>>

-----------------------------------------------------------------------------
(* Measurement: run_item for each item of the plan *)

(* The timing block has its own marker, which policy blocks ask for. *)
BlockComplete == \A k \in 4..(kind - 1) : k \in validated

(* main checks the markers and the time; run takes a new baseline, not     *)
(* that of the marker.                                                     *)
StartProgram ==
  /\ pc = "start" /\ ~late /\ marker
  /\ Pin(kind) = None => BlockComplete
  /\ base' = Who
  /\ pc' = "poll1"
  /\ UNCHANGED <<engineVars, late, kind, sample, seen, full, snap, marker, validated, attempt,
                 podVars>>

(* Faulty variant: what the EPP has loaded is not looked at. *)
ConfigMapOnly(s) == s.config = Declared

(* The ConfigMap is the declared one and the EPP started with it. *)
RunningPolicy(s) == s.config = Declared /\ s.loaded = Declared

(* kubectl apply may create the Pod and still fail; run_item then takes it *)
(* for not applied.                                                        *)
CreatePod ==
  /\ pc = "create" /\ ~late
  /\ Pin(kind) = None => RunningPolicy(snap[1])
  /\ pod' = "running" /\ sent' = 0 /\ log' = NewLog /\ report' = "none"
  /\ pc' \in {"exit", "failed"}
  /\ UNCHANGED <<engineVars, late, runnerVars, call>>

SeeExit ==
  /\ pc = "exit" /\ ~late /\ SameAsBaseline
  /\ pod \in {"done", "crashed"}
  /\ pc' = "poll1"
  /\ UNCHANGED <<engineVars, late, runnerVars, podVars>>

(* Every record of the report is complete, and its stream ended well. *)
Recorded(s) == ~s.log.flawed

(* As many rows of the item in the access log as it has requests. *)
Routed(s) == s.log.rows = Item(kind).count

(* validate-transfer.py and transfer-delta.py *)
ValidateArm(a, b) == Moved(a, b, Pin(kind)) = Item(kind).count

(* policy-evidence.py: the sum, wherever the requests were routed. *)
ValidateBlock(a, b) ==
  /\ RunningPolicy(a) /\ RunningPolicy(b)
  /\ Moved(a, b, "local") + Moved(a, b, "remote") = Item(kind).count

Validate(a, b) ==
  /\ SameWho(<<a, b>>) /\ NoFailures(<<a, b>>) /\ Recorded(b) /\ Routed(b)
  /\ IF Pin(kind) # None THEN ValidateArm(a, b) ELSE ValidateBlock(a, b)

AcceptItem ==
  /\ pc = "judge" /\ ~Qualifying /\ ~late /\ Validate(snap[1], snap[2])
  /\ validated' = validated \cup {kind}
  /\ pc' = "delete"
  /\ UNCHANGED <<engineVars, late, kind, base, sample, seen, full, snap, marker, attempt, podVars>>

(* delete_benchmark does not look at kubectl's result. *)
DeletePod ==
  \/ /\ pod' = "gone" /\ call' = None
     /\ report' = IF report = "written" THEN "lost" ELSE report
  \/ UNCHANGED <<pod, call, report>>

NextItem ==
  /\ pc = "delete" /\ ~late
  /\ DeletePod
  /\ snap' = <<>>
  /\ IF kind = 3 + Len(Plan)
     THEN pc' = "complete" /\ UNCHANGED kind
     ELSE /\ kind' = kind + 1
          /\ pc' = IF (Pin(kind) = None) # (Pin(kind + 1) = None) THEN "start" ELSE "poll1"
  /\ UNCHANGED <<engineVars, late, base, sample, seen, full, marker, validated, attempt,
                 sent, log>>

-----------------------------------------------------------------------------
(* Failure: any command may fail, and all do once the deadline is over *)

(* With the Pod applied and its reports not retained, preserve_failure     *)
(* collects once more; with the reports retained the Pod is deleted.       *)
Abort ==
  /\ pc \notin Terminal \cup {"preserve", "drop"}
  /\ pc' = IF Measured THEN "preserve"
           ELSE IF pc = "judge" /\ ~Qualifying THEN "drop" ELSE "failed"
  /\ sample' = None /\ seen' = None /\ full' = None /\ snap' = <<>>
  /\ UNCHANGED <<engineVars, late, kind, base, marker, validated, attempt, podVars>>

(* collect.py ends without collection.json when the Pod inventory fails or *)
(* a command times out; any other capture that fails is only listed in it, *)
(* and run_item takes the file for the reports.                            *)
Preserve ==
  /\ pc = "preserve"
  /\ \/ /\ ~late
        /\ pc' = "drop"
        /\ \/ UNCHANGED report
           \/ pod \in {"done", "crashed"} /\ report' = "copied"
     \/ pc' = "failed" /\ UNCHANGED report
  /\ UNCHANGED <<engineVars, late, runnerVars, pod, sent, call, log>>

DropPod ==
  /\ pc = "drop"
  /\ pc' = "failed"
  /\ (~late /\ DeletePod) \/ UNCHANGED <<pod, call, report>>
  /\ UNCHANGED <<engineVars, late, runnerVars, sent, log>>

(* The first item of the program that item k belongs to. *)
FirstOf(k) == CHOOSE j \in 4..k :
  /\ \A i \in j..k : (Pin(i) = None) = (Pin(k) = None)
  /\ j > 4 => (Pin(j - 1) = None) # (Pin(k) = None)

(* The operator runs the program again from its first item.  An earlier    *)
(* Pod is gone by then; requests it left in an engine may not be.          *)
Rerun ==
  /\ pc = "failed" /\ ~late /\ marker /\ attempt < Attempts
  /\ pod \notin {"running", "done", "crashed"} /\ call = None
  /\ attempt' = attempt + 1
  /\ kind' = FirstOf(kind)
  /\ validated' = {k \in validated : k < kind'}
  /\ flying' = {[r EXCEPT !.by = Stray] : r \in flying}
  /\ truth' = [k \in DOMAIN truth |-> IF k < kind' THEN truth[k] ELSE Untouched]
  /\ snap' = <<>>
  /\ CountFromHere
  /\ base' = None /\ sent' = 0 /\ log' = NewLog /\ report' = "none" /\ pod' = "none"
  /\ pc' = "start"
  /\ UNCHANGED <<born, epp, configMap, late, sample, seen, full, marker, call>>

-----------------------------------------------------------------------------
(* The benchmark Pod and the clients *)

(* Requests go one after another; the EPP may ignore a pin it cannot meet. *)
PodSends ==
  /\ pod = "running" /\ call = None /\ sent < Item(kind).count
  /\ \E d \in Decoder : Receive(kind, d) /\ call' = [by |-> kind, to |-> d]
  /\ sent' = sent + 1
  /\ UNCHANGED <<pc, late, runnerVars, pod, log, report>>

(* The harness writes /reports/exit-code and then sleeps ten minutes. *)
PodFinishes ==
  /\ pod = "running" /\ call = None
  /\ \/ sent = Item(kind).count /\ pod' = "done"
     \/ pod' = "crashed"
  /\ report' = "written"
  /\ UNCHANGED <<engineVars, pc, late, runnerVars, sent, call, log>>

(* After that, or at activeDeadlineSeconds, nothing can be copied any more. *)
PodEnds ==
  /\ pod \in {"running", "done", "crashed"}
  /\ pod' = "ended" /\ call' = None
  /\ UNCHANGED <<engineVars, pc, late, runnerVars, sent, log, report>>

(* The answer of an engine, and the row the proxy writes for it. *)
Answer(r) ==
  /\ Finish(r)
  /\ IF call = r
     THEN /\ call' = None
          /\ log' = [rows |-> log.rows + 1,
                     flawed |-> log.flawed \/ (r.by > 1 /\ Pin(r.by) \notin {None, r.to})]
     ELSE UNCHANGED <<call, log>>
  /\ UNCHANGED <<pc, late, runnerVars, pod, sent, report>>

(* The client gives up; its request may go on in the engine. *)
ClientTimeout ==
  /\ call # None
  /\ call' = None /\ log' = [log EXCEPT !.flawed = TRUE]
  /\ UNCHANGED <<engineVars, pc, late, runnerVars, pod, sent, report>>

Restart(d) ==
  /\ Incidents < MaxIncidents
  /\ RestartDecoder(d)
  /\ IF call # None /\ call.to = d
     THEN call' = None /\ log' = [log EXCEPT !.flawed = TRUE]
     ELSE UNCHANGED <<call, log>>
  /\ UNCHANGED <<pc, late, runnerVars, pod, sent, report>>

Outside ==
  /\ \/ \E d \in Decoder : Report(d)
     \/ Incidents < MaxIncidents /\ (EditConfigMap \/ RestartEpp)
  /\ UNCHANGED <<pc, late, runnerVars, podVars>>

DeadlinePasses ==
  /\ ~late /\ pc \notin Terminal
  /\ late' = TRUE
  /\ UNCHANGED <<engineVars, pc, runnerVars, podVars>>

-----------------------------------------------------------------------------
Controller ==
  \/ WaitApply \/ ReadOutputs \/ WaitNodes \/ ApplyModels \/ WaitServing \/ DeployClient
  \/ FirstPoll \/ Sleep \/ Poll \/ CollectPods \/ CollectMetrics \/ CollectPartly \/ LatePoll
  \/ Ask \/ Answered \/ WriteMarker
  \/ StartProgram \/ CreatePod \/ SeeExit \/ AcceptItem \/ NextItem
  \/ Abort \/ Preserve \/ DropPod

(* No command looks at the deployment any more; at first there is none. *)
Over == late \/ pc = "complete" \/ (pc = "failed" /\ (~marker \/ attempt = Attempts))

Environment ==
  /\ ~Over /\ pc \notin Boots \ {"serving", "client"}
  /\ \/ Rerun \/ PodSends \/ PodFinishes \/ PodEnds \/ ClientTimeout \/ Outside
     \/ \E r \in flying : Answer(r)
     \/ \E d \in Decoder : Restart(d)

Next == Controller \/ Environment \/ DeadlinePasses

Spec == Init /\ [][Next]_servingVars

-----------------------------------------------------------------------------
TypeOK ==
  /\ pc \in Places /\ late \in BOOLEAN /\ kind \in Kinds
  /\ flying \subseteq [by : Kinds \cup {Stray}, to : Decoder]
  /\ call \in {None} \cup [by : Kinds, to : Decoder]
  /\ \A d \in Decoder : shown[d].good \in 0..done[d].good /\ shown[d].bad \in 0..done[d].bad
  /\ Len(snap) <= 4
  /\ marker \in BOOLEAN /\ validated \subseteq Kinds /\ attempt \in 0..Attempts
  /\ pod \in {"none", "running", "done", "crashed", "ended", "gone"}
  /\ report \in {"none", "written", "copied", "lost"}

(* correctness-verified.json says what really happened: the direct request *)
(* transferred nothing, each routed one exactly one cache, on the decoder  *)
(* it was pinned to and without a failure, although counters are seen late *)
(* and restart from zero with their container.                             *)
MarkerTruthful ==
  marker => \A k \in 1..3 : \A d \in Decoder :
              /\ truth[k].moved[d] = IF k > 1 /\ d = Pin(k) THEN 1 ELSE 0
              /\ truth[k].bad = 0

(* A validated arm is judged by its own transfers: as many as it sent      *)
(* requests, on the pinned decoder if there is a pin, with no transfer of  *)
(* an earlier arm, an earlier attempt or a failed one among them.          *)
ArmTruthful ==
  \A k \in validated :
    /\ truth[k].bad = 0
    /\ IF Pin(k) # None
       THEN \A d \in Decoder : truth[k].moved[d] = IF d = Pin(k) THEN Item(k).count ELSE 0
       ELSE truth[k].moved["local"] + truth[k].moved["remote"] = Item(k).count

(* All validated items of one program ran on the same containers. *)
SameWorkers ==
  \A j, k \in validated : (Pin(j) = None) = (Pin(k) = None) =>
    truth[j].served = truth[k].served /\ Cardinality(truth[j].served) = 1

(* A validated block was routed under the declared policy from its first   *)
(* to its last request, whatever was switched in between.                  *)
PolicyHeld == \A k \in validated : Pin(k) = None => truth[k].under = {Declared}

(* A Pod whose reports only it has is never deleted once its item is       *)
(* strictly validated.                                                     *)
ValidatedRetained == [][report' = "lost" => kind \notin validated]_servingVars
=============================================================================
