---------------------------- MODULE RouterSession ----------------------------
(***************************************************************************)
(* A router session from the qualification on: run-router-session.py runs  *)
(* one bounded job after another in the client Pod, each a program of its  *)
(* own (router-session-qualify.py, router-session-client.py) that outlives *)
(* a controller which gives up, and switches the policy of the endpoint    *)
(* picker (EPP) in between.                                                *)
(*                                                                         *)
(* Jobs are numbered as in Trials.  The clock counts down to the cleanup   *)
(* deadline.                                                               *)
(***************************************************************************)
EXTENDS Engines, FiniteSets, Sequences

CONSTANTS
  Trials,      \* the jobs: [mode, policy, pin, size]
  Horizon,     \* time to the cleanup deadline when the first job is admitted
  Reserve,     \* 120 s: no command of the controller starts later
  IdleReserve, \* 180 s: the client waits for idle engines no longer
  EvalReserve, \* 210 s: evaluate admits no further trial
  Limit,       \* max_seconds of a trial
  Slack,       \* what the controller waits longer than that
  QualifyTime, \* 240 s: how long the controller waits for a qualification
  ReadTime,    \* one read of all metrics and evidence pages, if none stalls
  KillTime,    \* 15 s: the harness is interrupted, then killed
  None

ASSUME RouterAssumption ==
  /\ Trials \in Seq([mode : {"qualify", "train", "held"}, policy : Policy \cup {None},
                     pin : Decoder \cup {None}, size : Nat \ {0}]) \ {<<>>}
  /\ Trials[1].mode = "qualify"
  /\ \A i, j \in DOMAIN Trials : i < j =>
       /\ Trials[j].mode = "qualify" => Trials[i].mode = "qualify"
       /\ Trials[j].mode = "train" /\ Trials[i].mode # "qualify" =>
            Trials[i].mode = "train" /\ Trials[i].policy = Trials[j].policy
  /\ {Horizon, Reserve, IdleReserve, EvalReserve, Limit, Slack, QualifyTime, ReadTime,
      KillTime, MaxIncidents} \subseteq Nat
  /\ IdleReserve > ReadTime + Limit + KillTime

(* A request makes one transfer, and another only where one has failed.    *)
ASSUME TransferAssumption ==
  /\ IsFiniteSet(Decoder)
  /\ Outcome \subseteq [good : Nat, bad : Nat]
  /\ \A o \in Outcome : o.bad = 0 => o.good <= 1

VARIABLES
  place,    \* where the controller is
  trial,    \* its job
  left,     \* time to the cleanup deadline
  until,    \* time left when the wait for the job ends
  who,      \* live_identity when the job was launched
  routed,   \* self.policy is set: the router is deployed
  client,   \* the job in the client Pod: [at, until, slow, sent, rows, after]; slow
            \* (history): the last read of the pages has taken longer than ReadTime
  log,      \* Envoy's rows for the job: [visible, hidden] by decoder
  verified, \* transfer-verified.json of the trials: [trial, routes, late]
  retries,  \* warmups that timed out
  dead,     \* decoders whose engines have exited; their container runs on
  restarted,\* the container of the picker has restarted in its Pod,
  late,     \* and since the last look at it (history)
  incidents

routerVars == <<engineVars, place, trial, left, until, who, routed, client, log, verified,
                retries, dead, restarted, late, incidents>>
jobVars    == <<until, who, client, log>>
siteVars   == <<routed, verified, retries, dead, restarted, late, incidents>>
placeOnly  == <<engineVars, trial, left, jobVars, siteVars>>
lookOnly   == <<engineVars, trial, left, jobVars, routed, verified, retries, dead, restarted,
                incidents>>

Jobs  == DOMAIN Trials
Stray == 0                 \* requests whose client has gone
Warm  == Len(Trials) + 1   \* warmup requests
Job   == Trials[trial]
Qualifying == Job.mode = "qualify"

NoRows    == [d \in Decoder |-> 0]
NewLog    == [visible |-> NoRows, hidden |-> NoRows]
NoClient  == [at |-> "none", until |-> 0, slow |-> FALSE, sent |-> 0, rows |-> 0, after |-> None]
Idle      == {r.to : r \in flying} = {}
Total     == SumFunction([d \in Decoder |-> shown[d].good])
NoFailure == \A d \in Decoder : shown[d].bad = 0
Orphans(rs) == {[r EXCEPT !.by = Stray] : r \in rs}
Of(k)     == {r \in flying : r.by = k}

Timed  == {"bench", "killing"}
Untimed == {"start", "idle", "reading", "after", "count", "ask", "answer", "settle"}
Ended  == {"none", "ok", "failed"}
Places == {"admit", "wait", "exit", "settle", "collect", "join", "drain", "apply",
           "restart", "ready", "warm", "ask", "warming", "calm", "final", "preserve", "ended"}

RouterInit ==
  /\ InitEngines(Jobs, None)
  /\ place = "admit" /\ trial = 1 /\ left = Horizon /\ until = 0
  /\ who = None /\ routed = FALSE /\ client = NoClient /\ log = NewLog
  /\ verified = {} /\ retries = 0 /\ dead = {}
  /\ restarted = FALSE /\ late = FALSE /\ incidents = 0

-----------------------------------------------------------------------------
(* Jobs.  call() refuses every command once the reserve is reached.        *)

At(p) == place = p /\ left > Reserve

JobTime == IF Qualifying THEN QualifyTime ELSE Limit + Slack

StartJob ==
  /\ At("admit") /\ left > JobTime + Reserve /\ ~restarted
  /\ who' = Who
  /\ until' = left - JobTime
  /\ client' = [NoClient EXCEPT !.at = "start"]
  /\ log' = NewLog
  /\ place' = "wait"
  /\ UNCHANGED <<engineVars, trial, left, siteVars>>

(* Faulty variant: all containers run, but need not be the same as before. *)
LiveOnly ==
  /\ At("wait") /\ left > until
  /\ place' = "exit" /\ late' = FALSE
  /\ UNCHANGED lookOnly

(* Every round looks at all containers first, then for the exit status. *)
LiveIdentity ==
  /\ At("wait") /\ left > until
  /\ Who = who /\ ~restarted
  /\ place' = "exit" /\ late' = FALSE
  /\ UNCHANGED lookOnly

SeeExit ==
  /\ At("exit") /\ client.at # "failed"
  /\ place' = IF client.at = "ok" THEN "settle" ELSE "wait"
  /\ UNCHANGED placeOnly

(* The gauges of the EPP: a request whose client has gone is not counted. *)
Drained == routed => \A r \in flying : r.by = Stray

Drain(from, to) ==
  /\ At(from) /\ Drained
  /\ place' = to
  /\ UNCHANGED placeOnly

(* evaluate: the next trial, with the time for it and for a new picker.    *)
(* Training may show no tradeoff, which ends the session.                  *)
NextJob ==
  \/ /\ trial < Len(Trials)
     /\ trial' = trial + 1
     /\ LET t == Trials[trial + 1] IN
          \/ t.mode = "qualify" /\ place' = "admit"
          \/ t.mode = "train" /\ place' = IF routed THEN "admit" ELSE "drain"
          \/ t.mode = "held" /\ left > Limit + EvalReserve /\ place' = "drain"
  \/ /\ trial < Len(Trials) => Trials[trial + 1].mode = "held" /\ left <= Limit + EvalReserve
     /\ place' = "final" /\ UNCHANGED trial
  \/ /\ trial < Len(Trials) /\ Job.mode = "train" /\ Trials[trial + 1].mode = "held"
     /\ place' = "ended" /\ UNCHANGED trial

(* A fresh archive with complete.json of the job, which is written last.   *)
(* snapshot-results.py refuses a file that changes while it is read.       *)
Archived == client.at = "ok"

Collect ==
  /\ At("collect") /\ Archived
  /\ IF Qualifying THEN NextJob ELSE place' = "join" /\ UNCHANGED trial
  /\ UNCHANGED <<engineVars, left, jobVars, siteVars>>

(* Every request of the report has its row in the access log. *)
Joined == SumFunction(log.visible) = Job.size

PinHonoured == Job.pin # None => log.visible[Job.pin] = Job.size

(* Faulty variant: the transfers of both decoders together. *)
TransferTotal == SumFunction([d \in Decoder |-> client.after[d].good]) = Job.size

(* router-session-transfer.verify: as many transfers on each decoder as    *)
(* requests were routed to it, and none failed.                            *)
TransferVerified ==
  \A d \in Decoder : client.after[d] = [good |-> log.visible[d], bad |-> 0]

VerifyTrial ==
  /\ At("join") /\ Joined /\ PinHonoured /\ TransferVerified
  /\ verified' = verified \cup {[trial |-> trial, routes |-> log.visible,
                                        late |-> late]}
  /\ NextJob
  /\ UNCHANGED <<engineVars, left, jobVars, routed, retries, dead, restarted, late,
                 incidents>>

-----------------------------------------------------------------------------
(* picker: a policy is switched *)

ApplyPicker ==
  /\ At("apply")
  /\ configMap' = [configMap EXCEPT !.policy = Job.policy]
  /\ place' = "restart"
  /\ UNCHANGED <<done, shown, born, epp, flying, truth, trial, left, jobVars, siteVars>>

RolloutRestart ==
  /\ At("restart")
  /\ RestartEpp
  /\ routed' = TRUE /\ restarted' = FALSE /\ late' = FALSE
  /\ log' = NewLog
  /\ place' = "ready"
  /\ UNCHANGED <<trial, left, until, who, client, verified, retries, dead, incidents>>

WaitDiscovery ==
  /\ At("ready") /\ dead = {}
  /\ place' = "warm"
  /\ UNCHANGED placeOnly

WarmupBefore ==
  /\ At("warm") /\ dead = {}
  /\ Rebase
  /\ place' = "ask"
  /\ UNCHANGED <<born, epp, configMap, flying, truth, trial, left, jobVars, siteVars>>

WarmupRequest ==
  /\ At("ask")
  /\ \E d \in Decoder \ dead : Receive(Warm, d)
  /\ place' = "warming"
  /\ UNCHANGED <<trial, left, jobVars, siteVars>>

(* Answered, and its transfers have settled at exactly those of a request. *)
WarmupDone ==
  /\ At("warming") /\ dead = {} /\ Of(Warm) = {}
  /\ Total = 1 /\ NoFailure
  /\ place' = "calm"
  /\ UNCHANGED placeOnly

(* A timeout is retried, whatever became of the request. *)
WarmupTimeout ==
  /\ At("warming") /\ Of(Warm) # {} /\ incidents < MaxIncidents
  /\ retries' = retries + 1 /\ incidents' = incidents + 1
  /\ flying' = (flying \ Of(Warm)) \cup Orphans(Of(Warm))
  /\ place' = "warm"
  /\ UNCHANGED <<done, shown, born, epp, configMap, truth, trial, left, jobVars, routed,
                 verified, dead, restarted, late>>

-----------------------------------------------------------------------------
(* The end.  Whatever raises leads to one more collection and the cleanup. *)

FinalCollect ==
  /\ At("final")
  /\ place' = "ended"
  /\ UNCHANGED placeOnly

Abort ==
  /\ place \notin {"preserve", "ended"}
  /\ place' = "preserve"
  /\ UNCHANGED placeOnly

Preserve ==
  /\ place = "preserve"
  /\ place' = "ended"
  /\ UNCHANGED placeOnly

-----------------------------------------------------------------------------
(* The client's side of a job *)

clientOnly == <<place, trial, left, until, who, log, siteVars>>

(* Only a trial is refused when there is no time for it. *)
ClientStart ==
  /\ client.at = "start" /\ (~Qualifying => left > Limit + Reserve)
  /\ client' = [client EXCEPT !.at = "idle"]
  /\ UNCHANGED <<engineVars, clientOnly>>

(* Faulty variant: the wait for idle engines may last to the deadline. *)
ClientReadsLate ==
  /\ client.at \in {"idle", "after"}
  /\ client' = [client EXCEPT !.at = IF @ = "idle" THEN "reading" ELSE "count",
                              !.until = left - ReadTime]
  /\ UNCHANGED <<engineVars, clientOnly>>

(* idle: the loop looks at the clock, then reads the pages, each with a    *)
(* limit for a silence of the server and none for the whole.               *)
ClientReads ==
  /\ client.at \in {"idle", "after"} /\ left > IdleReserve
  /\ client' = [client EXCEPT !.at = IF @ = "idle" THEN "reading" ELSE "count",
                              !.until = left - ReadTime]
  /\ UNCHANGED <<engineVars, clientOnly>>

(* metrics-before.json is the page on which the engines are idle.  A trial *)
(* runs a harness with max_seconds.                                        *)
ClientBegins ==
  /\ client.at = "reading" /\ Idle /\ dead = {}
  /\ Rebase
  /\ client' = [client EXCEPT !.at = IF Qualifying THEN "ask" ELSE "bench",
                              !.until = left - Limit, !.slow = left < client.until]
  /\ UNCHANGED <<born, epp, configMap, flying, truth, clientOnly>>

ClientWaitsOn ==
  /\ client.at = "reading" /\ ~Idle
  /\ client' = [client EXCEPT !.at = "idle"]
  /\ UNCHANGED <<engineVars, clientOnly>>

(* Faulty variant: one request too many. *)
ClientSendsOneMore ==
  /\ client.at = "bench" /\ client.sent <= Job.size
  /\ \E d \in Decoder \ dead : Receive(trial, d)
  /\ client' = [client EXCEPT !.sent = @ + 1]
  /\ UNCHANGED clientOnly

(* The harness sends on schedule, without waiting for answers, to where    *)
(* the EPP sends it.                                                       *)
ClientSends ==
  /\ client.at = "bench" /\ client.sent < Job.size
  /\ \E d \in Decoder \ dead : Receive(trial, d)
  /\ client' = [client EXCEPT !.sent = @ + 1]
  /\ UNCHANGED clientOnly

(* results.records: a complete report without a failed request. *)
ClientReported ==
  /\ client.at = "bench" /\ client.rows = Job.size
  /\ client' = [client EXCEPT !.at = "after"]
  /\ UNCHANGED <<engineVars, clientOnly>>

(* Idle again, and as many transfers in all as there were requests. *)
ClientCounts ==
  /\ client.at = "count" /\ Idle /\ dead = {} /\ Total = Job.size
  /\ client' = [client EXCEPT !.at = "ok", !.after = shown]
  /\ UNCHANGED <<engineVars, clientOnly>>

ClientInterrupts ==
  /\ client.at = "bench" /\ left = client.until
  /\ client' = [client EXCEPT !.at = "killing", !.until = left - KillTime]
  /\ UNCHANGED <<engineVars, clientOnly>>

(* tp4-client.request, for a qualification: one request, to its decoder.   *)
(* It is not begun late; an answer that stalls has no time limit.          *)
QualifyAsks ==
  /\ client.at = "ask" /\ left > IdleReserve
  /\ Job.pin \in Decoder \ dead /\ Receive(trial, Job.pin)
  /\ client' = [client EXCEPT !.at = "answer", !.sent = @ + 1]
  /\ UNCHANGED clientOnly

QualifyAnswered ==
  /\ client.at = "answer" /\ client.rows = client.sent
  /\ client' = [client EXCEPT !.at = "settle"]
  /\ UNCHANGED <<engineVars, clientOnly>>

(* measured: its transfers are its decoder's, and none failed. *)
Isolated ==
  \A d \in Decoder : shown[d] = [good |-> IF d = Job.pin THEN 1 ELSE 0, bad |-> 0]

(* The next request waits for idle engines. *)
QualifyCounts ==
  /\ client.at = "settle" /\ dead = {} /\ Isolated
  /\ client' = IF client.sent < Job.size THEN [client EXCEPT !.at = "idle"]
                                         ELSE [client EXCEPT !.at = "ok", !.after = shown]
  /\ UNCHANGED <<engineVars, clientOnly>>

(* Any error, a timeout or the kill: exit status 1, connections closed. *)
ClientFails ==
  /\ client.at \notin Ended
  /\ client' = [client EXCEPT !.at = "failed"]
  /\ flying' = (flying \ Of(trial)) \cup Orphans(Of(trial))
  /\ UNCHANGED <<done, shown, born, epp, configMap, truth, clientOnly>>

-----------------------------------------------------------------------------
(* Engines, EPP and time *)

Answer(r) ==
  /\ Finish(r)
  /\ IF r.by = trial
     THEN /\ client' = [client EXCEPT !.rows = @ + 1]
          /\ log' = [log EXCEPT !.hidden[r.to] = @ + 1]
     ELSE UNCHANGED <<client, log>>
  /\ UNCHANGED <<place, trial, left, until, who, siteVars>>

(* Envoy's rows can be read some time after the answers. *)
LogRows ==
  /\ log.hidden # NoRows
  /\ log' = [visible |-> [d \in Decoder |-> log.visible[d] + log.hidden[d]], hidden |-> NoRows]
  /\ UNCHANGED <<engineVars, place, trial, left, until, who, client, siteVars>>

(* tp4-engines.py stops all engines of a Pod when one exits, and stays.    *)
EngineDies(d) ==
  /\ incidents < MaxIncidents /\ d \notin dead
  /\ incidents' = incidents + 1
  /\ dead' = dead \cup {d}
  /\ flying' = {r \in flying : r.to # d}
  /\ UNCHANGED <<done, shown, born, epp, configMap, truth, place, trial, left, jobVars,
                 routed, verified, retries, restarted, late>>

(* The Deployment replaces its Pod: a new log, and connections closed. *)
EppReplaced ==
  /\ routed /\ incidents < MaxIncidents
  /\ incidents' = incidents + 1
  /\ epp' = [born |-> epp.born + 1, loaded |-> configMap.policy]
  /\ flying' = Orphans(flying)
  /\ log' = NewLog /\ restarted' = FALSE /\ late' = FALSE
  /\ UNCHANGED <<done, shown, born, configMap, truth, place, trial, left, until, who, client,
                 routed, verified, retries, dead>>

(* The container of the EPP restarts in its Pod: Envoy goes on, and its log. *)
EppRestarts ==
  /\ routed /\ incidents < MaxIncidents
  /\ incidents' = incidents + 1 /\ restarted' = TRUE /\ late' = TRUE
  /\ RestartEpp
  /\ UNCHANGED <<place, trial, left, jobVars, routed, verified, retries, dead>>

PageMoves(d) ==
  /\ Report(d)
  /\ UNCHANGED <<place, trial, left, jobVars, siteVars>>

(* Time passes where a program waits for another.  The commands between    *)
(* these places are taken together with the wait before them.              *)
Tick ==
  /\ left > 0 /\ place \in {"wait", "ready", "preserve", "ended"}
  /\ client.at \in Timed => left > client.until
  /\ left' = left - 1
  /\ UNCHANGED <<engineVars, place, trial, jobVars, siteVars>>

-----------------------------------------------------------------------------
Controlling ==
  \/ StartJob \/ LiveIdentity \/ SeeExit \/ Collect \/ VerifyTrial
  \/ Drain("settle", "collect") \/ Drain("drain", "apply") \/ Drain("calm", "admit")
  \/ ApplyPicker \/ RolloutRestart \/ WaitDiscovery
  \/ WarmupBefore \/ WarmupRequest \/ WarmupDone \/ WarmupTimeout
  \/ FinalCollect \/ Abort \/ Preserve

Benchmark ==
  \/ ClientStart \/ ClientReads \/ ClientBegins \/ ClientWaitsOn \/ ClientSends
  \/ ClientReported \/ ClientCounts \/ ClientInterrupts \/ ClientFails
  \/ QualifyAsks \/ QualifyAnswered \/ QualifyCounts

Surroundings ==
  \/ \E r \in flying : Answer(r)
  \/ \E d \in Decoder : EngineDies(d) \/ PageMoves(d)
  \/ LogRows \/ EppReplaced \/ EppRestarts

(* Given up, only what an orphaned client still does matters. *)
RouterNext ==
  \/ Controlling
  \/ /\ left > 0
     /\ \/ place \notin {"preserve", "ended"} /\ (Benchmark \/ Surroundings \/ Tick)
        \/ place \in {"preserve", "ended"} /\ client.at \notin Ended /\ (Benchmark \/ Tick)

RouterSpec == RouterInit /\ [][RouterNext]_routerVars

-----------------------------------------------------------------------------
RouterTypeOK ==
  /\ place \in Places /\ trial \in Jobs /\ left \in 0..Horizon
  /\ client.at \in Ended \cup Timed \cup Untimed
  /\ client.rows \in 0..client.sent /\ (client.at # "ok" => client.sent \in 0..Job.size)
  /\ flying \subseteq [by : Jobs \cup {Stray, Warm}, to : Decoder]
  /\ \A v \in verified : v.trial \in Jobs /\ v.routes \in [Decoder -> 0..Trials[v.trial].size]
  /\ dead \subseteq Decoder /\ {restarted, late} \subseteq BOOLEAN
  /\ retries \in 0..incidents /\ incidents \in 0..MaxIncidents

(* A verified trial ran under the policy it is reported for, from its      *)
(* first to its last request.                                              *)
UnderPolicy == \A v \in verified : truth[v.trial].under = {Trials[v.trial].policy}

(* It also ran on one picker, although pickers are switched between trials *)
(* and may be replaced or restart at any moment.  Only a restart in place  *)
(* after the last look at the containers, while the last requests were     *)
(* still sent, leaves the trial with two of them.                          *)
OnePicker ==
  /\ UnderPolicy
  /\ \A v \in verified : ~v.late => Cardinality(truth[v.trial].served) = 1

(* Unless a warmup was retried, whose late transfers nothing holds back,   *)
(* transfer-verified.json says what the trial itself moved: on each decoder *)
(* as much as its requests there, on the pinned one if there is a pin, and *)
(* nothing of a warmup or of another trial.                                *)
TransfersAccounted ==
  \A v \in verified :
    /\ Trials[v.trial].pin # None => v.routes[Trials[v.trial].pin] = Trials[v.trial].size
    /\ retries = 0 => truth[v.trial].moved = v.routes /\ truth[v.trial].bad = 0

(* Whatever trial was admitted last, and even if its controller has given  *)
(* it up, no benchmark is running any more when the deadline starts        *)
(* deletion, unless the pages before it have taken longer than ReadTime.   *)
(* A qualification may run into the deletion, in an answer that stalls.    *)
NoneCutOff == left = 0 /\ client.at \in Timed => client.slow
=============================================================================
