-------------------------- MODULE RouterSessionProofs -------------------------
(***************************************************************************)
(* Proofs about RouterSession, for all jobs, policies, decoders and time   *)
(* limits that satisfy RouterAssumption, and all that requests may do      *)
(* according to TransferAssumption.                                        *)
(***************************************************************************)
EXTENDS RouterSession, Sums, SequenceTheorems

(* The controller has its job in the client Pod, and its report. *)
Given == {"wait", "exit", "settle", "collect", "join"}

Requests == [by : Jobs \cup {Stray, Warm}, to : Decoder]
By(f, k) == {r \in f : r.by = k}

(* What the client keeps of its job. *)
Stages == Ended \cup Timed \cup Untimed
IsClient(c) ==
  \E a \in Stages, u \in Int, w \in BOOLEAN, s \in Nat, r \in Nat : \E p :
    c = [at |-> a, until |-> u, slow |-> w, sent |-> s, rows |-> r, after |-> p]
ClientRec == IsClient(client)

(* What the other programs keep. *)
Types ==
  /\ place \in Places /\ trial \in Jobs
  /\ log \in [visible : [Decoder -> Nat], hidden : [Decoder -> Nat]]
  /\ dead \subseteq Decoder /\ {restarted, late, routed} \subseteq BOOLEAN
  /\ incidents \in 0..MaxIncidents /\ retries \in 0..incidents
  /\ \E p, e : configMap = [policy |-> p, edits |-> e]

(* Who is served is noted for each job. *)
TruthInv ==
  /\ DOMAIN truth = Jobs
  /\ \A k \in Jobs : \E m, b, s, u :
       truth[k] = [moved |-> m, bad |-> b, served |-> s, under |-> u]
  /\ \A k \in Jobs : k > trial => truth[k].under = {}
  /\ place \notin Given \cup {"preserve", "final", "ended"} => truth[trial].under = {}
  /\ By(flying, trial) # {} \/ (place \in Given /\ client.rows > 0) => truth[trial].under # {}

(* If the pages were read in time, the time the benchmark still needs is left. *)
ClockInv ==
  /\ left \in 0..Horizon
  /\ client.at \in Timed => client.until <= left
  /\ client.at = "reading" => Limit + KillTime < client.until
  /\ client.at = "bench" /\ ~client.slow => KillTime < client.until
  /\ client.at = "killing" /\ ~client.slow => 0 < client.until

(* A job has its turn, and its requests are sent by its client alone. *)
JobInv ==
  /\ place \in {"settle", "collect", "join", "final"} => client.at = "ok"
  /\ client.at \in {"none", "ok"} \/ place \in {"wait", "exit", "preserve", "ended"}
  /\ flying \subseteq Requests /\ IsFiniteSet(flying)
  /\ \A r \in flying : r.by <= trial \/ r.by = Warm
  /\ By(flying, trial) # {} => client.at \in {"bench", "killing", "answer"}

(* Answers, and their rows, are of requests that were sent. *)
CountInv ==
  /\ client.rows + Cardinality(By(flying, trial)) <= client.sent
  /\ \A d \in Decoder : log.visible[d] + log.hidden[d] <= client.rows
  /\ client.at # "ok" \/ place \in Given => client.sent <= Job.size
  /\ client.at \in {"start", "idle", "reading", "ask"} => client.sent < Job.size
  /\ client.at = "settle" => client.rows = client.sent
  /\ client.at \in {"after", "count"} \/ (client.at = "ok" /\ place \in Given)
       => client.rows = Job.size

(* The picker has the policy of the job that is about to run or runs, and   *)
(* the client does what is done for a qualification, or for a trial.        *)
PolicyInv ==
  /\ client.at \in {"ask", "answer", "settle"} => Job.mode = "qualify"
  /\ client.at \in {"bench", "killing", "after", "count"} => Job.mode # "qualify"
  /\ routed \/ place \in {"drain", "apply", "restart", "join"} => Job.mode # "qualify"
  /\ place = "restart" => configMap.policy = Job.policy
  /\ Job.mode # "qualify" /\ place \notin {"drain", "apply", "restart", "preserve", "ended"} =>
       routed /\ configMap.policy = Job.policy /\ epp.loaded = Job.policy
  /\ place \in Given /\ Job.mode # "qualify" => truth[trial].under \subseteq {Job.policy}

(* A verified job is over, and its requests found its policy. *)
VerifiedInv ==
  \A v \in verified :
    /\ v.trial \in 1..trial /\ v.routes \in [Decoder -> 0..Trials[v.trial].size]
    /\ v.trial = trial => client.at = "ok" /\ place \in {"final", "preserve", "ended"}
    /\ truth[v.trial].under = {Trials[v.trial].policy}

RouterInv ==
  /\ ClientRec /\ Types /\ TruthInv /\ ClockInv
  /\ JobInv /\ CountInv /\ PolicyInv /\ VerifiedInv

-----------------------------------------------------------------------------
(* What is assumed of the constants. *)
LEMMA Numbers ==
  /\ Horizon \in Nat /\ Reserve \in Nat /\ IdleReserve \in Nat /\ Limit \in Nat
  /\ Slack \in Nat /\ QualifyTime \in Nat /\ ReadTime \in Nat /\ KillTime \in Nat
  /\ MaxIncidents \in Nat
  /\ IdleReserve > ReadTime + Limit + KillTime
BY RouterAssumption DEF RouterAssumption

(* Jobs are numbered from 1, warmup requests bear a number of their own. *)
LEMMA JobNumbers ==
  /\ Len(Trials) \in Nat /\ Jobs = 1..Len(Trials) /\ 1 \in Jobs
  /\ Trials[1].mode = "qualify"
  /\ Stray \notin Jobs /\ Warm \notin Jobs /\ Warm # Stray
  /\ \A k \in Jobs : k \in Nat /\ Warm > k /\ Trials[k].size \in Nat \ {0}
  /\ \A k \in Jobs : Trials[k].mode \in {"qualify", "train", "held"}
<1> DEFINE Trial == [mode : {"qualify", "train", "held"}, policy : Policy \cup {None},
                     pin : Decoder \cup {None}, size : Nat \ {0}]
<1>1. Trials \in Seq(Trial) /\ Trials # <<>> BY RouterAssumption DEF RouterAssumption
<1> HIDE DEF Trial
<1>2. Len(Trials) \in Nat /\ Jobs = 1..Len(Trials)
  BY <1>1, LenProperties DEF Jobs
<1>3. \A k \in Jobs : Trials[k] \in Trial BY <1>1, <1>2, ElementOfSeq
<1>4. Len(Trials) # 0 BY <1>1, EmptySeq
<1>5. Trials[1].mode = "qualify" BY RouterAssumption DEF RouterAssumption
<1>6. 1 \in Jobs /\ \A k \in Jobs : k \in Nat /\ Warm > k /\ Stray # k /\ Warm # k
  BY <1>2, <1>4 DEF Stray, Warm
<1>7. \A k \in Jobs :
        Trials[k].size \in Nat \ {0} /\ Trials[k].mode \in {"qualify", "train", "held"}
  BY <1>3 DEF Trial
<1>8. Warm # Stray BY <1>2 DEF Stray, Warm
<1>9. QED BY <1>2, <1>5, <1>6, <1>7, <1>8

(* Policies are switched for a job held out, and for the first of training. *)
LEMMA JobOrder ==
  ASSUME NEW i \in Jobs, NEW j \in Jobs, i < j
  PROVE  /\ Trials[j].mode = "qualify" => Trials[i].mode = "qualify"
         /\ Trials[j].mode = "train" /\ Trials[i].mode # "qualify" =>
              Trials[i].mode = "train" /\ Trials[i].policy = Trials[j].policy
BY RouterAssumption DEF RouterAssumption, Jobs

(* The requests of one sender are finitely many. *)
LEMMA ByFinite ==
  ASSUME NEW f, IsFiniteSet(f), NEW k
  PROVE  IsFiniteSet(By(f, k)) /\ Cardinality(By(f, k)) \in Nat
<1>1. By(f, k) \subseteq f BY DEF By
<1>2. QED BY <1>1, FS_Subset, FS_CardinalityType

(* A request is one more of its sender. *)
LEMMA Received ==
  ASSUME NEW f, IsFiniteSet(f), NEW k, NEW d, NEW g,
         [by |-> k, to |-> d] \notin f, g = f \cup {[by |-> k, to |-> d]}
  PROVE  /\ IsFiniteSet(g)
         /\ Cardinality(By(g, k)) = Cardinality(By(f, k)) + 1
         /\ By(g, k) # {}
         /\ \A j : j # k => By(g, j) = By(f, j)
<1> DEFINE new == [by |-> k, to |-> d]
<1>1. IsFiniteSet(g) BY FS_AddElement
<1>2. By(g, k) = By(f, k) \cup {new} /\ new \notin By(f, k) BY DEF By
<1>3. Cardinality(By(g, k)) = Cardinality(By(f, k)) + 1
  BY <1>2, ByFinite, FS_AddElement
<1>4. \A j : j # k => By(g, j) = By(f, j) BY DEF By
<1>5. QED BY <1>1, <1>2, <1>3, <1>4

(* An answered request is one less of its sender. *)
LEMMA Answered ==
  ASSUME NEW f, IsFiniteSet(f), NEW r \in f, NEW g, g = f \ {r}
  PROVE  /\ IsFiniteSet(g)
         /\ By(f, r.by) # {}
         /\ Cardinality(By(g, r.by)) = Cardinality(By(f, r.by)) - 1
         /\ \A j : By(g, j) \subseteq By(f, j) /\ (j # r.by => By(g, j) = By(f, j))
<1>1. IsFiniteSet(g) BY FS_Subset
<1>2. By(g, r.by) = By(f, r.by) \ {r} /\ r \in By(f, r.by) BY DEF By
<1>3. Cardinality(By(g, r.by)) = Cardinality(By(f, r.by)) - 1
  BY <1>2, ByFinite, FS_RemoveElement
<1>4. QED BY <1>1, <1>2, <1>3 DEF By

(* Requests that are lost are fewer of their senders. *)
LEMMA Lost ==
  ASSUME NEW f, IsFiniteSet(f), NEW g, g \subseteq f
  PROVE  /\ IsFiniteSet(g)
         /\ \A j : /\ By(g, j) \subseteq By(f, j)
                   /\ Cardinality(By(g, j)) \in Nat
                   /\ Cardinality(By(g, j)) <= Cardinality(By(f, j))
<1>1. IsFiniteSet(g) BY FS_Subset
<1>2. ASSUME NEW j PROVE By(g, j) \subseteq By(f, j) BY DEF By
<1>3. ASSUME NEW j
      PROVE  Cardinality(By(g, j)) \in Nat /\ Cardinality(By(g, j)) <= Cardinality(By(f, j))
  BY <1>1, <1>2, ByFinite, FS_Subset
<1>4. QED BY <1>1, <1>2, <1>3

(* Requests whose sender has gone are strays, and nobody else's. *)
LEMMA Orphaned ==
  ASSUME NEW f, f \subseteq Requests, IsFiniteSet(f), NEW S, S \subseteq f,
         NEW g, g = (f \ S) \cup Orphans(S)
  PROVE  /\ g \subseteq Requests /\ IsFiniteSet(g)
         /\ \A r \in g : r \in f \/ r.by = Stray
         /\ \A j : j # Stray => By(g, j) = By(f, j) \ S
<1>1. IsFiniteSet(S) /\ IsFiniteSet(f \ S) BY FS_Subset
<1>2. IsFiniteSet(Orphans(S))
  <2> DEFINE h == [r \in S |-> [r EXCEPT !.by = Stray]]
  <2>1. h \in Surjection(S, Orphans(S)) BY DEF Orphans, Surjection
  <2>2. QED BY <1>1, <2>1, FS_Surjection
<1>3. \A r \in Orphans(S) : r.by = Stray /\ r \in Requests BY DEF Orphans, Requests
<1>4. QED BY <1>1, <1>2, <1>3, FS_Union DEF By

(* The fields of the client. *)
LEMMA ClientFields ==
  ClientRec => /\ client.at \in Stages
               /\ client.until \in Int /\ client.slow \in BOOLEAN
               /\ client.sent \in Nat /\ client.rows \in Nat
BY DEF ClientRec, IsClient

(* A record with the fields of the client is one. *)
LEMMA ClientMade ==
  ASSUME NEW a \in Stages, NEW u \in Int, NEW w \in BOOLEAN, NEW s \in Nat, NEW r \in Nat,
         NEW p
  PROVE  IsClient([at |-> a, until |-> u, slow |-> w, sent |-> s, rows |-> r, after |-> p])
BY DEF IsClient

(* The requests of a job are finitely many. *)
LEMMA InFlight ==
  JobInv => /\ IsFiniteSet(flying) /\ flying \subseteq Requests
            /\ Cardinality(By(flying, trial)) \in Nat
            /\ Cardinality(By(flying, trial)) = 0 => By(flying, trial) = {}
BY ByFinite, FS_EmptySet DEF JobInv

(* What is verified stays so while a job is with its client. *)
LEMMA VerifiedStays ==
  ASSUME Types, VerifiedInv, client.at # "ok", UNCHANGED <<trial, verified>>,
         \A k \in Jobs \ {trial} : truth'[k].under = truth[k].under
  PROVE  VerifiedInv'
<1>1. \A v \in verified : v.trial \in Jobs \ {trial}
  BY JobNumbers DEF Types, VerifiedInv
<1>2. QED BY <1>1 DEF VerifiedInv

(* The controller goes on to the next job, or ends with the last. *)
LEMMA NextJobs ==
  ASSUME Types, NextJob
  PROVE  /\ trial' \in Jobs /\ trial' \in {trial, trial + 1} /\ place' \in Places
         /\ trial' = trial => place' \in {"final", "ended"}
         /\ trial' # trial =>
              /\ place' \in {"admit", "drain"}
              /\ Trials[trial'].mode = "held" => place' = "drain"
              /\ Trials[trial'].mode = "train" => place' = IF routed THEN "admit" ELSE "drain"
              /\ Trials[trial'].mode = "qualify" => place' = "admit"
BY JobNumbers DEF NextJob, Types, Places

(* A job that is over is the last, or leaves the picker to the next. *)
LEMMA NextJobKeeps ==
  ASSUME RouterInv, NextJob, place \in {"collect", "join"}, client.at = "ok",
         place = "collect" => Job.mode = "qualify",
         UNCHANGED <<engineVars, left, jobVars, routed, retries, dead, restarted, late,
                     incidents>>
  PROVE  /\ ClientRec' /\ Types' /\ TruthInv' /\ ClockInv'
         /\ JobInv' /\ CountInv' /\ PolicyInv'
<1> USE DEF RouterInv, engineVars, jobVars
<1>1. trial \in Jobs /\ trial' \in Jobs /\ trial \in Nat /\ trial' \in Nat /\ Warm > trial'
  BY NextJobs, JobNumbers DEF Types
<1>2. trial' # trial => /\ trial' = trial + 1 /\ By(flying', trial') = {}
                        /\ truth'[trial'].under = {}
  <2> SUFFICES ASSUME trial' # trial
               PROVE  /\ trial' = trial + 1 /\ By(flying', trial') = {}
                      /\ truth'[trial'].under = {}
    OBVIOUS
  <2>1. trial' = trial + 1 BY NextJobs
  <2>2. \A r \in flying : r.by # trial' BY <1>1, <2>1 DEF JobInv
  <2>3. trial' > trial BY <1>1, <2>1
  <2>4. QED BY <1>1, <2>1, <2>2, <2>3 DEF By, TruthInv
<1>3. ClientRec' BY DEF ClientRec
<1>4. Types' BY <1>1, NextJobs DEF Types
<1>5. TruthInv'
  <2>1. CASE trial' = trial BY <2>1, NextJobs DEF TruthInv, Given
  <2>2. CASE trial' # trial
    <3>1. \A k \in Jobs : k > trial' => k > trial BY <1>1, <1>2, <2>2, JobNumbers
    <3>2. QED BY <1>2, <2>2, <3>1, NextJobs DEF TruthInv, Given
  <2>3. QED BY <2>1, <2>2
<1>6. ClockInv' BY DEF ClockInv
<1>7. JobInv'
  <2>1. \A r \in flying : r.by <= trial' \/ r.by = Warm
    <3>1. \A r \in flying : r.by \in Jobs \cup {Stray, Warm} BY DEF JobInv, Requests
    <3>2. \A r \in flying : r.by \in Nat BY <3>1, JobNumbers DEF Stray, Warm
    <3>3. trial <= trial' BY <1>1, <1>2
    <3>4. QED BY <1>1, <3>2, <3>3 DEF JobInv
  <2>2. QED BY <1>2, <2>1, NextJobs DEF JobInv
<1>8. CountInv'
  <2>1. client.rows + Cardinality(By(flying', trial')) <= client.sent
    <3>1. CASE trial' = trial BY <3>1 DEF CountInv
    <3>2. CASE trial' # trial
      <4>1. client.rows <= client.sent BY ClientFields, InFlight DEF CountInv
      <4>2. QED BY <1>2, <3>2, <4>1, ClientFields, FS_EmptySet
    <3>3. QED BY <3>1, <3>2
  <2>2. place' \notin Given BY NextJobs DEF Given
  <2>3. QED BY <2>1, <2>2 DEF CountInv
<1>9. PolicyInv'
  <2>1. CASE trial' = trial
    <3>1. Job' = Job BY <2>1 DEF Job
    <3>2. QED BY <2>1, <3>1, NextJobs DEF PolicyInv, Given
  <2>2. CASE trial' # trial
    <3>1. trial < trial' BY <1>1, <1>2, <2>2
    <3>2. routed => Job'.mode # "qualify" /\ Job.mode # "qualify" /\ place = "join"
      BY <1>1, <3>1, JobOrder DEF PolicyInv, Job
    <3>3. Job'.mode \in {"qualify", "train", "held"} BY <1>1, JobNumbers DEF Job
    <3>4. Job'.mode # "qualify" /\ place' = "admit" =>
            Job'.mode = "train" /\ routed /\ Job'.policy = Job.policy
      BY <1>1, <2>2, <3>1, <3>2, <3>3, NextJobs, JobOrder DEF Job
    <3>5. QED BY <2>2, <3>2, <3>4, NextJobs DEF PolicyInv, Given, Job
  <2>3. QED BY <2>1, <2>2
<1>10. QED BY <1>3, <1>4, <1>5, <1>6, <1>7, <1>8, <1>9

-----------------------------------------------------------------------------
(* Steps of the controller *)

(* A job starts with nothing sent and nothing logged. *)
LEMMA StartJobKeeps == ASSUME RouterInv, StartJob PROVE RouterInv'
<1> USE DEF RouterInv, StartJob
<1>a. JobTime \in Nat BY Numbers DEF JobTime
<1>1. ClientRec'
  <2>1. client' = [at |-> "start", until |-> 0, slow |-> FALSE,
                   sent |-> 0, rows |-> 0, after |-> None]
    BY DEF NoClient
  <2>2. "start" \in Stages /\ 0 \in Int /\ 0 \in Nat BY DEF Stages, Untimed
  <2>3. IsClient([at |-> "start", until |-> 0, slow |-> FALSE,
                  sent |-> 0, rows |-> 0, after |-> None])
    <3> HIDE DEF RouterInv, StartJob
    <3>1. QED BY <2>2, ClientMade
  <2>4. QED BY <2>1, <2>3 DEF ClientRec
<1>2. Types' BY DEF Types, Places, engineVars, siteVars, NewLog, NoRows
<1>3. TruthInv'
  <2>1. place = "admit" /\ client'.rows = 0 /\ UNCHANGED <<truth, trial, flying>>
    BY DEF At, NoClient, engineVars
  <2>2. By(flying, trial) = {} /\ truth[trial].under = {}
    BY <2>1 DEF JobInv, TruthInv, Given
  <2>3. QED BY <2>1, <2>2 DEF TruthInv, Given
<1>4. ClockInv' BY DEF ClockInv, Timed, engineVars
<1>5. JobInv' BY DEF JobInv, engineVars, At
<1>6. CountInv'
  <2>1. /\ place = "admit" /\ client' = [NoClient EXCEPT !.at = "start"]
        /\ UNCHANGED <<flying, trial>>
    BY DEF At, engineVars
  <2>2. client'.at = "start" /\ client'.sent = 0 /\ client'.rows = 0 BY <2>1 DEF NoClient
  <2>3. By(flying', trial') = {} BY <2>1 DEF JobInv
  <2>4. \A d \in Decoder : log'.visible[d] = 0 /\ log'.hidden[d] = 0 BY DEF NewLog, NoRows
  <2>5. Job'.size \in Nat \ {0} BY <2>1, JobNumbers DEF Types, Job
  <2>6. QED BY <2>2, <2>3, <2>4, <2>5, FS_EmptySet DEF CountInv
<1>7. PolicyInv'
  <2>1. place = "admit" /\ place' = "wait" /\ client' = [NoClient EXCEPT !.at = "start"]
    BY DEF At
  <2>2. client'.at = "start" BY <2>1 DEF NoClient
  <2>3. QED BY <2>1, <2>2 DEF PolicyInv, Job, engineVars, siteVars, TruthInv, Given
<1>8. VerifiedInv' BY DEF VerifiedInv, Ended, engineVars, siteVars, At
<1>9. QED BY <1>1, <1>2, <1>3, <1>4, <1>5, <1>6, <1>7, <1>8

(* A look at the containers changes nothing but the place. *)
LEMMA LiveIdentityKeeps == ASSUME RouterInv, LiveIdentity PROVE RouterInv'
<1> USE DEF RouterInv, LiveIdentity
<1>1. ClientRec' BY DEF ClientRec, jobVars, lookOnly
<1>2. Types' BY DEF Types, Places, engineVars, jobVars, lookOnly
<1>3. TruthInv' BY DEF TruthInv, Given, engineVars, jobVars, lookOnly, At
<1>4. ClockInv' BY DEF ClockInv, engineVars, jobVars, lookOnly, Timed
<1>5. JobInv' BY DEF JobInv, engineVars, jobVars, lookOnly
<1>6. CountInv' BY DEF CountInv, Given, Job, engineVars, jobVars, lookOnly, At
<1>7. PolicyInv' BY DEF PolicyInv, Given, Job, jobVars, engineVars, lookOnly, At
<1>8. VerifiedInv' BY DEF VerifiedInv, Ended, engineVars, jobVars, lookOnly, At
<1>9. QED BY <1>1, <1>2, <1>3, <1>4, <1>5, <1>6, <1>7, <1>8

(* Only a job whose client has succeeded goes on. *)
LEMMA SeeExitKeeps == ASSUME RouterInv, SeeExit PROVE RouterInv'
<1> USE DEF RouterInv, SeeExit
<1>1. ClientRec' BY DEF ClientRec, jobVars, placeOnly
<1>2. Types' BY DEF Types, Places, engineVars, jobVars, siteVars, placeOnly
<1>3. TruthInv' BY DEF TruthInv, Given, engineVars, jobVars, siteVars, placeOnly, At
<1>4. ClockInv' BY DEF ClockInv, engineVars, jobVars, placeOnly, Timed
<1>5. JobInv' BY DEF JobInv, engineVars, jobVars, placeOnly
<1>6. CountInv' BY DEF CountInv, Given, Job, engineVars, jobVars, placeOnly, At
<1>7. PolicyInv' BY DEF PolicyInv, Given, Job, jobVars, engineVars, siteVars, placeOnly, At
<1>8. VerifiedInv' BY DEF VerifiedInv, Ended, engineVars, jobVars, siteVars, placeOnly, At
<1>9. QED BY <1>1, <1>2, <1>3, <1>4, <1>5, <1>6, <1>7, <1>8

(* A drain waits, and changes nothing but the place. *)
LEMMA DrainKeeps ==
  ASSUME RouterInv, NEW from, NEW to,
         <<from, to>> \in {<<"settle", "collect">>, <<"drain", "apply">>, <<"calm", "admit">>},
         Drain(from, to)
  PROVE  RouterInv'
<1> USE DEF RouterInv, Drain
<1>1. ClientRec' BY DEF ClientRec, jobVars, placeOnly
<1>2. Types' BY DEF Types, Places, engineVars, jobVars, siteVars, placeOnly
<1>3. TruthInv' BY DEF TruthInv, Given, engineVars, jobVars, siteVars, placeOnly, At
<1>4. ClockInv' BY DEF ClockInv, engineVars, jobVars, placeOnly, Timed
<1>5. JobInv' BY DEF JobInv, engineVars, jobVars, placeOnly, At
<1>6. CountInv' BY DEF CountInv, Given, Job, engineVars, jobVars, placeOnly, At
<1>7. PolicyInv' BY DEF PolicyInv, Given, Job, jobVars, engineVars, siteVars, placeOnly, At
<1>8. VerifiedInv' BY DEF VerifiedInv, Ended, engineVars, jobVars, siteVars, placeOnly, At
<1>9. QED BY <1>1, <1>2, <1>3, <1>4, <1>5, <1>6, <1>7, <1>8

(* A qualification is over with its collection; a trial is joined next. *)
LEMMA CollectKeeps == ASSUME RouterInv, Collect PROVE RouterInv'
<1> USE DEF RouterInv, Collect, Qualifying
<1>1. place = "collect" /\ client.at = "ok" BY DEF At, Archived
<1>2. CASE Job.mode = "qualify"
  <2>1. NextJob BY <1>2
  <2>2. \A v \in verified : v.trial \in 1..trial /\ v.trial # trial
    BY <1>1 DEF VerifiedInv
  <2>3. trial \in Nat /\ trial' \in Nat BY NextJobs, <2>1, JobNumbers DEF Types
  <2>4. \A v \in verified : v.trial \in 1..trial' /\ v.trial # trial'
    BY <2>1, <2>2, <2>3, NextJobs
  <2>5. VerifiedInv' BY <2>4 DEF VerifiedInv, engineVars, siteVars
  <2>6. QED BY <1>1, <1>2, <2>1, <2>5, NextJobKeeps DEF siteVars
<1>3. CASE Job.mode # "qualify"
  <2>1. place' = "join" /\ UNCHANGED <<engineVars, trial, left, jobVars, siteVars>> BY <1>3
  <2> USE DEF engineVars, jobVars, siteVars
  <2>2. ClientRec' /\ ClockInv' BY <2>1 DEF ClientRec, ClockInv
  <2>3. Types' BY <2>1 DEF Types, Places
  <2>4. TruthInv' BY <1>1, <2>1 DEF TruthInv, Given
  <2>5. JobInv' BY <1>1, <2>1 DEF JobInv
  <2>6. CountInv' BY <1>1, <2>1 DEF CountInv, Given, Job
  <2>7. PolicyInv' BY <1>1, <1>3, <2>1 DEF PolicyInv, Given, Job
  <2>8. VerifiedInv' BY <1>1, <2>1 DEF VerifiedInv
  <2>9. QED BY <2>2, <2>3, <2>4, <2>5, <2>6, <2>7, <2>8
<1>4. QED BY <1>2, <1>3

(* A trial is verified after its last answer, under the policy it ran with. *)
LEMMA VerifyTrialKeeps == ASSUME RouterInv, VerifyTrial PROVE RouterInv'
<1> USE DEF RouterInv, VerifyTrial
<1>1. /\ place = "join" /\ client.at = "ok" /\ trial \in Jobs /\ trial \in Nat /\ trial' \in Nat
      /\ trial' \in {trial, trial + 1}
      /\ trial' = trial => place' \in {"final", "ended"}
  BY NextJobs, JobNumbers DEF At, JobInv, Types
<1>2. /\ client.rows = Job.size /\ Job.mode # "qualify" /\ Job.size \in Nat \ {0}
      /\ log.visible \in [Decoder -> Nat] /\ log.hidden \in [Decoder -> Nat]
  BY <1>1, JobNumbers DEF CountInv, PolicyInv, Given, Types, Job
<1>3. log.visible \in [Decoder -> 0..Trials[trial].size]
  BY <1>2 DEF CountInv, Job
<1>4. truth[trial].under = {Trials[trial].policy}
  BY <1>1, <1>2 DEF TruthInv, PolicyInv, Given, Job
<1>5. VerifiedInv'
  <2>1. \A v \in verified : v.trial \in 1..trial /\ v.trial # trial
    BY <1>1 DEF VerifiedInv
  <2>2. \A v \in verified : v.trial \in 1..trial' /\ v.trial # trial'
    BY <1>1, <2>1
  <2>3. trial \in 1..trial' BY <1>1, JobNumbers
  <2>4. QED BY <1>1, <1>3, <1>4, <2>2, <2>3 DEF VerifiedInv, engineVars, jobVars
<1>6. QED BY <1>1, <1>5, NextJobKeeps

(* The ConfigMap gets the policy of the job before the picker does. *)
LEMMA ApplyPickerKeeps == ASSUME RouterInv, ApplyPicker PROVE RouterInv'
<1> USE DEF RouterInv, ApplyPicker
<1>1. ClientRec' BY DEF ClientRec, jobVars, siteVars
<1>2. Types' BY DEF Types, Places, jobVars, siteVars
<1>3. TruthInv' BY DEF TruthInv, Given, jobVars, siteVars, At
<1>4. ClockInv' BY DEF ClockInv, jobVars, Timed
<1>5. JobInv' BY DEF JobInv, jobVars, At
<1>6. CountInv' BY DEF CountInv, Given, Job, jobVars
<1>7. PolicyInv' BY DEF PolicyInv, Given, Job, jobVars, At
<1>8. VerifiedInv' BY DEF VerifiedInv, siteVars, At
<1>9. QED BY <1>1, <1>2, <1>3, <1>4, <1>5, <1>6, <1>7, <1>8

(* The new picker loads the policy of the job, and starts a new log. *)
LEMMA RolloutRestartKeeps == ASSUME RouterInv, RolloutRestart PROVE RouterInv'
<1> USE DEF RouterInv, RolloutRestart
<1>1. ClientRec' BY DEF ClientRec, RestartEpp, Ended
<1>2. Types' BY DEF Types, Places, RestartEpp, NewLog, NoRows
<1>3. TruthInv' BY DEF TruthInv, Given, RestartEpp, At
<1>4. ClockInv' BY DEF ClockInv, RestartEpp, Timed
<1>5. JobInv' BY DEF JobInv, RestartEpp, At
<1>6. CountInv'
  <2>1. \A d \in Decoder : log'.visible[d] = 0 /\ log'.hidden[d] = 0 BY DEF NewLog, NoRows
  <2>2. place = "restart" /\ place' = "ready" /\ UNCHANGED <<client, flying, trial>>
    BY DEF At, RestartEpp
  <2>3. client.at \in {"none", "ok"} BY <2>2 DEF JobInv
  <2>4. QED BY <2>1, <2>2, <2>3, ClientFields DEF CountInv, Given, Job
<1>7. PolicyInv' BY DEF PolicyInv, Given, Job, jobVars, RestartEpp, At
<1>8. VerifiedInv' BY DEF VerifiedInv, Ended, RestartEpp, At
<1>9. QED BY <1>1, <1>2, <1>3, <1>4, <1>5, <1>6, <1>7, <1>8

(* Waiting for discovery changes nothing but the place. *)
LEMMA WaitDiscoveryKeeps == ASSUME RouterInv, WaitDiscovery PROVE RouterInv'
<1> USE DEF RouterInv, WaitDiscovery
<1>1. ClientRec' BY DEF ClientRec, jobVars, placeOnly
<1>2. Types' BY DEF Types, Places, engineVars, jobVars, siteVars, placeOnly
<1>3. TruthInv' BY DEF TruthInv, Given, engineVars, jobVars, siteVars, placeOnly, At
<1>4. ClockInv' BY DEF ClockInv, engineVars, jobVars, placeOnly, Timed
<1>5. JobInv' BY DEF JobInv, engineVars, jobVars, placeOnly, At
<1>6. CountInv' BY DEF CountInv, Given, Job, engineVars, jobVars, placeOnly
<1>7. PolicyInv' BY DEF PolicyInv, Given, Job, jobVars, engineVars, siteVars, placeOnly, At
<1>8. VerifiedInv' BY DEF VerifiedInv, Ended, engineVars, jobVars, siteVars, placeOnly, At
<1>9. QED BY <1>1, <1>2, <1>3, <1>4, <1>5, <1>6, <1>7, <1>8

(* The pages read before a warmup concern no job. *)
LEMMA WarmupBeforeKeeps == ASSUME RouterInv, WarmupBefore PROVE RouterInv'
<1> USE DEF RouterInv, WarmupBefore
<1>1. ClientRec' BY DEF ClientRec, jobVars, siteVars
<1>2. Types' BY DEF Types, Places, jobVars, siteVars
<1>3. TruthInv' BY DEF TruthInv, Given, jobVars, siteVars, At
<1>4. ClockInv' BY DEF ClockInv, jobVars, Timed
<1>5. JobInv' BY DEF JobInv, jobVars, At
<1>6. CountInv' BY DEF CountInv, Given, Job, jobVars
<1>7. PolicyInv' BY DEF PolicyInv, Given, Job, jobVars, siteVars, At
<1>8. VerifiedInv' BY DEF VerifiedInv, jobVars, siteVars, Rebase, At
<1>9. QED BY <1>1, <1>2, <1>3, <1>4, <1>5, <1>6, <1>7, <1>8

(* A warmup request is not of a job. *)
LEMMA WarmupRequestKeeps == ASSUME RouterInv, WarmupRequest PROVE RouterInv'
<1> USE DEF RouterInv, WarmupRequest
<1>a. PICK d \in Decoder : Receive(Warm, d) OBVIOUS
<1>b. /\ flying' \subseteq Requests /\ IsFiniteSet(flying')
      /\ \A r \in flying' : r \in flying \/ r.by = Warm
      /\ By(flying', trial) = By(flying, trial)
  <2>1. /\ [by |-> Warm, to |-> d] \notin flying
        /\ flying' = flying \cup {[by |-> Warm, to |-> d]}
    BY <1>a DEF Receive
  <2>2. IsFiniteSet(flying) /\ flying \subseteq Requests BY DEF JobInv
  <2>3. trial # Warm BY JobNumbers DEF Types
  <2>4. IsFiniteSet(flying') /\ By(flying', trial) = By(flying, trial)
    BY <2>1, <2>2, <2>3, Received
  <2>5. [by |-> Warm, to |-> d] \in Requests BY DEF Requests
  <2>6. QED BY <2>1, <2>2, <2>4, <2>5
<1>c. /\ DOMAIN truth' = Jobs /\ UNCHANGED <<epp, configMap>>
      /\ \A k \in Jobs : truth'[k] = truth[k]
  BY <1>a, JobNumbers DEF Receive, TruthInv
<1>1. ClientRec' BY <1>b, <1>c DEF ClientRec, jobVars, siteVars
<1>2. Types' BY <1>b, <1>c DEF Types, Places, jobVars, siteVars
<1>3. TruthInv'
  <2>1. place = "ask" /\ place' = "warming" /\ UNCHANGED <<client, trial>> BY DEF At, jobVars
  <2>2. trial \in Jobs BY DEF Types
  <2>3. \A k \in Jobs : \E m, b, s, u :
          truth'[k] = [moved |-> m, bad |-> b, served |-> s, under |-> u]
    BY <1>c DEF TruthInv
  <2>4. QED BY <1>b, <1>c, <2>1, <2>2, <2>3 DEF TruthInv, Given
<1>4. ClockInv' BY <1>b, <1>c DEF ClockInv, jobVars, siteVars
<1>5. JobInv' BY <1>b, <1>c DEF JobInv, jobVars, At
<1>6. CountInv' BY <1>b, <1>c DEF CountInv, Given, Job, jobVars
<1>7. PolicyInv' BY <1>b, <1>c DEF PolicyInv, Given, Job, jobVars, siteVars, At
<1>8. VerifiedInv'
  <2>1. \A v \in verified : v.trial \in Jobs /\ truth'[v.trial] = truth[v.trial]
    BY <1>c, JobNumbers DEF VerifiedInv, Types
  <2>2. QED BY <2>1 DEF VerifiedInv, At, siteVars
<1>9. QED BY <1>1, <1>2, <1>3, <1>4, <1>5, <1>6, <1>7, <1>8

(* After the warmup the picker is ready, with the policy of the job. *)
LEMMA WarmupDoneKeeps == ASSUME RouterInv, WarmupDone PROVE RouterInv'
<1> USE DEF RouterInv, WarmupDone
<1>1. ClientRec' BY DEF ClientRec, jobVars, placeOnly
<1>2. Types' BY DEF Types, Places, engineVars, jobVars, siteVars, placeOnly
<1>3. TruthInv' BY DEF TruthInv, Given, engineVars, jobVars, siteVars, placeOnly, At
<1>4. ClockInv' BY DEF ClockInv, engineVars, jobVars, placeOnly, Timed
<1>5. JobInv' BY DEF JobInv, engineVars, jobVars, placeOnly, At
<1>6. CountInv' BY DEF CountInv, Given, Job, engineVars, jobVars, placeOnly
<1>7. PolicyInv' BY DEF PolicyInv, Given, Job, jobVars, engineVars, siteVars, placeOnly, At
<1>8. VerifiedInv' BY DEF VerifiedInv, Ended, engineVars, jobVars, siteVars, placeOnly, At
<1>9. QED BY <1>1, <1>2, <1>3, <1>4, <1>5, <1>6, <1>7, <1>8

(* A warmup that timed out leaves its request to nobody. *)
LEMMA WarmupTimeoutKeeps == ASSUME RouterInv, WarmupTimeout PROVE RouterInv'
<1> USE DEF RouterInv, WarmupTimeout
<1>a. flying' = (flying \ By(flying, Warm)) \cup Orphans(By(flying, Warm)) BY DEF Of, By
<1>b. /\ flying' \subseteq Requests /\ IsFiniteSet(flying')
      /\ \A r \in flying' : r \in flying \/ r.by = Stray
      /\ By(flying', trial) = By(flying, trial)
  <2>1. trial # Stray /\ trial # Warm BY JobNumbers DEF Types
  <2>2. By(flying, Warm) \subseteq flying /\ By(flying, trial) \cap By(flying, Warm) = {}
    BY <2>1 DEF By
  <2>3. flying \subseteq Requests /\ IsFiniteSet(flying) BY DEF JobInv
  <2>4. \A j : j # Stray => By(flying', j) = By(flying, j) \ By(flying, Warm)
    BY <1>a, <2>2, <2>3, Orphaned
  <2>5. By(flying', trial) = By(flying, trial) BY <2>1, <2>2, <2>4
  <2>6. QED BY <1>a, <2>2, <2>3, <2>5, Orphaned
<1>c. UNCHANGED <<truth, epp, configMap>> OBVIOUS
<1>1. ClientRec' BY <1>b, <1>c DEF ClientRec, jobVars, Ended
<1>2. Types'
  <2>1. incidents' \in 0..MaxIncidents /\ retries' \in 0..incidents' BY Numbers DEF Types
  <2>2. QED BY <2>1 DEF Types, Places, jobVars
<1>3. TruthInv' BY <1>b, <1>c DEF TruthInv, Given, At
<1>4. ClockInv' BY <1>b, <1>c DEF ClockInv, jobVars, Timed
<1>5. JobInv'
  <2>1. UNCHANGED <<client, trial>> /\ place = "warming" /\ place' = "warm" BY DEF At, jobVars
  <2>2. Stray <= trial BY JobNumbers DEF Types, Stray
  <2>3. QED BY <1>b, <2>1, <2>2 DEF JobInv
<1>6. CountInv' BY <1>b, <1>c DEF CountInv, Given, Job, jobVars
<1>7. PolicyInv' BY <1>b, <1>c DEF PolicyInv, Given, Job, jobVars, At
<1>8. VerifiedInv' BY <1>b, <1>c DEF VerifiedInv, jobVars, At
<1>9. QED BY <1>1, <1>2, <1>3, <1>4, <1>5, <1>6, <1>7, <1>8

(* The final collection changes no job. *)
LEMMA FinalCollectKeeps == ASSUME RouterInv, FinalCollect PROVE RouterInv'
<1> USE DEF RouterInv, FinalCollect
<1>1. ClientRec' BY DEF ClientRec, jobVars, placeOnly
<1>2. Types' BY DEF Types, Places, engineVars, jobVars, siteVars, placeOnly
<1>3. TruthInv' BY DEF TruthInv, Given, engineVars, jobVars, siteVars, placeOnly
<1>4. ClockInv' BY DEF ClockInv, engineVars, jobVars, placeOnly
<1>5. JobInv' BY DEF JobInv, engineVars, jobVars, placeOnly
<1>6. CountInv' BY DEF CountInv, Given, Job, engineVars, jobVars, placeOnly
<1>7. PolicyInv' BY DEF PolicyInv, Given, Job, engineVars, jobVars, siteVars, placeOnly
<1>8. VerifiedInv' BY DEF VerifiedInv, Ended, engineVars, jobVars, siteVars, placeOnly
<1>9. QED BY <1>1, <1>2, <1>3, <1>4, <1>5, <1>6, <1>7, <1>8

(* A controller that gives up leaves its client running. *)
LEMMA AbortKeeps == ASSUME RouterInv, Abort PROVE RouterInv'
<1> USE DEF RouterInv, Abort
<1>1. ClientRec' BY DEF ClientRec, jobVars, placeOnly
<1>2. Types' BY DEF Types, Places, engineVars, jobVars, siteVars, placeOnly
<1>3. TruthInv' BY DEF TruthInv, Given, engineVars, jobVars, siteVars, placeOnly
<1>4. ClockInv' BY DEF ClockInv, engineVars, jobVars, placeOnly, Timed
<1>5. JobInv' BY DEF JobInv, engineVars, jobVars, siteVars, placeOnly
<1>6. CountInv' BY DEF CountInv, Given, Job, engineVars, jobVars, placeOnly
<1>7. PolicyInv' BY DEF PolicyInv, Given, Job, engineVars, jobVars, siteVars, placeOnly
<1>8. VerifiedInv' BY DEF VerifiedInv, Ended, engineVars, jobVars, siteVars, placeOnly
<1>9. QED BY <1>1, <1>2, <1>3, <1>4, <1>5, <1>6, <1>7, <1>8

(* The last copy of the results changes no job. *)
LEMMA PreserveKeeps == ASSUME RouterInv, Preserve PROVE RouterInv'
<1> USE DEF RouterInv, Preserve
<1>1. ClientRec' BY DEF ClientRec, jobVars, placeOnly
<1>2. Types' BY DEF Types, Places, engineVars, jobVars, siteVars, placeOnly
<1>3. TruthInv' BY DEF TruthInv, Given, engineVars, jobVars, siteVars, placeOnly
<1>4. ClockInv' BY DEF ClockInv, engineVars, jobVars, placeOnly, Timed
<1>5. JobInv' BY DEF JobInv, engineVars, jobVars, siteVars, placeOnly
<1>6. CountInv' BY DEF CountInv, Given, Job, engineVars, jobVars, placeOnly
<1>7. PolicyInv' BY DEF PolicyInv, Given, Job, engineVars, jobVars, siteVars, placeOnly
<1>8. VerifiedInv' BY DEF VerifiedInv, Ended, engineVars, jobVars, siteVars, placeOnly
<1>9. QED BY <1>1, <1>2, <1>3, <1>4, <1>5, <1>6, <1>7, <1>8

-----------------------------------------------------------------------------
(* Steps of the client *)

(* The client starts with the clock as it is. *)
LEMMA ClientStartKeeps == ASSUME RouterInv, ClientStart PROVE RouterInv'
<1> USE DEF RouterInv, ClientStart
<1>e. PICK a \in Stages, u \in Int, w \in BOOLEAN, s \in Nat, r \in Nat : \E p :
        client = [at |-> a, until |-> u, slow |-> w, sent |-> s, rows |-> r, after |-> p]
  BY DEF ClientRec, IsClient
<1>d. PICK p : client = [at |-> a, until |-> u, slow |-> w, sent |-> s, rows |-> r, after |-> p]
  BY <1>e
<1>f. client' = [at |-> "idle", until |-> u, slow |-> w, sent |-> s,
                 rows |-> r, after |-> p]
  BY <1>d
<1>1. ClientRec'
  <2>1. "idle" \in Stages
    BY <1>e DEF Stages, Ended, Timed, Untimed
  <2>2. IsClient([at |-> "idle", until |-> u, slow |-> w, sent |-> s, rows |-> r, after |-> p])
    BY <1>e, <2>1, ClientMade
  <2>3. QED BY <1>f, <2>2 DEF ClientRec
<1>2. Types' BY <1>e, <1>d, <1>f DEF Types, engineVars, siteVars, clientOnly
<1>3. TruthInv' BY <1>e, <1>d, <1>f DEF TruthInv, engineVars, siteVars, clientOnly
<1>4. ClockInv' BY <1>e, <1>d, <1>f DEF ClockInv, Timed, clientOnly
<1>5. JobInv' BY <1>e, <1>d, <1>f DEF JobInv, engineVars, clientOnly
<1>6. CountInv' BY <1>e, <1>d, <1>f DEF CountInv, Job, engineVars, clientOnly
<1>7. PolicyInv' BY <1>e, <1>d, <1>f DEF PolicyInv, engineVars, siteVars, clientOnly, Job
<1>8. VerifiedInv' BY <1>e, <1>d, <1>f DEF VerifiedInv, Ended, engineVars, siteVars, clientOnly
<1>9. QED BY <1>1, <1>2, <1>3, <1>4, <1>5, <1>6, <1>7, <1>8

(* The reserve of the idle wait covers the read and the benchmark. *)
LEMMA ClientReadsKeeps == ASSUME RouterInv, ClientReads PROVE RouterInv'
<1> USE DEF RouterInv, ClientReads
<1>e. PICK a \in Stages, u \in Int, w \in BOOLEAN, s \in Nat, r \in Nat : \E p :
        client = [at |-> a, until |-> u, slow |-> w, sent |-> s, rows |-> r, after |-> p]
  BY DEF ClientRec, IsClient
<1>d. PICK p : client = [at |-> a, until |-> u, slow |-> w, sent |-> s, rows |-> r, after |-> p]
  BY <1>e
<1>f. client' = [at |-> IF a = "idle" THEN "reading" ELSE "count", until |-> left - ReadTime,
                 slow |-> w, sent |-> s, rows |-> r, after |-> p]
  BY <1>d
<1>1. ClientRec'
  <2>1. (IF a = "idle" THEN "reading" ELSE "count") \in Stages /\ left - ReadTime \in Int
    BY <1>e, Numbers DEF Stages, Timed, Untimed, ClockInv
  <2>2. IsClient([at |-> IF a = "idle" THEN "reading" ELSE "count", until |-> left - ReadTime,
                 slow |-> w, sent |-> s, rows |-> r, after |-> p])
    BY <1>e, <2>1, ClientMade
  <2>3. QED BY <1>f, <2>2 DEF ClientRec
<1>2. Types' BY <1>e, <1>d, <1>f DEF Types, engineVars, siteVars, clientOnly
<1>3. TruthInv' BY <1>e, <1>d, <1>f DEF TruthInv, engineVars, clientOnly
<1>4. ClockInv' BY <1>e, <1>d, <1>f, Numbers DEF ClockInv, Timed, clientOnly
<1>5. JobInv' BY <1>e, <1>d, <1>f DEF JobInv, engineVars, clientOnly
<1>6. CountInv' BY <1>e, <1>d, <1>f DEF CountInv, Job, engineVars, clientOnly
<1>7. PolicyInv' BY <1>e, <1>d, <1>f DEF PolicyInv, engineVars, siteVars, clientOnly, Job
<1>8. VerifiedInv' BY <1>e, <1>d, <1>f DEF VerifiedInv, Ended, engineVars, siteVars, clientOnly
<1>9. QED BY <1>1, <1>2, <1>3, <1>4, <1>5, <1>6, <1>7, <1>8

(* A benchmark begins with time for all of it and for its kill. *)
LEMMA ClientBeginsKeeps == ASSUME RouterInv, ClientBegins PROVE RouterInv'
<1> USE DEF RouterInv, ClientBegins, Qualifying
<1> DEFINE next == IF Job.mode = "qualify" THEN "ask" ELSE "bench"
<1>e. PICK a \in Stages, u \in Int, w \in BOOLEAN, s \in Nat, r \in Nat : \E p :
        client = [at |-> a, until |-> u, slow |-> w, sent |-> s, rows |-> r, after |-> p]
  BY DEF ClientRec, IsClient
<1>d. PICK p : client = [at |-> a, until |-> u, slow |-> w, sent |-> s, rows |-> r, after |-> p]
  BY <1>e
<1>c. PICK v \in BOOLEAN : v = (left < client.until)
  <2> HIDE DEF RouterInv, ClientBegins
  <2>1. CASE left < client.until
    <3>1. TRUE = (left < client.until) BY <2>1
    <3>2. QED BY <3>1
  <2>2. CASE ~(left < client.until)
    <3>1. FALSE = (left < client.until) BY <2>2
    <3>2. QED BY <3>1
  <2>3. QED BY <2>1, <2>2
<1>f. client' = [at |-> next, until |-> left - Limit, slow |-> v, sent |-> s,
                 rows |-> r, after |-> p]
  <2>1. client' = [client EXCEPT !.at = next, !.until = left - Limit, !.slow = v]
    BY <1>c
  <2>2. QED BY <1>d, <2>1
<1>g. v <=> left < u BY <1>c, <1>d
<1>1. ClientRec'
  <2>1. next \in Stages /\ left - Limit \in Int
    BY <1>e, Numbers DEF Stages, Timed, Untimed, ClockInv
  <2>2. IsClient([at |-> next, until |-> left - Limit, slow |-> v,
                  sent |-> s, rows |-> r, after |-> p])
    BY <1>e, <2>1, ClientMade
  <2>3. QED BY <1>f, <2>2 DEF ClientRec
<1>2. Types' BY <1>e, <1>d, <1>f DEF Types, siteVars, clientOnly
<1>3. TruthInv' BY <1>e, <1>d, <1>f DEF TruthInv, Given, clientOnly
<1>4. ClockInv' BY <1>g, <1>e, <1>d, <1>f, Numbers DEF ClockInv, Timed, clientOnly
<1>5. JobInv' BY <1>e, <1>d, <1>f DEF JobInv, Stray, clientOnly
<1>6. CountInv' BY <1>e, <1>d, <1>f DEF CountInv, Job, clientOnly
<1>7. PolicyInv' BY <1>e, <1>d, <1>f DEF PolicyInv, siteVars, clientOnly, Rebase, Job
<1>8. VerifiedInv' BY <1>e, <1>d, <1>f DEF VerifiedInv, siteVars, clientOnly, Rebase
<1>9. QED BY <1>1, <1>2, <1>3, <1>4, <1>5, <1>6, <1>7, <1>8

(* Another round of the idle wait. *)
LEMMA ClientWaitsOnKeeps == ASSUME RouterInv, ClientWaitsOn PROVE RouterInv'
<1> USE DEF RouterInv, ClientWaitsOn
<1>e. PICK a \in Stages, u \in Int, w \in BOOLEAN, s \in Nat, r \in Nat : \E p :
        client = [at |-> a, until |-> u, slow |-> w, sent |-> s, rows |-> r, after |-> p]
  BY DEF ClientRec, IsClient
<1>d. PICK p : client = [at |-> a, until |-> u, slow |-> w, sent |-> s, rows |-> r, after |-> p]
  BY <1>e
<1>f. client' = [at |-> "idle", until |-> u, slow |-> w, sent |-> s,
                 rows |-> r, after |-> p]
  BY <1>d
<1>1. ClientRec'
  <2>1. "idle" \in Stages
    BY <1>e DEF Stages, Ended, Timed, Untimed
  <2>2. IsClient([at |-> "idle", until |-> u, slow |-> w, sent |-> s, rows |-> r, after |-> p])
    BY <1>e, <2>1, ClientMade
  <2>3. QED BY <1>f, <2>2 DEF ClientRec
<1>2. Types' BY <1>e, <1>d, <1>f DEF Types, engineVars, siteVars, clientOnly
<1>3. TruthInv' BY <1>e, <1>d, <1>f DEF TruthInv, engineVars, siteVars, clientOnly
<1>4. ClockInv' BY <1>e, <1>d, <1>f DEF ClockInv, Timed, clientOnly
<1>5. JobInv' BY <1>e, <1>d, <1>f DEF JobInv, engineVars, clientOnly
<1>6. CountInv' BY <1>e, <1>d, <1>f DEF CountInv, Job, engineVars, clientOnly
<1>7. PolicyInv' BY <1>e, <1>d, <1>f DEF PolicyInv, engineVars, siteVars, clientOnly, Job
<1>8. VerifiedInv' BY <1>e, <1>d, <1>f DEF VerifiedInv, Ended, engineVars, siteVars, clientOnly
<1>9. QED BY <1>1, <1>2, <1>3, <1>4, <1>5, <1>6, <1>7, <1>8

(* A request is one more in flight, under the policy of the job. *)
LEMMA ClientSendsKeeps == ASSUME RouterInv, ClientSends PROVE RouterInv'
<1> USE DEF RouterInv, ClientSends
<1>a. PICK d \in Decoder : Receive(trial, d) OBVIOUS
<1>b. /\ flying' \subseteq Requests /\ IsFiniteSet(flying')
      /\ \A r \in flying' : r \in flying \/ r.by = trial
      /\ Cardinality(By(flying', trial)) = Cardinality(By(flying, trial)) + 1
  <2>1. /\ [by |-> trial, to |-> d] \notin flying
        /\ flying' = flying \cup {[by |-> trial, to |-> d]}
    BY <1>a DEF Receive
  <2>2. IsFiniteSet(flying) /\ flying \subseteq Requests BY DEF JobInv
  <2>3. /\ IsFiniteSet(flying')
        /\ Cardinality(By(flying', trial)) = Cardinality(By(flying, trial)) + 1
    BY <2>1, <2>2, Received
  <2>4. [by |-> trial, to |-> d] \in Requests BY DEF Types, Requests
  <2>5. QED BY <2>1, <2>2, <2>3, <2>4
<1>c. /\ DOMAIN truth' = Jobs /\ UNCHANGED <<epp, configMap>>
      /\ \A k \in Jobs \ {trial} : truth'[k] = truth[k]
      /\ truth'[trial].under = truth[trial].under \cup {epp.loaded}
      /\ \E m, b, s, u : truth'[trial] = [moved |-> m, bad |-> b, served |-> s, under |-> u]
  <2>1. PICK m, b, s, u : truth[trial] = [moved |-> m, bad |-> b, served |-> s, under |-> u]
    BY DEF Types, TruthInv
  <2>2. /\ truth' = [k \in Jobs |->
                       IF k = trial THEN [truth[k] EXCEPT !.served = @ \cup {Who},
                                                          !.under = @ \cup {epp.loaded}]
                                    ELSE truth[k]]
        /\ UNCHANGED <<epp, configMap>>
    BY <1>a DEF Receive, TruthInv
  <2>3. truth'[trial] = [moved |-> m, bad |-> b, served |-> s \cup {Who},
                         under |-> u \cup {epp.loaded}]
    <3>1. truth'[trial] = [[moved |-> m, bad |-> b, served |-> s, under |-> u]
                             EXCEPT !.served = @ \cup {Who}, !.under = @ \cup {epp.loaded}]
      BY <2>1, <2>2 DEF Types
    <3>2. QED BY <3>1
  <2>4. truth'[trial].under = u \cup {epp.loaded} /\ truth[trial].under = u BY <2>1, <2>3
  <2>5. QED BY <2>2, <2>3, <2>4
<1>e. PICK a \in Stages, u \in Int, w \in BOOLEAN, s \in Nat, r \in Nat : \E p :
        client = [at |-> a, until |-> u, slow |-> w, sent |-> s, rows |-> r, after |-> p]
  BY DEF ClientRec, IsClient
<1>d. PICK p : client = [at |-> a, until |-> u, slow |-> w, sent |-> s, rows |-> r, after |-> p]
  BY <1>e
<1>f. client' = [at |-> a, until |-> u, slow |-> w, sent |-> s + 1,
                 rows |-> r, after |-> p]
  BY <1>d
<1>1. ClientRec'
  <2>1. s + 1 \in Nat
    BY <1>e DEF Stages, Ended, Timed, Untimed
  <2>2. IsClient([at |-> a, until |-> u, slow |-> w, sent |-> s + 1, rows |-> r, after |-> p])
    BY <1>e, <2>1, ClientMade
  <2>3. QED BY <1>f, <2>2 DEF ClientRec
<1>2. Types' BY <1>b, <1>c, <1>e, <1>d, <1>f DEF Types, siteVars, clientOnly
<1>3. TruthInv'
  <2>1. client'.rows = client.rows /\ UNCHANGED <<place, trial>>
    BY <1>d, <1>f DEF clientOnly
  <2>2. trial \in Jobs /\ truth'[trial].under # {} BY <1>c DEF Types
  <2>3. \A k \in Jobs : k > trial => truth'[k].under = {}
    <3>1. \A k \in Jobs : k > trial => k # trial BY JobNumbers DEF Types
    <3>2. QED BY <1>c, <3>1 DEF TruthInv
  <2>4. place \in {"wait", "exit", "preserve", "ended"} BY DEF JobInv
  <2>5. \A k \in Jobs : \E m, b, q, v :
          truth'[k] = [moved |-> m, bad |-> b, served |-> q, under |-> v]
    BY <1>c DEF TruthInv
  <2>6. QED BY <1>c, <2>1, <2>2, <2>3, <2>4, <2>5 DEF TruthInv, Given
<1>4. ClockInv' BY <1>b, <1>c, <1>e, <1>d, <1>f DEF ClockInv, Timed, clientOnly
<1>5. JobInv'
  <2>1. client'.at = "bench" /\ UNCHANGED <<place, trial>> BY <1>d, <1>f DEF clientOnly
  <2>2. trial <= trial BY JobNumbers DEF Types
  <2>3. QED BY <1>b, <2>1, <2>2 DEF JobInv
<1>6. CountInv'
  <2>1. Cardinality(By(flying, trial)) \in Nat /\ Job.size \in Nat /\ Job' = Job
    BY InFlight, JobNumbers DEF Types, Job, clientOnly
  <2>2. /\ client.at = "bench" /\ client.sent = s /\ client.rows = r
        /\ client'.at = "bench" /\ client'.sent = s + 1 /\ client'.rows = r
    BY <1>d, <1>f
  <2>3. r + Cardinality(By(flying, trial)) + 1 <= s + 1 /\ s + 1 <= Job.size
    BY <2>1, <2>2, <1>e DEF CountInv
  <2>4. QED BY <1>b, <2>1, <2>2, <2>3 DEF CountInv, clientOnly
<1>7. PolicyInv' BY <1>b, <1>c, <1>e, <1>d, <1>f DEF PolicyInv, Given, Job, siteVars, clientOnly
<1>8. VerifiedInv' BY <1>c, VerifiedStays DEF clientOnly, siteVars
<1>9. QED BY <1>1, <1>2, <1>3, <1>4, <1>5, <1>6, <1>7, <1>8

(* A complete report leaves nothing in flight. *)
LEMMA ClientReportedKeeps == ASSUME RouterInv, ClientReported PROVE RouterInv'
<1> USE DEF RouterInv, ClientReported
<1>e. PICK a \in Stages, u \in Int, w \in BOOLEAN, s \in Nat, r \in Nat : \E p :
        client = [at |-> a, until |-> u, slow |-> w, sent |-> s, rows |-> r, after |-> p]
  BY DEF ClientRec, IsClient
<1>d. PICK p : client = [at |-> a, until |-> u, slow |-> w, sent |-> s, rows |-> r, after |-> p]
  BY <1>e
<1>f. client' = [at |-> "after", until |-> u, slow |-> w, sent |-> s,
                 rows |-> r, after |-> p]
  BY <1>d
<1>1. ClientRec'
  <2>1. "after" \in Stages
    BY <1>e DEF Stages, Ended, Timed, Untimed
  <2>2. IsClient([at |-> "after", until |-> u, slow |-> w, sent |-> s, rows |-> r, after |-> p])
    BY <1>e, <2>1, ClientMade
  <2>3. QED BY <1>f, <2>2 DEF ClientRec
<1>2. Types' BY <1>e, <1>d, <1>f DEF Types, engineVars, siteVars, clientOnly
<1>3. TruthInv' BY <1>e, <1>d, <1>f DEF TruthInv, engineVars, siteVars, clientOnly
<1>4. ClockInv' BY <1>e, <1>d, <1>f DEF ClockInv, Timed, clientOnly
<1>5. JobInv'
  <2>1. client.sent <= Job.size /\ Job.size \in Nat BY JobNumbers DEF CountInv, Types, Job
  <2>2. By(flying, trial) = {} BY <2>1, ClientFields, InFlight DEF CountInv
  <2>3. QED BY <2>2, <1>f DEF JobInv, engineVars, clientOnly
<1>6. CountInv' BY <1>e, <1>d, <1>f DEF CountInv, Job, engineVars, clientOnly
<1>7. PolicyInv' BY <1>e, <1>d, <1>f DEF PolicyInv, engineVars, siteVars, clientOnly, Job
<1>8. VerifiedInv' BY <1>e, <1>d, <1>f DEF VerifiedInv, Ended, engineVars, siteVars, clientOnly
<1>9. QED BY <1>1, <1>2, <1>3, <1>4, <1>5, <1>6, <1>7, <1>8

(* The job has succeeded, and its rows are all there. *)
LEMMA ClientCountsKeeps == ASSUME RouterInv, ClientCounts PROVE RouterInv'
<1> USE DEF RouterInv, ClientCounts
<1>e. PICK a \in Stages, u \in Int, w \in BOOLEAN, s \in Nat, r \in Nat : \E p :
        client = [at |-> a, until |-> u, slow |-> w, sent |-> s, rows |-> r, after |-> p]
  BY DEF ClientRec, IsClient
<1>d. PICK p : client = [at |-> a, until |-> u, slow |-> w, sent |-> s, rows |-> r, after |-> p]
  BY <1>e
<1>f. client' = [at |-> "ok", until |-> u, slow |-> w, sent |-> s,
                 rows |-> r, after |-> shown]
  BY <1>d
<1>1. ClientRec'
  <2>1. "ok" \in Stages
    BY <1>e DEF Stages, Ended, Timed, Untimed
  <2>2. IsClient([at |-> "ok", until |-> u, slow |-> w, sent |-> s, rows |-> r, after |-> shown])
    BY <1>e, <2>1, ClientMade
  <2>3. QED BY <1>f, <2>2 DEF ClientRec
<1>2. Types' BY <1>e, <1>d, <1>f DEF Types, engineVars, siteVars, clientOnly
<1>3. TruthInv' BY <1>e, <1>d, <1>f DEF TruthInv, engineVars, siteVars, clientOnly
<1>4. ClockInv' BY <1>e, <1>d, <1>f DEF ClockInv, Timed, clientOnly
<1>5. JobInv' BY <1>e, <1>d, <1>f DEF JobInv, engineVars, clientOnly
<1>6. CountInv' BY <1>e, <1>d, <1>f DEF CountInv, Job, engineVars, clientOnly
<1>7. PolicyInv' BY <1>e, <1>d, <1>f DEF PolicyInv, engineVars, siteVars, clientOnly, Job
<1>8. VerifiedInv' BY <1>e, <1>d, <1>f DEF VerifiedInv, Ended, engineVars, siteVars, clientOnly
<1>9. QED BY <1>1, <1>2, <1>3, <1>4, <1>5, <1>6, <1>7, <1>8

(* The benchmark is killed before the deadline. *)
LEMMA ClientInterruptsKeeps == ASSUME RouterInv, ClientInterrupts PROVE RouterInv'
<1> USE DEF RouterInv, ClientInterrupts
<1>e. PICK a \in Stages, u \in Int, w \in BOOLEAN, s \in Nat, r \in Nat : \E p :
        client = [at |-> a, until |-> u, slow |-> w, sent |-> s, rows |-> r, after |-> p]
  BY DEF ClientRec, IsClient
<1>d. PICK p : client = [at |-> a, until |-> u, slow |-> w, sent |-> s, rows |-> r, after |-> p]
  BY <1>e
<1>f. client' = [at |-> "killing", until |-> left - KillTime, slow |-> w, sent |-> s,
                 rows |-> r, after |-> p]
  BY <1>d
<1>1. ClientRec'
  <2>1. "killing" \in Stages /\ left - KillTime \in Int
    BY <1>e, Numbers DEF Stages, Ended, Timed, Untimed
  <2>2. IsClient([at |-> "killing", until |-> left - KillTime, slow |-> w,
                 sent |-> s, rows |-> r, after |-> p])
    BY <1>e, <2>1, ClientMade
  <2>3. QED BY <1>f, <2>2 DEF ClientRec
<1>2. Types' BY <1>e, <1>d, <1>f DEF Types, engineVars, siteVars, clientOnly
<1>3. TruthInv' BY <1>e, <1>d, <1>f DEF TruthInv, engineVars, clientOnly
<1>4. ClockInv' BY <1>e, <1>d, <1>f, Numbers DEF ClockInv, Timed, clientOnly
<1>5. JobInv' BY <1>e, <1>d, <1>f DEF JobInv, engineVars, clientOnly
<1>6. CountInv' BY <1>e, <1>d, <1>f DEF CountInv, Job, engineVars, clientOnly
<1>7. PolicyInv' BY <1>e, <1>d, <1>f DEF PolicyInv, engineVars, siteVars, clientOnly, Job
<1>8. VerifiedInv' BY <1>e, <1>d, <1>f DEF VerifiedInv, Ended, engineVars, siteVars, clientOnly
<1>9. QED BY <1>1, <1>2, <1>3, <1>4, <1>5, <1>6, <1>7, <1>8

(* A qualification has one request more in flight. *)
LEMMA QualifyAsksKeeps == ASSUME RouterInv, QualifyAsks PROVE RouterInv'
<1> USE DEF RouterInv, QualifyAsks
<1>a. PICK d \in Decoder : Receive(trial, d) BY DEF QualifyAsks
<1>b. /\ flying' \subseteq Requests /\ IsFiniteSet(flying')
      /\ \A r \in flying' : r \in flying \/ r.by = trial
      /\ Cardinality(By(flying', trial)) = Cardinality(By(flying, trial)) + 1
  <2>1. /\ [by |-> trial, to |-> d] \notin flying
        /\ flying' = flying \cup {[by |-> trial, to |-> d]}
    BY <1>a DEF Receive
  <2>2. IsFiniteSet(flying) /\ flying \subseteq Requests BY DEF JobInv
  <2>3. /\ IsFiniteSet(flying')
        /\ Cardinality(By(flying', trial)) = Cardinality(By(flying, trial)) + 1
    BY <2>1, <2>2, Received
  <2>4. [by |-> trial, to |-> d] \in Requests BY DEF Types, Requests
  <2>5. QED BY <2>1, <2>2, <2>3, <2>4
<1>c. /\ DOMAIN truth' = Jobs /\ UNCHANGED <<epp, configMap>>
      /\ \A k \in Jobs \ {trial} : truth'[k] = truth[k]
      /\ truth'[trial].under = truth[trial].under \cup {epp.loaded}
      /\ \E m, b, s, u : truth'[trial] = [moved |-> m, bad |-> b, served |-> s, under |-> u]
  <2>1. PICK m, b, s, u : truth[trial] = [moved |-> m, bad |-> b, served |-> s, under |-> u]
    BY DEF Types, TruthInv
  <2>2. /\ truth' = [k \in Jobs |->
                       IF k = trial THEN [truth[k] EXCEPT !.served = @ \cup {Who},
                                                          !.under = @ \cup {epp.loaded}]
                                    ELSE truth[k]]
        /\ UNCHANGED <<epp, configMap>>
    BY <1>a DEF Receive, TruthInv
  <2>3. truth'[trial] = [moved |-> m, bad |-> b, served |-> s \cup {Who},
                         under |-> u \cup {epp.loaded}]
    <3>1. truth'[trial] = [[moved |-> m, bad |-> b, served |-> s, under |-> u]
                             EXCEPT !.served = @ \cup {Who}, !.under = @ \cup {epp.loaded}]
      BY <2>1, <2>2 DEF Types
    <3>2. QED BY <3>1
  <2>4. truth'[trial].under = u \cup {epp.loaded} /\ truth[trial].under = u BY <2>1, <2>3
  <2>5. QED BY <2>2, <2>3, <2>4
<1>e. PICK a \in Stages, u \in Int, w \in BOOLEAN, s \in Nat, r \in Nat : \E p :
        client = [at |-> a, until |-> u, slow |-> w, sent |-> s, rows |-> r, after |-> p]
  BY DEF ClientRec, IsClient
<1>d. PICK p : client = [at |-> a, until |-> u, slow |-> w, sent |-> s, rows |-> r, after |-> p]
  BY <1>e
<1>f. client' = [at |-> "answer", until |-> u, slow |-> w, sent |-> s + 1,
                 rows |-> r, after |-> p]
  BY <1>d
<1>1. ClientRec'
  <2>1. s + 1 \in Nat /\ "answer" \in Stages
    BY <1>e DEF Stages, Ended, Timed, Untimed
  <2>2. IsClient([at |-> "answer", until |-> u, slow |-> w,
                  sent |-> s + 1, rows |-> r, after |-> p])
    BY <1>e, <2>1, ClientMade
  <2>3. QED BY <1>f, <2>2 DEF ClientRec
<1>2. Types' BY <1>b, <1>c, <1>e, <1>d, <1>f DEF Types, siteVars, clientOnly
<1>3. TruthInv'
  <2>1. client'.rows = client.rows /\ UNCHANGED <<place, trial>>
    BY <1>d, <1>f DEF clientOnly
  <2>2. trial \in Jobs /\ truth'[trial].under # {} BY <1>c DEF Types
  <2>3. \A k \in Jobs : k > trial => truth'[k].under = {}
    <3>1. \A k \in Jobs : k > trial => k # trial BY JobNumbers DEF Types
    <3>2. QED BY <1>c, <3>1 DEF TruthInv
  <2>4. place \in {"wait", "exit", "preserve", "ended"} BY DEF JobInv
  <2>5. \A k \in Jobs : \E m, b, q, v :
          truth'[k] = [moved |-> m, bad |-> b, served |-> q, under |-> v]
    BY <1>c DEF TruthInv
  <2>6. QED BY <1>c, <2>1, <2>2, <2>3, <2>4, <2>5 DEF TruthInv, Given
<1>4. ClockInv' BY <1>b, <1>c, <1>e, <1>d, <1>f DEF ClockInv, Timed, clientOnly
<1>5. JobInv'
  <2>1. client'.at = "answer" /\ UNCHANGED <<place, trial>> BY <1>d, <1>f DEF clientOnly
  <2>2. trial <= trial BY JobNumbers DEF Types
  <2>3. QED BY <1>b, <2>1, <2>2 DEF JobInv
<1>6. CountInv'
  <2>1. Cardinality(By(flying, trial)) \in Nat /\ Job.size \in Nat /\ Job' = Job
    BY InFlight, JobNumbers DEF Types, Job, clientOnly
  <2>2. /\ client.at = "ask" /\ client.sent = s /\ client.rows = r
        /\ client'.at = "answer" /\ client'.sent = s + 1 /\ client'.rows = r
    BY <1>d, <1>f
  <2>3. r + Cardinality(By(flying, trial)) + 1 <= s + 1 /\ s + 1 <= Job.size
    BY <2>1, <2>2, <1>e DEF CountInv
  <2>4. QED BY <1>b, <2>1, <2>2, <2>3 DEF CountInv, clientOnly
<1>7. PolicyInv' BY <1>b, <1>c, <1>e, <1>d, <1>f DEF PolicyInv, Given, Job, siteVars, clientOnly
<1>8. VerifiedInv' BY <1>c, VerifiedStays DEF clientOnly, siteVars
<1>9. QED BY <1>1, <1>2, <1>3, <1>4, <1>5, <1>6, <1>7, <1>8

(* The answer to a qualifying request leaves none of the job in flight. *)
LEMMA QualifyAnsweredKeeps == ASSUME RouterInv, QualifyAnswered PROVE RouterInv'
<1> USE DEF RouterInv, QualifyAnswered
<1>e. PICK a \in Stages, u \in Int, w \in BOOLEAN, s \in Nat, r \in Nat : \E p :
        client = [at |-> a, until |-> u, slow |-> w, sent |-> s, rows |-> r, after |-> p]
  BY DEF ClientRec, IsClient
<1>d. PICK p : client = [at |-> a, until |-> u, slow |-> w, sent |-> s, rows |-> r, after |-> p]
  BY <1>e
<1>f. client' = [at |-> "settle", until |-> u, slow |-> w, sent |-> s,
                 rows |-> r, after |-> p]
  BY <1>d
<1>1. ClientRec'
  <2>1. "settle" \in Stages
    BY <1>e DEF Stages, Ended, Timed, Untimed
  <2>2. IsClient([at |-> "settle", until |-> u, slow |-> w, sent |-> s, rows |-> r, after |-> p])
    BY <1>e, <2>1, ClientMade
  <2>3. QED BY <1>f, <2>2 DEF ClientRec
<1>2. Types' BY <1>e, <1>d, <1>f DEF Types, engineVars, siteVars, clientOnly
<1>3. TruthInv' BY <1>e, <1>d, <1>f DEF TruthInv, engineVars, siteVars, clientOnly
<1>4. ClockInv' BY <1>e, <1>d, <1>f DEF ClockInv, Timed, clientOnly
<1>5. JobInv'
  <2>1. By(flying, trial) = {} BY ClientFields, InFlight DEF CountInv
  <2>2. QED BY <2>1, <1>f DEF JobInv, engineVars, clientOnly
<1>6. CountInv' BY <1>e, <1>d, <1>f DEF CountInv, Job, engineVars, clientOnly
<1>7. PolicyInv' BY <1>e, <1>d, <1>f DEF PolicyInv, engineVars, siteVars, clientOnly, Job
<1>8. VerifiedInv' BY <1>e, <1>d, <1>f DEF VerifiedInv, Ended, engineVars, siteVars, clientOnly
<1>9. QED BY <1>1, <1>2, <1>3, <1>4, <1>5, <1>6, <1>7, <1>8

(* A qualification goes on with the next request, or has made them all. *)
LEMMA QualifyCountsKeeps == ASSUME RouterInv, QualifyCounts PROVE RouterInv'
<1> USE DEF RouterInv, QualifyCounts
<1>e. PICK a \in Stages, u \in Int, w \in BOOLEAN, s \in Nat, r \in Nat : \E p :
        client = [at |-> a, until |-> u, slow |-> w, sent |-> s, rows |-> r, after |-> p]
  BY DEF ClientRec, IsClient
<1>d. PICK p : client = [at |-> a, until |-> u, slow |-> w, sent |-> s, rows |-> r, after |-> p]
  BY <1>e
<1>b. PICK v, t : /\ v \in {"idle", "ok"} /\ (v = "idle" <=> s < Job.size)
                  /\ client' = [at |-> v, until |-> u, slow |-> w, sent |-> s,
                                rows |-> r, after |-> t]
  <2>1. CASE s < Job.size
    <3>1. client' = [at |-> "idle", until |-> u, slow |-> w, sent |-> s,
                     rows |-> r, after |-> p]
      BY <1>d, <2>1
    <3>2. QED BY <2>1, <3>1
  <2>2. CASE ~(s < Job.size)
    <3>1. client' = [at |-> "ok", until |-> u, slow |-> w, sent |-> s,
                     rows |-> r, after |-> shown]
      BY <1>d, <2>2
    <3>2. QED BY <2>2, <3>1
  <2>3. QED BY <2>1, <2>2
<1>f. /\ client' = [at |-> v, until |-> u, slow |-> w, sent |-> s, rows |-> r, after |-> t]
      /\ v \in {"idle", "ok"} /\ (v = "ok" => r = s /\ s = Job.size)
      /\ v = "idle" => s < Job.size
  <2>1. s <= Job.size /\ r = s BY <1>d DEF CountInv
  <2>2. Job.size \in Nat BY JobNumbers DEF Types, Job
  <2>3. QED BY <1>b, <1>e, <2>1, <2>2
<1>1. ClientRec'
  <2>1. v \in Stages
    BY <1>e, <1>f DEF Stages, Ended, Timed, Untimed
  <2>2. IsClient([at |-> v, until |-> u, slow |-> w, sent |-> s, rows |-> r, after |-> t])
    BY <1>e, <2>1, ClientMade
  <2>3. QED BY <1>f, <2>2 DEF ClientRec
<1>2. Types' BY <1>e, <1>d, <1>f DEF Types, engineVars, siteVars, clientOnly
<1>3. TruthInv' BY <1>e, <1>d, <1>f DEF TruthInv, engineVars, siteVars, clientOnly
<1>4. ClockInv' BY <1>e, <1>d, <1>f DEF ClockInv, Timed, clientOnly
<1>5. JobInv' BY <1>e, <1>d, <1>f DEF JobInv, engineVars, clientOnly
<1>6. CountInv' BY <1>e, <1>d, <1>f DEF CountInv, Job, engineVars, clientOnly
<1>7. PolicyInv' BY <1>e, <1>d, <1>f DEF PolicyInv, engineVars, siteVars, clientOnly, Job
<1>8. VerifiedInv' BY <1>e, <1>d, <1>f DEF VerifiedInv, Ended, engineVars, siteVars, clientOnly
<1>9. QED BY <1>1, <1>2, <1>3, <1>4, <1>5, <1>6, <1>7, <1>8

(* A client that fails leaves its requests to nobody. *)
LEMMA ClientFailsKeeps == ASSUME RouterInv, ClientFails PROVE RouterInv'
<1> USE DEF RouterInv, ClientFails
<1>a. flying' = (flying \ By(flying, trial)) \cup Orphans(By(flying, trial)) BY DEF Of, By
<1>b. /\ flying' \subseteq Requests /\ IsFiniteSet(flying')
      /\ \A r \in flying' : r \in flying \/ r.by = Stray
      /\ By(flying', trial) = {} /\ Cardinality(By(flying', trial)) = 0
  <2>1. trial # Stray BY JobNumbers DEF Types
  <2>2. By(flying, trial) \subseteq flying BY DEF By
  <2>3. By(flying', trial) = By(flying, trial) \ By(flying, trial)
    <3>1. flying \subseteq Requests /\ IsFiniteSet(flying) BY DEF JobInv
    <3>2. QED BY <1>a, <2>1, <2>2, <3>1, Orphaned
  <2>4. QED BY <1>a, <2>2, <2>3, Orphaned, FS_EmptySet DEF JobInv
<1>c. UNCHANGED <<truth, epp, configMap>> OBVIOUS
<1>e. PICK a \in Stages, u \in Int, w \in BOOLEAN, s \in Nat, r \in Nat : \E p :
        client = [at |-> a, until |-> u, slow |-> w, sent |-> s, rows |-> r, after |-> p]
  BY DEF ClientRec, IsClient
<1>d. PICK p : client = [at |-> a, until |-> u, slow |-> w, sent |-> s, rows |-> r, after |-> p]
  BY <1>e
<1>f. client' = [at |-> "failed", until |-> u, slow |-> w, sent |-> s,
                 rows |-> r, after |-> p]
  BY <1>d
<1>1. ClientRec'
  <2>1. "failed" \in Stages
    BY <1>e DEF Stages, Ended, Timed, Untimed
  <2>2. IsClient([at |-> "failed", until |-> u, slow |-> w, sent |-> s, rows |-> r, after |-> p])
    BY <1>e, <2>1, ClientMade
  <2>3. QED BY <1>f, <2>2 DEF ClientRec
<1>2. Types' BY <1>b, <1>c, <1>e, <1>d, <1>f DEF Types, siteVars, clientOnly
<1>3. TruthInv'
  <2>1. client'.rows = client.rows BY <1>d, <1>f
  <2>2. UNCHANGED <<truth, place, trial>> BY <1>c DEF clientOnly
  <2>3. By(flying', trial') = {} BY <1>b, <2>2
  <2>4. place \in Given /\ client.rows > 0 => truth[trial].under # {} BY DEF TruthInv
  <2>5. QED BY <2>1, <2>2, <2>3, <2>4 DEF TruthInv
<1>4. ClockInv' BY <1>b, <1>c, <1>e, <1>d, <1>f DEF ClockInv, Timed, clientOnly
<1>5. JobInv'
  <2>1. client.at \notin {"none", "ok"} /\ UNCHANGED <<place, trial>> BY DEF Ended, clientOnly
  <2>2. place \in {"wait", "exit", "preserve", "ended"} BY <2>1 DEF JobInv
  <2>3. Stray <= trial BY JobNumbers DEF Types, Stray
  <2>4. By(flying', trial') = {} BY <1>b, <2>1
  <2>5. QED BY <1>b, <2>1, <2>2, <2>3, <2>4 DEF JobInv
<1>6. CountInv'
  <2>1. /\ client.sent = s /\ client.rows = r /\ client.at # "ok"
        /\ client'.at = "failed" /\ client'.sent = s /\ client'.rows = r
    BY <1>d, <1>f DEF Ended
  <2>2. r <= s BY <1>e, <2>1, InFlight DEF CountInv
  <2>3. QED BY <1>b, <1>e, <2>1, <2>2 DEF CountInv, clientOnly, Job
<1>7. PolicyInv' BY <1>b, <1>c, <1>e, <1>d, <1>f DEF PolicyInv, siteVars, clientOnly, Job
<1>8. VerifiedInv' BY VerifiedStays DEF clientOnly, siteVars, Ended
<1>9. QED BY <1>1, <1>2, <1>3, <1>4, <1>5, <1>6, <1>7, <1>8

-----------------------------------------------------------------------------
(* Steps of the engines, of the picker and of the clock *)

(* An answer is one request less and one row more. *)
LEMMA AnswerKeeps == ASSUME RouterInv, NEW r \in flying, Answer(r) PROVE RouterInv'
<1> USE DEF RouterInv, Answer
<1>a. flying' = flying \ {r} /\ r.to \in Decoder BY DEF Finish, JobInv, Requests
<1>b. /\ flying' \subseteq flying /\ IsFiniteSet(flying')
      /\ By(flying', trial) \subseteq By(flying, trial)
      /\ Cardinality(By(flying', trial)) =
           IF r.by = trial THEN Cardinality(By(flying, trial)) - 1
                           ELSE Cardinality(By(flying, trial))
      /\ r.by = trial => By(flying, trial) # {}
  <2>1. IsFiniteSet(flying) BY DEF JobInv
  <2>2. /\ IsFiniteSet(flying') /\ By(flying, r.by) # {}
        /\ Cardinality(By(flying', r.by)) = Cardinality(By(flying, r.by)) - 1
        /\ \A j : By(flying', j) \subseteq By(flying, j)
        /\ \A j : j # r.by => By(flying', j) = By(flying, j)
    BY <1>a, <2>1, Answered
  <2>3. QED BY <1>a, <2>2
<1>c. /\ DOMAIN truth' = Jobs /\ UNCHANGED <<epp, configMap>>
      /\ \A k \in Jobs : truth'[k].under = truth[k].under
      /\ \A k \in Jobs : \E m, b, s, u :
           truth'[k] = [moved |-> m, bad |-> b, served |-> s, under |-> u]
  <2>1. PICK o \in Outcome :
          truth' = [k \in Jobs |->
                      IF k = r.by
                      THEN [truth[k] EXCEPT !.moved[r.to] = @ + o.good, !.bad = @ + o.bad]
                      ELSE truth[k]]
    BY DEF Finish, TruthInv
  <2>2. ASSUME NEW k \in Jobs
        PROVE  /\ truth'[k].under = truth[k].under
               /\ \E m, b, s, u : truth'[k] = [moved |-> m, bad |-> b, served |-> s, under |-> u]
    <3>1. PICK m, b, s, u : truth[k] = [moved |-> m, bad |-> b, served |-> s, under |-> u]
      BY DEF TruthInv
    <3>2. CASE k = r.by
      <4>1. truth'[k] = [[moved |-> m, bad |-> b, served |-> s, under |-> u]
                           EXCEPT !.moved[r.to] = @ + o.good, !.bad = @ + o.bad]
        BY <2>1, <3>1, <3>2
      <4>2. QED BY <3>1, <4>1
    <3>3. QED BY <2>1, <3>1, <3>2
  <2>3. QED BY <2>1, <2>2 DEF Finish
<1>e. PICK a \in Stages, u \in Int, w \in BOOLEAN, s \in Nat, t \in Nat : \E p :
        client = [at |-> a, until |-> u, slow |-> w, sent |-> s, rows |-> t, after |-> p]
  BY DEF ClientRec, IsClient
<1>d. PICK p : client = [at |-> a, until |-> u, slow |-> w, sent |-> s, rows |-> t, after |-> p]
  BY <1>e
<1>f. client' = [at |-> a, until |-> u, slow |-> w, sent |-> s,
                 rows |-> IF r.by = trial THEN t + 1 ELSE t, after |-> p]
  BY <1>d
<1>1. ClientRec'
  <2>1. (IF r.by = trial THEN t + 1 ELSE t) \in Nat
    BY <1>e DEF Stages, Ended, Timed, Untimed
  <2>2. IsClient([at |-> a, until |-> u, slow |-> w,
                 sent |-> s, rows |-> IF r.by = trial THEN t + 1 ELSE t, after |-> p])
    BY <1>e, <2>1, ClientMade
  <2>3. QED BY <1>f, <2>2 DEF ClientRec
<1>2. Types'
  <2>1. log' \in [visible : [Decoder -> Nat], hidden : [Decoder -> Nat]]
    <3>1. CASE r.by = trial
      <4>1. PICK v \in [Decoder -> Nat], h \in [Decoder -> Nat] :
              log = [visible |-> v, hidden |-> h]
        BY DEF Types
      <4>2. log' = [visible |-> v, hidden |-> [h EXCEPT ![r.to] = @ + 1]] BY <3>1, <4>1
      <4>3. [h EXCEPT ![r.to] = @ + 1] \in [Decoder -> Nat] BY <1>a, <4>1
      <4>4. QED BY <4>1, <4>2, <4>3
    <3>2. CASE r.by # trial BY <3>2 DEF Types
    <3>3. QED BY <3>1, <3>2
  <2>2. QED BY <1>c, <2>1 DEF Types, siteVars
<1>3. TruthInv' BY <1>b, <1>c, <1>e, <1>d, <1>f DEF TruthInv, Given, Types
<1>4. ClockInv' BY <1>b, <1>c, <1>e, <1>d, <1>f DEF ClockInv, Timed, siteVars
<1>5. JobInv' BY <1>b, <1>c, <1>e, <1>d, <1>f DEF JobInv, Stray, siteVars
<1>6. CountInv'
  <2> DEFINE C == Cardinality(By(flying, trial))
             n == IF r.by = trial THEN 1 ELSE 0
  <2>1. C \in Nat /\ Cardinality(By(flying', trial)) = C - n BY <1>b, InFlight
  <2>2. /\ client.at = a /\ client.sent = s /\ client.rows = t
        /\ client'.at = a /\ client'.sent = s /\ client'.rows = t + n
    BY <1>d, <1>f
  <2>3. t + C <= s BY <2>2 DEF CountInv
  <2>4. r.by = trial => a \in {"bench", "killing", "answer"} BY <1>b, <2>2 DEF JobInv
  <2>5. place \in {"settle", "collect", "join"} => a = "ok" BY <2>2 DEF JobInv
  <2>6. \A d \in Decoder : log'.visible[d] + log'.hidden[d] <= t + n
    <3>1. \A d \in Decoder : log.visible[d] + log.hidden[d] <= t BY <2>2 DEF CountInv
    <3>2. CASE r.by = trial
      <4>1. PICK v \in [Decoder -> Nat], h \in [Decoder -> Nat] :
              log = [visible |-> v, hidden |-> h]
        BY DEF Types
      <4>2. log' = [visible |-> v, hidden |-> [h EXCEPT ![r.to] = @ + 1]] BY <3>2, <4>1
      <4>3. QED BY <1>e, <3>1, <3>2, <4>1, <4>2
    <3>3. CASE r.by # trial BY <3>1, <3>3, <1>e
    <3>4. QED BY <3>2, <3>3
  <2>7. t + n + (C - n) <= s BY <2>1, <2>3, <1>e
  <2> HIDE DEF C, n
  <2>8. UNCHANGED <<place, trial>> OBVIOUS
  <2>9. t + n + Cardinality(By(flying', trial')) <= s BY <2>1, <2>7, <2>8
  <2>10. CASE r.by = trial
    BY <2>2, <2>4, <2>6, <2>8, <2>9, <2>10 DEF CountInv, Job
  <2>11. CASE r.by # trial
    <3>1. n = 0 BY <2>11 DEF n
    <3>2. QED BY <1>e, <2>2, <2>6, <2>8, <2>9, <3>1 DEF CountInv, Job
  <2>12. QED BY <2>10, <2>11
<1>7. PolicyInv' BY <1>b, <1>c, <1>e, <1>d, <1>f DEF PolicyInv, Job, siteVars, Types
<1>8. VerifiedInv'
  <2>1. \A v \in verified : truth'[v.trial].under = truth[v.trial].under
    BY <1>c, JobNumbers DEF VerifiedInv, Types
  <2>2. client'.at = client.at BY <1>d, <1>f
  <2>3. QED BY <2>1, <2>2 DEF VerifiedInv, siteVars
<1>9. QED BY <1>1, <1>2, <1>3, <1>4, <1>5, <1>6, <1>7, <1>8

(* A dead engine loses requests and adds none. *)
LEMMA EngineDiesKeeps == ASSUME RouterInv, NEW d \in Decoder, EngineDies(d) PROVE RouterInv'
<1> USE DEF RouterInv, EngineDies
<1>a. flying' \subseteq flying OBVIOUS
<1>b. /\ IsFiniteSet(flying') /\ By(flying', trial) \subseteq By(flying, trial)
      /\ Cardinality(By(flying', trial)) \in Nat
      /\ Cardinality(By(flying', trial)) <= Cardinality(By(flying, trial))
  BY <1>a, Lost DEF JobInv
<1>c. UNCHANGED <<truth, epp, configMap>> OBVIOUS
<1>1. ClientRec' BY <1>b, <1>c DEF ClientRec, jobVars, Ended
<1>2. Types'
  <2>1. incidents' \in 0..MaxIncidents /\ retries' \in 0..incidents' BY Numbers DEF Types
  <2>2. QED BY <2>1 DEF Types, jobVars
<1>3. TruthInv' BY <1>b, <1>c DEF TruthInv, Given, jobVars
<1>4. ClockInv' BY <1>b, <1>c DEF ClockInv, jobVars, Timed
<1>5. JobInv' BY <1>b, <1>c DEF JobInv, Stray, jobVars
<1>6. CountInv'
  <2>1. client.rows + Cardinality(By(flying', trial)) <= client.sent
    BY <1>b, ClientFields, InFlight DEF CountInv
  <2>2. QED BY <2>1 DEF CountInv, Job, jobVars
<1>7. PolicyInv' BY <1>b, <1>c DEF PolicyInv, jobVars, Job
<1>8. VerifiedInv' BY <1>b, <1>c DEF VerifiedInv, jobVars, Ended
<1>9. QED BY <1>1, <1>2, <1>3, <1>4, <1>5, <1>6, <1>7, <1>8

(* A page shows more of what is done. *)
LEMMA PageMovesKeeps == ASSUME RouterInv, NEW d \in Decoder, PageMoves(d) PROVE RouterInv'
<1> USE DEF RouterInv, PageMoves
<1>1. ClientRec' BY DEF ClientRec, jobVars, siteVars
<1>2. Types' BY DEF Types, jobVars, siteVars, Report
<1>3. TruthInv' BY DEF TruthInv, jobVars, siteVars, Report, Given
<1>4. ClockInv' BY DEF ClockInv, jobVars, Report
<1>5. JobInv' BY DEF JobInv, jobVars, Report
<1>6. CountInv' BY DEF CountInv, jobVars, Report, Job
<1>7. PolicyInv' BY DEF PolicyInv, jobVars, siteVars, Report, Job
<1>8. VerifiedInv' BY DEF VerifiedInv, jobVars, siteVars, Report, Ended
<1>9. QED BY <1>1, <1>2, <1>3, <1>4, <1>5, <1>6, <1>7, <1>8

(* Rows become visible, and none are added. *)
LEMMA LogRowsKeeps == ASSUME RouterInv, LogRows PROVE RouterInv'
<1> USE DEF RouterInv, LogRows
<1>1. ClientRec' BY DEF ClientRec, engineVars, siteVars
<1>2. Types'
  <2>1. /\ [d \in Decoder |-> log.visible[d] + log.hidden[d]] \in [Decoder -> Nat]
        /\ NoRows \in [Decoder -> Nat]
    BY DEF Types, NoRows
  <2>2. log' \in [visible : [Decoder -> Nat], hidden : [Decoder -> Nat]] BY <2>1
  <2>3. QED BY <2>2 DEF Types, engineVars, siteVars
<1>3. TruthInv' BY DEF TruthInv, engineVars, siteVars
<1>4. ClockInv' BY DEF ClockInv, engineVars, siteVars
<1>5. JobInv' BY DEF JobInv, engineVars, siteVars
<1>6. CountInv' BY DEF CountInv, Job, engineVars, NoRows, Types
<1>7. PolicyInv' BY DEF PolicyInv, jobVars, engineVars, siteVars, Given, Job
<1>8. VerifiedInv' BY DEF VerifiedInv, engineVars, siteVars, Ended
<1>9. QED BY <1>1, <1>2, <1>3, <1>4, <1>5, <1>6, <1>7, <1>8

(* With the Pod go its connections and its log. *)
LEMMA EppReplacedKeeps == ASSUME RouterInv, EppReplaced PROVE RouterInv'
<1> USE DEF RouterInv, EppReplaced
<1>a. flying' = (flying \ flying) \cup Orphans(flying) OBVIOUS
<1>b. /\ flying' \subseteq Requests /\ IsFiniteSet(flying')
      /\ \A r \in flying' : r \in flying \/ r.by = Stray
      /\ By(flying', trial) = {} /\ Cardinality(By(flying', trial)) = 0
  <2>1. trial # Stray BY JobNumbers DEF Types
  <2>2. By(flying, trial) \subseteq flying BY DEF By
  <2>3. By(flying', trial) = By(flying, trial) \ flying
    BY <1>a, <2>1, Orphaned DEF JobInv
  <2>4. QED BY <1>a, <2>2, <2>3, Orphaned, FS_EmptySet DEF JobInv
<1>c. UNCHANGED <<truth, configMap>> OBVIOUS
<1>1. ClientRec' BY <1>b, <1>c DEF ClientRec, Ended, Timed
<1>2. Types'
  <2>1. incidents' \in 0..MaxIncidents /\ retries' \in 0..incidents' BY Numbers DEF Types
  <2>2. log' \in [visible : [Decoder -> Nat], hidden : [Decoder -> Nat]] BY DEF NewLog, NoRows
  <2>3. QED BY <2>1, <2>2 DEF Types
<1>3. TruthInv' BY <1>b, <1>c DEF TruthInv, Given
<1>4. ClockInv' BY <1>b, <1>c DEF ClockInv, Timed
<1>5. JobInv' BY <1>b, <1>c, JobNumbers DEF JobInv, Stray, Types
<1>6. CountInv'
  <2>1. client.rows <= client.sent BY ClientFields, InFlight DEF CountInv
  <2>2. \A d \in Decoder : log'.visible[d] = 0 /\ log'.hidden[d] = 0 BY DEF NewLog, NoRows
  <2>3. QED BY <1>b, <2>1, <2>2, ClientFields DEF CountInv, Job
<1>7. PolicyInv' BY <1>b, <1>c DEF PolicyInv, Given, Job
<1>8. VerifiedInv' BY <1>b, <1>c DEF VerifiedInv, Ended
<1>9. QED BY <1>1, <1>2, <1>3, <1>4, <1>5, <1>6, <1>7, <1>8

(* The container loads what the ConfigMap says. *)
LEMMA EppRestartsKeeps == ASSUME RouterInv, EppRestarts PROVE RouterInv'
<1> USE DEF RouterInv, EppRestarts
<1>1. ClientRec' BY DEF ClientRec, jobVars, RestartEpp
<1>2. Types'
  <2>1. incidents' \in 0..MaxIncidents /\ retries' \in 0..incidents' BY Numbers DEF Types
  <2>2. QED BY <2>1 DEF Types, jobVars, RestartEpp
<1>3. TruthInv' BY DEF TruthInv, jobVars, RestartEpp
<1>4. ClockInv' BY DEF ClockInv, jobVars, RestartEpp
<1>5. JobInv' BY DEF JobInv, jobVars, RestartEpp
<1>6. CountInv' BY DEF CountInv, jobVars, RestartEpp, Job
<1>7. PolicyInv' BY DEF PolicyInv, Given, Job, jobVars, RestartEpp
<1>8. VerifiedInv' BY DEF VerifiedInv, jobVars, RestartEpp, Ended
<1>9. QED BY <1>1, <1>2, <1>3, <1>4, <1>5, <1>6, <1>7, <1>8

(* No time passes beyond what the client still needs. *)
LEMMA TickKeeps == ASSUME RouterInv, Tick PROVE RouterInv'
<1> USE DEF RouterInv, Tick
<1>1. ClientRec' BY DEF ClientRec, engineVars, jobVars
<1>2. Types' BY DEF Types, engineVars, jobVars, siteVars
<1>3. TruthInv' BY DEF TruthInv, engineVars, jobVars, siteVars, Given
<1>4. ClockInv' BY Numbers, ClientFields DEF ClockInv, Timed, jobVars
<1>5. JobInv' BY DEF JobInv, engineVars, jobVars
<1>6. CountInv' BY DEF CountInv, engineVars, jobVars, Job
<1>7. PolicyInv' BY DEF PolicyInv, engineVars, jobVars, siteVars, Job
<1>8. VerifiedInv' BY DEF VerifiedInv, engineVars, jobVars, siteVars, Ended
<1>9. QED BY <1>1, <1>2, <1>3, <1>4, <1>5, <1>6, <1>7, <1>8

-----------------------------------------------------------------------------
(* Before the first job nothing is sent. *)
LEMMA RouterInitKeeps == RouterInit => RouterInv
<1> SUFFICES ASSUME RouterInit PROVE RouterInv OBVIOUS
<1> USE DEF RouterInit, InitEngines
<1>1. \A k : By(flying, k) = {} BY DEF By
<1>a. place = "admit" /\ trial = 1 /\ routed = FALSE /\ left = Horizon /\ verified = {}
  OBVIOUS
<1>b. client = [at |-> "none", until |-> 0, slow |-> FALSE,
                sent |-> 0, rows |-> 0, after |-> None]
  BY DEF NoClient
<1>c. log = [visible |-> [d \in Decoder |-> 0], hidden |-> [d \in Decoder |-> 0]]
  BY DEF NewLog, NoRows
<1>2. ClientRec
  <2>1. "none" \in Stages /\ 0 \in Int /\ 0 \in Nat BY DEF Stages, Ended
  <2>2. IsClient([at |-> "none", until |-> 0, slow |-> FALSE, sent |-> 0, rows |-> 0,
                  after |-> None])
    BY <2>1, ClientMade
  <2>3. QED BY <1>b, <2>2 DEF ClientRec
<1>3. Types
  <2>1. [d \in Decoder |-> 0] \in [Decoder -> Nat] OBVIOUS
  <2>2. log \in [visible : [Decoder -> Nat], hidden : [Decoder -> Nat]] BY <1>c, <2>1
  <2>3. incidents \in 0..MaxIncidents /\ retries \in 0..incidents BY Numbers
  <2>4. QED BY <1>a, <2>2, <2>3, JobNumbers DEF Types, Places
<1>4. TruthInv BY <1>1, JobNumbers DEF TruthInv, Untouched, Given
<1>5. ClockInv BY Numbers DEF ClockInv, NoClient, Timed
<1>6. JobInv BY <1>1, FS_EmptySet DEF JobInv, NoClient
<1>7. CountInv
  <2>1. \A d \in Decoder : log.visible[d] = 0 /\ log.hidden[d] = 0 BY <1>c
  <2>2. Cardinality(By(flying, trial)) = 0 BY <1>1, FS_EmptySet
  <2>3. Job.size \in Nat BY JobNumbers DEF Job
  <2>4. client.at = "none" /\ client.sent = 0 /\ client.rows = 0 BY <1>b
  <2> HIDE DEF RouterInit, InitEngines
  <2>5. QED BY <1>a, <2>1, <2>2, <2>3, <2>4 DEF CountInv, Given
<1>8. PolicyInv
  <2>1. client.at = "none" BY <1>b
  <2>2. QED BY <1>a, <2>1, JobNumbers DEF PolicyInv, Given, Job
<1>9. VerifiedInv BY DEF VerifiedInv
<1>10. QED BY <1>2, <1>3, <1>4, <1>5, <1>6, <1>7, <1>8, <1>9 DEF RouterInv

(* Nothing but the listed steps changes the state. *)
LEMMA StutterKeeps == ASSUME RouterInv, UNCHANGED routerVars PROVE RouterInv'
<1> USE DEF RouterInv, routerVars, engineVars
<1>1. ClientRec' BY DEF ClientRec
<1>2. Types' BY DEF Types
<1>3. TruthInv' BY DEF TruthInv
<1>4. ClockInv' BY DEF ClockInv
<1>5. JobInv' BY DEF JobInv
<1>6. CountInv' BY DEF CountInv, Job
<1>7. PolicyInv' BY DEF PolicyInv, Job
<1>8. VerifiedInv' BY DEF VerifiedInv
<1>9. QED BY <1>1, <1>2, <1>3, <1>4, <1>5, <1>6, <1>7, <1>8

(* What the controller does. *)
LEMMA ControllingKeeps == ASSUME RouterInv, Controlling PROVE RouterInv'
BY StartJobKeeps, LiveIdentityKeeps, SeeExitKeeps, DrainKeeps, CollectKeeps,
   VerifyTrialKeeps, ApplyPickerKeeps, RolloutRestartKeeps, WaitDiscoveryKeeps,
   WarmupBeforeKeeps, WarmupRequestKeeps, WarmupDoneKeeps, WarmupTimeoutKeeps,
   FinalCollectKeeps, AbortKeeps, PreserveKeeps
DEF Controlling

(* What the client does. *)
LEMMA BenchmarkKeeps == ASSUME RouterInv, Benchmark PROVE RouterInv'
BY ClientStartKeeps, ClientReadsKeeps, ClientBeginsKeeps, ClientWaitsOnKeeps,
   ClientSendsKeeps, ClientReportedKeeps, ClientCountsKeeps, ClientInterruptsKeeps,
   ClientFailsKeeps, QualifyAsksKeeps, QualifyAnsweredKeeps, QualifyCountsKeeps
DEF Benchmark

(* What the engines and the picker do. *)
LEMMA SurroundingsKeep == ASSUME RouterInv, Surroundings PROVE RouterInv'
BY AnswerKeeps, EngineDiesKeeps, PageMovesKeeps, LogRowsKeeps, EppReplacedKeeps,
   EppRestartsKeeps
DEF Surroundings

(* The strengthened invariant holds in every reachable state. *)
THEOREM RouterInvariance == RouterSpec => []RouterInv
<1>1. RouterInv /\ [RouterNext]_routerVars => RouterInv'
  BY StutterKeeps, ControllingKeeps, BenchmarkKeeps, SurroundingsKeep, TickKeeps
  DEF RouterNext
<1>2. QED BY RouterInitKeeps, <1>1, PTL DEF RouterSpec

(* Answers are counted no more often than requests are sent, and requests  *)
(* are sent no more often than the job says, whoever is replaced or lost;  *)
(* so a verified trial routed no more requests to a decoder than it has.   *)
THEOREM RouterTypeCorrect == RouterSpec => []RouterTypeOK
<1>1. RouterInv => RouterTypeOK
  <2> SUFFICES ASSUME RouterInv PROVE RouterTypeOK OBVIOUS
  <2> USE DEF RouterInv
  <2>1. client.rows \in 0..client.sent
    BY InFlight, ClientFields DEF CountInv
  <2>2. client.at # "ok" => client.sent \in 0..Job.size
    BY ClientFields DEF CountInv, Types, Job
  <2>3. \A v \in verified : v.trial \in Jobs /\ v.routes \in [Decoder -> 0..Trials[v.trial].size]
    BY JobNumbers DEF VerifiedInv, Types
  <2>4. QED
    BY <2>1, <2>2, <2>3, ClientFields
    DEF RouterTypeOK, Types, ClockInv, JobInv, Requests, Stages
<1>2. QED BY <1>1, RouterInvariance, PTL

(* Whatever trial is admitted last, and even if its controller gives it up, *)
(* no benchmark is running any more when the deadline starts deletion, if   *)
(* the pages before it were read within ReadTime.                           *)
THEOREM NoneIsCutOff == RouterSpec => []NoneCutOff
<1>1. RouterInv => NoneCutOff
  BY Numbers, ClientFields DEF RouterInv, ClockInv, Timed, NoneCutOff
<1>2. QED BY <1>1, RouterInvariance, PTL

(* A verified trial ran under the policy it is reported for, from its      *)
(* first to its last request.                                              *)
THEOREM PolicyIsReported == RouterSpec => []UnderPolicy
<1>1. RouterInv => UnderPolicy BY DEF RouterInv, VerifiedInv, UnderPolicy
<1>2. QED BY <1>1, RouterInvariance, PTL

-----------------------------------------------------------------------------
(* What a verified trial says of its requests *)

Transfers == [good : Nat, bad : Nat]

(* Answers that the log has or will have: of a decoder, and of all. *)
LoggedAt(l, d) == l.visible[d] + l.hidden[d]
Logged(l)      == SumFunction([d \in Decoder |-> LoggedAt(l, d)])

(* No request of the job is lost, and the log has been there for them all. *)
Whole ==
  /\ Logged(log) = client.rows
  /\ client.rows + Cardinality(By(flying, trial)) = client.sent

(* Nothing is in the engines, and the pages show all that was done. *)
Quiet == flying = {} /\ shown = done

(* What the engines count for themselves, and for whom they work. *)
EngineInv ==
  /\ done \in [Decoder -> Transfers] /\ shown \in [Decoder -> Transfers]
  /\ \A d \in Decoder : shown[d].good <= done[d].good /\ shown[d].bad <= done[d].bad
  /\ epp.born \in Nat
  /\ \A k \in Jobs : truth[k].moved \in [Decoder -> Nat] /\ truth[k].bad \in Nat
  /\ \A r \in flying : r.by \in {trial, Stray, Warm}

(* No more rows than answers, and a trial sends nothing before it begins. *)
LogInv ==
  /\ Logged(log) <= client.rows
  /\ client.at = "start" \/ (client.at \in {"idle", "reading"} /\ Job.mode # "qualify")
       => client.sent = 0

(* Only a request that was received leaves a trace. *)
ServedInv ==
  /\ \A k \in Jobs : truth[k].served = {} => truth[k] = Untouched
  /\ \A k \in Jobs : truth[k].under # {} => truth[k].served # {}
  /\ \A k \in Jobs : k > trial => truth[k].served = {}
  /\ place \notin Given \cup {"preserve", "final", "ended"} => truth[trial].served = {}
  /\ place \in Given /\ client.sent = 0 => truth[trial].served = {}

(* As long as nothing has happened since the job was launched, its requests *)
(* have met the containers of its launch.  After the last look, a picker    *)
(* that restarts is noted, and one that is replaced takes the log with it.  *)
PickerInv ==
  place \in Given =>
    /\ who.decoders = born /\ who.epp \in 0..epp.born
    /\ ~restarted /\ Who = who => truth[trial].served \subseteq {who}
    /\ place # "wait" /\ ~late /\ Whole => truth[trial].served \subseteq {Who}

(* At most one request is there, or its transfers, as yet unseen or seen. *)
Warming(done0, shown0, flying0) ==
  \E d \in Decoder :
    /\ \A e \in Decoder \ {d} : done0[e] = NoTransfers /\ shown0[e] = NoTransfers
    /\ shown0[d] \in {NoTransfers, done0[d]}
    /\ \E b : flying0 \subseteq {[by |-> b, to |-> d]}
    /\ flying0 # {} => done0[d] = NoTransfers

(* Unless a warmup was retried, each job finds the engines at rest, and a  *)
(* qualification does so for each of its requests.                         *)
QuietInv ==
  retries = 0 =>
    /\ place \in {"admit", "drain", "apply", "restart", "ready", "warm", "ask", "calm"} => Quiet
    /\ place = "ask" => \A d \in Decoder : done[d] = NoTransfers
    /\ place = "warming" => Warming(done, shown, flying)
    /\ place \in Given /\ client.at \in {"start", "idle", "reading", "ask"} => Quiet
    /\ place \in Given /\ client.at = "ask" => \A d \in Decoder : done[d] = NoTransfers
    /\ place \in Given /\ client.at \in {"answer", "settle"} =>
         Job.pin \in Decoder /\ Warming(done, shown, flying)
    /\ place \in Given /\ client.at = "ok" /\ Job.mode = "qualify" => Quiet

(* Then all that the engines count is the trial's.  A decoder without failed *)
(* transfers has made no more of them than it has answered requests; and   *)
(* once its page shows one for each, there are no more to come.            *)
MovedInv ==
  retries = 0 /\ place \in Given /\ Whole /\ Job.mode # "qualify"
      /\ client.at \in {"bench", "after", "count", "ok"} =>
    /\ \A r \in flying : r.by = trial
    /\ (\A d \in Decoder : done[d].bad = 0) => truth[trial].bad = 0
    /\ \A d \in Decoder :
         /\ truth[trial].moved[d] = done[d].good
         /\ done[d].bad = 0 => done[d].good <= LoggedAt(log, d)
         /\ shown[d].bad = 0 => shown[d].good <= LoggedAt(log, d)
         /\ shown[d].bad = 0 /\ shown[d].good >= LoggedAt(log, d) => shown[d] = done[d]
         /\ client.at = "ok" /\ client.after[d].bad = 0
              /\ client.after[d].good >= LoggedAt(log, d) =>
                shown[d] = done[d] /\ client.after[d] = done[d]

(* What was verified of the requests of a trial stays so. *)
ReportedInv ==
  \A v \in verified :
    /\ ~v.late => Cardinality(truth[v.trial].served) = 1
    /\ Trials[v.trial].pin # None => v.routes[Trials[v.trial].pin] = Trials[v.trial].size
    /\ retries = 0 => truth[v.trial].moved = v.routes /\ truth[v.trial].bad = 0

AccountInv ==
  /\ EngineInv /\ LogInv /\ ServedInv /\ PickerInv /\ QuietInv /\ MovedInv /\ ReportedInv

(* Two decoders are not infinitely many, and what a request may do. *)
LEMMA Outcomes ==
  /\ IsFiniteSet(Decoder)
  /\ \A o \in Outcome : o.good \in Nat /\ o.bad \in Nat /\ (o.bad = 0 => o.good <= 1)
  /\ NoTransfers \in Transfers /\ NoTransfers.good = 0 /\ NoTransfers.bad = 0
BY TransferAssumption DEF TransferAssumption, NoTransfers, Transfers

(* The sum of terms that are numbers. *)
LEMMA DecoderSum ==
  ASSUME NEW f, f \in [Decoder -> Nat]
  PROVE  SumFunction(f) = SumOver(f, Decoder) /\ SumFunction(f) \in Nat
<1>1. DOMAIN f = Decoder OBVIOUS
<1>2. SumFunction(f) = SumOver(f, Decoder) BY <1>1, FunIsSum
<1>3. SumOver(f, Decoder) \in Nat BY Outcomes, SumIsNat
<1>4. QED BY <1>2, <1>3

(* If all the terms are zero, so is their sum. *)
LEMMA NoTerms ==
  ASSUME NEW f, f \in [Decoder -> Nat], NEW D \in SUBSET Decoder, \A d \in D : f[d] = 0
  PROVE  SumOver(f, D) = 0
<1> DEFINE G == {T \in SUBSET D : SumOver(f, T) = 0}
<1>1. IsFiniteSet(D) BY Outcomes, FS_Subset
<1>2. ASSUME NEW T \in SUBSET D, \A x \in T : T \ {x} \in G
      PROVE  T \in G
  <2>1. IsFiniteSet(T) BY <1>1, FS_Subset
  <2>2. CASE T = {} BY <2>1, <2>2, SumEquation
  <2>3. CASE T # {}
    <3>1. PICK x \in T : TRUE BY <2>3
    <3>2. SumOver(f, T) = f[x] + SumOver(f, T \ {x}) BY <2>1, SumWithout
    <3>3. QED BY <1>2, <3>1, <3>2
  <2>4. QED BY <2>2, <2>3
<1>3. SUBSET D \subseteq G
  <2> HIDE DEF G
  <2>1. QED BY <1>1, <1>2, SubsetInduction
<1>4. QED BY <1>3

(* One more of a decoder is one more of all. *)
LEMMA OneMore ==
  ASSUME NEW f, f \in [Decoder -> Nat], NEW g, g \in [Decoder -> Nat], NEW d \in Decoder,
         g[d] = f[d] + 1, \A e \in Decoder \ {d} : g[e] = f[e]
  PROVE  SumFunction(g) = SumFunction(f) + 1
<1>1. IsFiniteSet(Decoder) /\ IsFiniteSet(Decoder \ {d}) BY Outcomes, FS_Subset
<1>2. SumOver(f, Decoder) = f[d] + SumOver(f, Decoder \ {d}) BY <1>1, SumWithout
<1>3. SumOver(g, Decoder) = g[d] + SumOver(g, Decoder \ {d}) BY <1>1, SumWithout
<1>4. SumOver(g, Decoder \ {d}) = SumOver(f, Decoder \ {d}) BY <1>1, SameTerms
<1>5. SumOver(f, Decoder \ {d}) \in Nat BY <1>1, SumIsNat
<1>6. QED BY <1>2, <1>3, <1>4, <1>5, DecoderSum

(* What the log has of the answers, as one function of the decoders. *)
LEMMA LogTyped ==
  ASSUME Types
  PROVE  /\ log.visible \in [Decoder -> Nat] /\ log.hidden \in [Decoder -> Nat]
         /\ [d \in Decoder |-> LoggedAt(log, d)] \in [Decoder -> Nat]
         /\ \A d \in Decoder : LoggedAt(log, d) \in Nat
         /\ Logged(log) \in Nat
<1>1. log.visible \in [Decoder -> Nat] /\ log.hidden \in [Decoder -> Nat] BY DEF Types
<1>2. [d \in Decoder |-> LoggedAt(log, d)] \in [Decoder -> Nat] BY <1>1 DEF LoggedAt
<1>3. \A d \in Decoder : LoggedAt(log, d) \in Nat BY <1>1 DEF LoggedAt
<1>4. QED BY <1>1, <1>2, <1>3, DecoderSum DEF Logged

(* A new log has no answers. *)
LEMMA LogStarts == Logged(NewLog) = 0 /\ \A d \in Decoder : LoggedAt(NewLog, d) = 0
<1> DEFINE f == [d \in Decoder |-> LoggedAt(NewLog, d)]
<1>1. \A d \in Decoder : LoggedAt(NewLog, d) = 0 BY DEF LoggedAt, NewLog, NoRows
<1>2. f \in [Decoder -> Nat] /\ \A d \in Decoder : f[d] = 0 BY <1>1
<1> HIDE DEF f
<1>3. SumFunction(f) = 0 BY <1>2, DecoderSum, NoTerms
<1>4. QED BY <1>1, <1>3 DEF f, Logged

(* An answer is one more, whether its row can be read or not. *)
LEMMA LogGrows ==
  ASSUME Types, NEW d \in Decoder, log' = [log EXCEPT !.hidden[d] = @ + 1]
  PROVE  /\ Logged(log') = Logged(log) + 1
         /\ LoggedAt(log', d) = LoggedAt(log, d) + 1
         /\ \A e \in Decoder \ {d} : LoggedAt(log', e) = LoggedAt(log, e)
<1> DEFINE f == [e \in Decoder |-> LoggedAt(log, e)]
           g == [e \in Decoder |-> LoggedAt(log', e)]
<1>1. PICK v \in [Decoder -> Nat], h \in [Decoder -> Nat] :
        log = [visible |-> v, hidden |-> h]
  BY DEF Types
<1>2. log' = [visible |-> v, hidden |-> [h EXCEPT ![d] = @ + 1]] BY <1>1
<1>3. /\ LoggedAt(log', d) = LoggedAt(log, d) + 1
      /\ \A e \in Decoder \ {d} : LoggedAt(log', e) = LoggedAt(log, e)
  BY <1>1, <1>2 DEF LoggedAt
<1>4. f \in [Decoder -> Nat] BY LogTyped
<1>5. \A e \in Decoder : LoggedAt(log', e) \in Nat
  <2>1. \A e \in Decoder : LoggedAt(log, e) \in Nat BY LogTyped
  <2>2. QED BY <1>3, <2>1
<1>6. g \in [Decoder -> Nat] BY <1>5
<1>7. g[d] = f[d] + 1 /\ \A e \in Decoder \ {d} : g[e] = f[e] BY <1>3
<1>8. SumFunction(g) = SumFunction(f) + 1
  <2> HIDE DEF f, g
  <2>1. QED BY <1>4, <1>6, <1>7, OneMore
<1>9. QED BY <1>3, <1>8 DEF Logged

(* Rows that become readable are no more than before. *)
LEMMA LogShows ==
  ASSUME Types, LogRows
  PROVE  Logged(log') = Logged(log) /\ \A d \in Decoder : LoggedAt(log', d) = LoggedAt(log, d)
<1>1. \A d \in Decoder : log.visible[d] \in Nat /\ log.hidden[d] \in Nat BY LogTyped
<1>2. log' = [visible |-> [d \in Decoder |-> log.visible[d] + log.hidden[d]],
              hidden |-> NoRows]
  BY DEF LogRows
<1>3. \A d \in Decoder : LoggedAt(log', d) = LoggedAt(log, d)
  BY <1>1, <1>2 DEF LoggedAt, NoRows
<1>4. [d \in Decoder |-> LoggedAt(log', d)] = [d \in Decoder |-> LoggedAt(log, d)] BY <1>3
<1>5. QED BY <1>3, <1>4 DEF Logged

(* If every answer has a row that can be read, no row is hidden. *)
LEMMA AllRead ==
  ASSUME Types, Logged(log) <= SumFunction(log.visible)
  PROVE  /\ Logged(log) = SumFunction(log.visible)
         /\ \A d \in Decoder : LoggedAt(log, d) = log.visible[d]
<1> DEFINE f == [d \in Decoder |-> LoggedAt(log, d)]
<1>1. f \in [Decoder -> Nat] /\ log.visible \in [Decoder -> Nat] BY LogTyped
<1>2. \A d \in Decoder : log.visible[d] <= f[d]
  <2>1. \A d \in Decoder : log.visible[d] \in Nat /\ log.hidden[d] \in Nat BY LogTyped
  <2>2. QED BY <2>1 DEF LoggedAt
<1>3. SumOver(f, Decoder) <= SumOver(log.visible, Decoder)
  <2> HIDE DEF f
  <2>1. SumFunction(f) = SumOver(f, Decoder)
        /\ SumFunction(log.visible) = SumOver(log.visible, Decoder)
    BY <1>1, DecoderSum
  <2>2. SumFunction(f) = Logged(log) BY DEF Logged, f
  <2>3. QED BY <2>1, <2>2
<1>4. \A d \in Decoder : log.visible[d] = f[d]
  <2> HIDE DEF f
  <2>1. \A d \in Decoder : log.visible[d] \in Nat /\ f[d] \in Nat BY <1>1
  <2>2. QED BY <1>2, <1>3, <2>1, Outcomes, ForcedTerms
<1>5. f = log.visible BY <1>1, <1>4
<1>6. QED BY <1>4, <1>5 DEF Logged

(* What is there to know of every state. *)
LEMMA Known ==
  ASSUME RouterInv, EngineInv
  PROVE  /\ trial \in Jobs /\ trial \in Nat /\ trial # Stray /\ trial # Warm
         /\ Job.size \in Nat \ {0}
         /\ client.sent \in Nat /\ client.rows \in Nat
         /\ Cardinality(By(flying, trial)) \in Nat
         /\ Cardinality(By(flying, trial)) = 0 => By(flying, trial) = {}
         /\ client.rows + Cardinality(By(flying, trial)) <= client.sent
         /\ \A r \in flying : r = [by |-> r.by, to |-> r.to] /\ r.to \in Decoder
         /\ \A r \in flying : r.by \in Jobs => r.by = trial
         /\ Logged(log) \in Nat
         /\ \A d \in Decoder :
              /\ done[d] = [good |-> done[d].good, bad |-> done[d].bad]
              /\ done[d].good \in Nat /\ done[d].bad \in Nat
              /\ shown[d].good \in Nat /\ shown[d].bad \in Nat
              /\ LoggedAt(log, d) \in Nat
<1> USE DEF RouterInv
<1>1. trial \in Jobs /\ trial \in Nat /\ trial # Stray /\ trial # Warm
      /\ Job.size \in Nat \ {0}
  BY JobNumbers DEF Types, Job
<1>2. client.sent \in Nat /\ client.rows \in Nat BY ClientFields
<1>3. /\ Cardinality(By(flying, trial)) \in Nat
      /\ Cardinality(By(flying, trial)) = 0 => By(flying, trial) = {}
  BY InFlight
<1>4. client.rows + Cardinality(By(flying, trial)) <= client.sent BY DEF CountInv
<1>5. \A r \in flying : r = [by |-> r.by, to |-> r.to] /\ r.to \in Decoder
  BY DEF JobInv, Requests
<1>6. \A r \in flying : r.by \in Jobs => r.by = trial BY JobNumbers DEF EngineInv
<1>7. Logged(log) \in Nat /\ \A d \in Decoder : LoggedAt(log, d) \in Nat BY LogTyped
<1>8. \A d \in Decoder : /\ done[d] = [good |-> done[d].good, bad |-> done[d].bad]
                         /\ done[d].good \in Nat /\ done[d].bad \in Nat
                         /\ shown[d].good \in Nat /\ shown[d].bad \in Nat
  BY DEF EngineInv, Transfers
<1> HIDE DEF RouterInv
<1>9. QED BY <1>1, <1>2, <1>3, <1>4, <1>5, <1>6, <1>7, <1>8

(* Where each of its requests has its answer, no row is missing and none   *)
(* is on its way.                                                          *)
LEMMA NoneMissing ==
  ASSUME RouterInv, EngineInv, place \in Given, client.rows = Job.size
  PROVE  /\ client.sent = client.rows /\ By(flying, trial) = {}
         /\ client.rows + Cardinality(By(flying, trial)) = client.sent
<1>1. client.sent <= Job.size BY DEF RouterInv, CountInv
<1>2. QED BY <1>1, Known

(* A request of the job is noted for it, and for no other. *)
LEMMA JobReceived ==
  ASSUME RouterInv, EngineInv, NEW d \in Decoder, Receive(trial, d)
  PROVE  /\ Cardinality(By(flying', trial)) = Cardinality(By(flying, trial)) + 1
         /\ \A r \in flying' : r \in flying \/ r.by = trial
         /\ UNCHANGED <<done, shown, born, epp, configMap>>
         /\ \A k \in Jobs \ {trial} : truth'[k] = truth[k]
         /\ truth'[trial].moved = truth[trial].moved /\ truth'[trial].bad = truth[trial].bad
         /\ truth'[trial].served = truth[trial].served \cup {Who}
<1>1. /\ [by |-> trial, to |-> d] \notin flying
      /\ flying' = flying \cup {[by |-> trial, to |-> d]}
      /\ UNCHANGED <<done, shown, born, epp, configMap>>
  BY DEF Receive
<1>2. Cardinality(By(flying', trial)) = Cardinality(By(flying, trial)) + 1
  BY <1>1, Received DEF RouterInv, JobInv
<1>3. trial \in Jobs /\ DOMAIN truth = Jobs BY DEF RouterInv, Types, TruthInv
<1>4. PICK m, b, s, u : truth[trial] = [moved |-> m, bad |-> b, served |-> s, under |-> u]
  BY <1>3 DEF RouterInv, TruthInv
<1>5. truth' = [k \in Jobs |->
                  IF k = trial THEN [truth[k] EXCEPT !.served = @ \cup {Who},
                                                     !.under = @ \cup {epp.loaded}]
                               ELSE truth[k]]
  BY <1>3 DEF Receive
<1>6. truth'[trial] = [[moved |-> m, bad |-> b, served |-> s, under |-> u]
                         EXCEPT !.served = @ \cup {Who}, !.under = @ \cup {epp.loaded}]
  BY <1>3, <1>4, <1>5
<1>7. truth'[trial] = [moved |-> m, bad |-> b, served |-> s \cup {Who},
                       under |-> u \cup {epp.loaded}]
  BY <1>6
<1>8. \A k \in Jobs \ {trial} : truth'[k] = truth[k] BY <1>5
<1>9. QED BY <1>1, <1>2, <1>4, <1>7, <1>8

(* What an answered request did is counted on its decoder and for its job. *)
LEMMA JobFinished ==
  ASSUME RouterInv, EngineInv, NEW r \in flying, Finish(r)
  PROVE  /\ flying' = flying \ {r} /\ UNCHANGED <<shown, born, epp, configMap>>
         /\ done' \in [Decoder -> Transfers]
         /\ \A k \in Jobs : k # r.by => truth'[k] = truth[k]
         /\ \A k \in Jobs : truth'[k].served = truth[k].served
                            /\ truth'[k].under = truth[k].under
         /\ \A k \in Jobs : truth'[k].moved \in [Decoder -> Nat] /\ truth'[k].bad \in Nat
         /\ \E g \in Nat, h \in Nat :
              /\ h = 0 => g <= 1
              /\ done'[r.to].good = done[r.to].good + g /\ done'[r.to].bad = done[r.to].bad + h
              /\ \A d \in Decoder \ {r.to} : done'[d] = done[d]
              /\ r.by = trial =>
                   /\ truth'[trial].moved[r.to] = truth[trial].moved[r.to] + g
                   /\ truth'[trial].bad = truth[trial].bad + h
                   /\ \A d \in Decoder \ {r.to} :
                        truth'[trial].moved[d] = truth[trial].moved[d]
<1>1. flying' = flying \ {r} /\ UNCHANGED <<shown, born, epp, configMap>> BY DEF Finish
<1>2. trial \in Jobs /\ DOMAIN truth = Jobs /\ r.to \in Decoder
      /\ done \in [Decoder -> Transfers]
  BY Known DEF RouterInv, TruthInv, EngineInv
<1>3. PICK o \in Outcome :
        /\ done' = [done EXCEPT ![r.to] = Plus(@, o)]
        /\ truth' = [k \in Jobs |->
                      IF k = r.by THEN [truth[k] EXCEPT !.moved[r.to] = @ + o.good,
                                                        !.bad = @ + o.bad]
                                  ELSE truth[k]]
  BY <1>2 DEF Finish
<1>4. o.good \in Nat /\ o.bad \in Nat /\ (o.bad = 0 => o.good <= 1) BY Outcomes
<1>5. done'[r.to] = [good |-> done[r.to].good + o.good, bad |-> done[r.to].bad + o.bad]
      /\ \A d \in Decoder \ {r.to} : done'[d] = done[d]
  BY <1>2, <1>3 DEF Plus
<1>6. done' \in [Decoder -> Transfers]
  <2>1. done'[r.to] \in Transfers BY <1>4, <1>5, <1>2 DEF Transfers
  <2>2. QED BY <1>2, <1>3, <1>5, <2>1
<1>7. ASSUME NEW k \in Jobs, k = r.by
      PROVE  /\ truth'[k].served = truth[k].served /\ truth'[k].under = truth[k].under
             /\ truth'[k].moved \in [Decoder -> Nat] /\ truth'[k].bad \in Nat
             /\ truth'[k].moved[r.to] = truth[k].moved[r.to] + o.good
             /\ truth'[k].bad = truth[k].bad + o.bad
             /\ \A d \in Decoder \ {r.to} : truth'[k].moved[d] = truth[k].moved[d]
  <2>1. PICK m, b, s, u : truth[k] = [moved |-> m, bad |-> b, served |-> s, under |-> u]
    BY <1>2 DEF RouterInv, TruthInv
  <2>2. m \in [Decoder -> Nat] /\ b \in Nat BY <2>1 DEF EngineInv
  <2>3. truth'[k] = [[moved |-> m, bad |-> b, served |-> s, under |-> u]
                       EXCEPT !.moved[r.to] = @ + o.good, !.bad = @ + o.bad]
    BY <1>3, <1>7, <2>1
  <2>4. truth'[k] = [moved |-> [m EXCEPT ![r.to] = @ + o.good], bad |-> b + o.bad,
                     served |-> s, under |-> u]
    BY <2>3
  <2>5. [m EXCEPT ![r.to] = @ + o.good] \in [Decoder -> Nat] BY <1>2, <1>4, <2>2
  <2>6. b + o.bad \in Nat BY <1>4, <2>2
  <2>7. QED BY <1>2, <1>4, <2>1, <2>2, <2>4, <2>5, <2>6
<1>8. \A k \in Jobs : k # r.by => truth'[k] = truth[k] BY <1>3
<1>9. \A k \in Jobs : /\ truth'[k].served = truth[k].served
                      /\ truth'[k].under = truth[k].under
                      /\ truth'[k].moved \in [Decoder -> Nat] /\ truth'[k].bad \in Nat
  BY <1>7, <1>8 DEF EngineInv
<1>10. QED BY <1>1, <1>2, <1>4, <1>5, <1>6, <1>7, <1>8, <1>9

(* A request that is answered has what it did still to be shown. *)
LEMMA WarmingAnswered ==
  ASSUME Warming(done, shown, flying), NEW r \in flying, flying' = flying \ {r}, shown' = shown,
         \A d \in Decoder \ {r.to} : done'[d] = done[d]
  PROVE  Warming(done', shown', flying')
<1>1. PICK d \in Decoder :
        /\ \A e \in Decoder \ {d} : done[e] = NoTransfers /\ shown[e] = NoTransfers
        /\ shown[d] \in {NoTransfers, done[d]}
        /\ \E b : flying \subseteq {[by |-> b, to |-> d]}
        /\ flying # {} => done[d] = NoTransfers
  BY DEF Warming
<1>2. PICK b : flying \subseteq {[by |-> b, to |-> d]} BY <1>1
<1>3. r = [by |-> b, to |-> d] /\ flying' = {} /\ shown[d] = NoTransfers BY <1>1, <1>2
<1>4. r.to = d BY <1>3
<1>5. \A e \in Decoder \ {d} : done'[e] = NoTransfers /\ shown'[e] = NoTransfers
  BY <1>1, <1>4
<1>6. QED BY <1>3, <1>5 DEF Warming

(* Once transfers are seen, they are all there are, and the request is over. *)
LEMMA WarmingSeen ==
  ASSUME EngineInv, Warming(done, shown, flying), NEW c \in Decoder, shown[c] # NoTransfers
  PROVE  Quiet
<1>1. PICK d \in Decoder :
        /\ \A e \in Decoder \ {d} : done[e] = NoTransfers /\ shown[e] = NoTransfers
        /\ shown[d] \in {NoTransfers, done[d]}
        /\ flying # {} => done[d] = NoTransfers
  BY DEF Warming
<1>2. c = d BY <1>1
<1>3. shown[d] = done[d] /\ flying = {} BY <1>1, <1>2
<1>4. \A e \in Decoder : shown[e] = done[e] BY <1>1, <1>3
<1>5. shown = done BY <1>4 DEF EngineInv
<1>6. QED BY <1>3, <1>5 DEF Quiet

(* What was verified of other jobs stays so. *)
LEMMA ReportedStays ==
  ASSUME RouterInv, ReportedInv, verified' = verified, retries' = 0 => retries = 0,
         \A k \in Jobs : k # trial \/ client.at = "ok" => truth'[k] = truth[k]
  PROVE  ReportedInv'
<1>1. \A v \in verified : v.trial \in Jobs /\ (v.trial = trial => client.at = "ok")
  BY JobNumbers DEF RouterInv, Types, VerifiedInv
<1>2. \A v \in verified : truth'[v.trial] = truth[v.trial] BY <1>1
<1>3. QED BY <1>2 DEF ReportedInv

(* A step that takes a program from one place to the next, and no more. *)
LEMMA PlaceAccounts ==
  ASSUME RouterInv, AccountInv,
         UNCHANGED <<done, shown, born, epp, flying, truth, trial, who, log, routed, verified,
                     retries, restarted>>,
         client'.sent = client.sent /\ client'.rows = client.rows
           /\ client'.after = client.after,
         place' \in Given => place \in Given,
         place' \in Given /\ place' # "wait" /\ ~late' =>
           (place # "wait" /\ ~late) \/ (Who = who /\ ~restarted),
         place' \notin Given \cup {"preserve", "final", "ended"} =>
           place \notin Given \cup {"preserve", "final", "ended"},
         place' \in {"admit", "drain", "apply", "restart", "ready", "warm", "calm"} =>
           place \in {"admit", "drain", "apply", "restart", "ready", "warm", "calm"},
         place' \in {"ask", "warming"} => place' = place,
         client'.at = "start" => client.at = "start",
         client'.at \in {"idle", "reading"} => client.at \in {"start", "idle", "reading"},
         client'.at = "ask" => client.at = "ask",
         client'.at \in {"answer", "settle"} => client.at \in {"answer", "settle"},
         client'.at \in {"bench", "after", "count"} => client.at \in {"bench", "after", "count"},
         client'.at = "ok" => client.at = "ok"
  PROVE  AccountInv'
<1> USE DEF AccountInv
<1>w. (Whole' <=> Whole) /\ Job' = Job BY DEF Whole, Job
<1>1. EngineInv' BY DEF EngineInv
<1>2. LogInv' BY <1>w DEF LogInv
<1>3. ServedInv' BY DEF ServedInv
<1>4. PickerInv'
  <2>1. Who' = Who BY DEF Who
  <2>2. QED BY <1>w, <2>1 DEF PickerInv
<1>5. QuietInv'
  <2>1. (Quiet' <=> Quiet) /\ Job' = Job BY DEF Quiet, Job
  <2>2. QED BY <2>1 DEF QuietInv
<1>6. MovedInv' BY <1>w DEF MovedInv
<1>7. ReportedInv' BY DEF ReportedInv
<1>8. QED BY <1>1, <1>2, <1>3, <1>4, <1>5, <1>6, <1>7

-----------------------------------------------------------------------------
(* The controller keeps the accounts *)

(* A look at the containers finds those of the launch, or stops the job. *)
LEMMA LiveIdentityAccounts ==
  ASSUME RouterInv, AccountInv, LiveIdentity
  PROVE  AccountInv'
BY PlaceAccounts DEF LiveIdentity, At, lookOnly, engineVars, jobVars, Given

(* The exit status is seen after a look, or the wait goes on. *)
LEMMA SeeExitAccounts ==
  ASSUME RouterInv, AccountInv, SeeExit
  PROVE  AccountInv'
BY PlaceAccounts DEF SeeExit, At, placeOnly, engineVars, jobVars, siteVars, Given

(* A drain waits, and changes nothing but the place. *)
LEMMA DrainAccounts ==
  ASSUME RouterInv, AccountInv, NEW from, NEW to,
         <<from, to>> \in {<<"settle", "collect">>, <<"drain", "apply">>, <<"calm", "admit">>},
         Drain(from, to)
  PROVE  AccountInv'
BY PlaceAccounts DEF Drain, At, placeOnly, engineVars, jobVars, siteVars, Given

(* The ConfigMap is not yet the picker. *)
LEMMA ApplyPickerAccounts ==
  ASSUME RouterInv, AccountInv, ApplyPicker
  PROVE  AccountInv'
BY PlaceAccounts DEF ApplyPicker, At, jobVars, siteVars, Given

(* Waiting for discovery changes nothing but the place. *)
LEMMA WaitDiscoveryAccounts ==
  ASSUME RouterInv, AccountInv, WaitDiscovery
  PROVE  AccountInv'
BY PlaceAccounts DEF WaitDiscovery, At, placeOnly, engineVars, jobVars, siteVars, Given

(* The final collection changes no account. *)
LEMMA FinalCollectAccounts ==
  ASSUME RouterInv, AccountInv, FinalCollect
  PROVE  AccountInv'
BY PlaceAccounts DEF FinalCollect, At, placeOnly, engineVars, jobVars, siteVars, Given

(* A controller that gives up verifies nothing more. *)
LEMMA AbortAccounts ==
  ASSUME RouterInv, AccountInv, Abort
  PROVE  AccountInv'
BY PlaceAccounts DEF Abort, placeOnly, engineVars, jobVars, siteVars, Given

(* The last copy of the results changes no account. *)
LEMMA PreserveAccounts ==
  ASSUME RouterInv, AccountInv, Preserve
  PROVE  AccountInv'
BY PlaceAccounts DEF Preserve, placeOnly, engineVars, jobVars, siteVars, Given

(* A job starts with an empty log, and nothing received. *)
LEMMA StartJobAccounts == ASSUME RouterInv, AccountInv, StartJob PROVE AccountInv'
<1> USE DEF AccountInv
<1>1. /\ UNCHANGED <<done, shown, born, epp, flying, truth, trial, routed, verified, retries>>
      /\ place = "admit" /\ place' = "wait" /\ who' = Who /\ log' = NewLog
      /\ client'.at = "start" /\ client'.sent = 0 /\ client'.rows = 0
  BY DEF StartJob, At, engineVars, siteVars, NoClient
<1>2. EngineInv' BY <1>1 DEF EngineInv
<1>3. LogInv' BY <1>1, LogStarts DEF LogInv, Job
<1>4. truth[trial].served = {} BY <1>1 DEF ServedInv, Given
<1>5. ServedInv' BY <1>1, <1>4 DEF ServedInv
<1>6. PickerInv' BY <1>1, <1>4 DEF PickerInv, EngineInv, Who
<1>7. QuietInv' BY <1>1 DEF QuietInv, Quiet
<1>8. MovedInv' BY <1>1 DEF MovedInv
<1>9. ReportedInv' BY <1>1 DEF ReportedInv
<1>10. QED BY <1>2, <1>3, <1>5, <1>6, <1>7, <1>8, <1>9

(* The next job finds what the last one has left, which is nothing. *)
LEMMA NextJobAccounts ==
  ASSUME RouterInv, AccountInv, NextJob, place \in {"collect", "join"}, client.at = "ok",
         retries = 0 => Quiet,
         UNCHANGED <<engineVars, left, jobVars, routed, retries, dead, restarted, late,
                     incidents>>
  PROVE  /\ EngineInv' /\ LogInv' /\ ServedInv' /\ PickerInv' /\ QuietInv' /\ MovedInv'
<1> USE DEF AccountInv, engineVars, jobVars
<1>1. /\ trial \in Jobs /\ trial \in Nat /\ trial' \in {trial, trial + 1} /\ trial' \in Jobs
      /\ place' \in {"admit", "drain", "final", "ended"}
      /\ trial' = trial => place' \in {"final", "ended"}
  BY Known, NextJobs DEF RouterInv, Types
<1>2. EngineInv'
  <2>1. By(flying, trial) = {} BY DEF RouterInv, JobInv
  <2>2. \A r \in flying : r.by \in {Stray, Warm} BY <2>1 DEF EngineInv, By
  <2>3. QED BY <2>2 DEF EngineInv
<1>3. LogInv' BY <1>1 DEF LogInv
<1>4. ServedInv'
  <2>1. \A k \in Jobs : k > trial' => k > trial BY <1>1, JobNumbers
  <2>2. trial' # trial => trial' > trial BY <1>1
  <2>3. QED BY <1>1, <2>1, <2>2 DEF ServedInv, Given
<1>5. PickerInv' BY <1>1 DEF PickerInv, Given
<1>6. QuietInv' BY <1>1 DEF QuietInv, Quiet, Given
<1>7. MovedInv' BY <1>1 DEF MovedInv, Given
<1>8. QED BY <1>2, <1>3, <1>4, <1>5, <1>6, <1>7

(* A qualification leaves the engines at rest, as its requests were counted *)
(* one by one.                                                              *)
LEMMA CollectAccounts == ASSUME RouterInv, AccountInv, Collect PROVE AccountInv'
<1>1. place = "collect" /\ client.at = "ok" BY DEF Collect, At, Archived
<1>2. CASE Job.mode = "qualify"
  <2>1. NextJob /\ UNCHANGED <<engineVars, left, jobVars, siteVars>>
    BY <1>2 DEF Collect, Qualifying
  <2>2. retries = 0 => Quiet BY <1>1, <1>2 DEF AccountInv, QuietInv, Given
  <2>3. ReportedInv' BY <2>1 DEF AccountInv, ReportedInv, engineVars, siteVars
  <2>4. QED BY <1>1, <2>1, <2>2, <2>3, NextJobAccounts DEF AccountInv, siteVars
<1>3. CASE Job.mode # "qualify"
  BY <1>1, <1>3, PlaceAccounts DEF Collect, Qualifying, engineVars, jobVars, siteVars, Given
<1>4. QED BY <1>2, <1>3

(* A trial is verified when every request has its row, and each decoder as *)
(* many transfers as rows, none of them failed.                            *)
LEMMA VerifyTrialAccounts == ASSUME RouterInv, AccountInv, VerifyTrial PROVE AccountInv'
<1> USE DEF AccountInv
<1>1. /\ place = "join" /\ place \in Given /\ client.at = "ok" /\ NextJob
      /\ SumFunction(log.visible) = Job.size
      /\ verified' = verified \cup {[trial |-> trial, routes |-> log.visible, late |-> late]}
      /\ UNCHANGED <<engineVars, left, jobVars, routed, retries, dead, restarted, late,
                     incidents>>
  BY DEF VerifyTrial, At, Joined, Given, RouterInv, JobInv
<1>2. client.rows = Job.size /\ Job.mode # "qualify"
  BY <1>1 DEF RouterInv, CountInv, PolicyInv
<1>3. By(flying, trial) = {} /\ client.rows + Cardinality(By(flying, trial)) = client.sent
  BY <1>1, <1>2, NoneMissing
<1>4. /\ Logged(log) = client.rows
      /\ \A d \in Decoder : LoggedAt(log, d) = log.visible[d]
  BY <1>1, <1>2, AllRead DEF RouterInv, LogInv
<1>5. Whole BY <1>3, <1>4 DEF Whole
<1>6. ~late => Cardinality(truth[trial].served) = 1
  <2>1. truth[trial].served # {}
    <3>1. client.rows > 0 /\ trial \in Jobs BY <1>2, Known
    <3>2. truth[trial].under # {} BY <1>1, <3>1 DEF RouterInv, TruthInv
    <3>3. QED BY <3>1, <3>2 DEF ServedInv
  <2>2. ~late => truth[trial].served \subseteq {Who} BY <1>1, <1>5 DEF PickerInv
  <2>3. ~late => truth[trial].served = {Who} BY <2>1, <2>2
  <2>4. QED BY <2>3, FS_Singleton
<1>7. retries = 0 =>
        Quiet /\ truth[trial].moved = log.visible /\ truth[trial].bad = 0
  <2> SUFFICES ASSUME retries = 0
               PROVE  Quiet /\ truth[trial].moved = log.visible /\ truth[trial].bad = 0
    OBVIOUS
  <2>1. \A d \in Decoder : client.after[d] = [good |-> log.visible[d], bad |-> 0]
    BY DEF VerifyTrial, TransferVerified
  <2>2. ASSUME NEW d \in Decoder
        PROVE  /\ client.after[d].good = log.visible[d] /\ client.after[d].bad = 0
               /\ client.after[d].good >= LoggedAt(log, d)
    <3>1. client.after[d] = [good |-> log.visible[d], bad |-> 0] BY <2>1
    <3>2. client.after[d].good = log.visible[d] /\ client.after[d].bad = 0 BY <3>1
    <3>3. LoggedAt(log, d) = log.visible[d] /\ LoggedAt(log, d) \in Nat BY <1>4, Known
    <3>4. QED BY <3>2, <3>3
  <2>3. \A d \in Decoder : client.after[d].good >= LoggedAt(log, d) BY <2>2
  <2>4. \A d \in Decoder : /\ shown[d] = done[d] /\ client.after[d] = done[d]
                           /\ truth[trial].moved[d] = done[d].good
    BY <1>1, <1>2, <1>5, <2>2, <2>3 DEF MovedInv
  <2>5. truth[trial].bad = 0 BY <1>1, <1>2, <1>5, <2>2, <2>4 DEF MovedInv
  <2>6. truth[trial].moved = log.visible
    <3>1. truth[trial].moved \in [Decoder -> Nat] /\ log.visible \in [Decoder -> Nat]
      BY Known, LogTyped DEF EngineInv, RouterInv
    <3>2. \A d \in Decoder : truth[trial].moved[d] = log.visible[d] BY <2>2, <2>4
    <3>3. QED BY <3>1, <3>2
  <2>7. flying = {} BY <1>1, <1>2, <1>3, <1>5 DEF MovedInv, By
  <2>8. shown = done BY <2>4 DEF EngineInv
  <2>9. QED BY <2>5, <2>6, <2>7, <2>8 DEF Quiet
<1>8. Job.pin # None => log.visible[Job.pin] = Job.size BY DEF VerifyTrial, PinHonoured
<1>9. ReportedInv'
  <2> DEFINE v == [trial |-> trial, routes |-> log.visible, late |-> late]
  <2>1. v.trial = trial /\ v.routes = log.visible /\ v.late = late OBVIOUS
  <2>2. truth' = truth /\ retries' = retries BY <1>1 DEF engineVars
  <2> HIDE DEF v
  <2>3. verified' = verified \cup {v} BY <1>1 DEF v
  <2>4. QED BY <1>6, <1>7, <1>8, <2>1, <2>2, <2>3 DEF ReportedInv, Job
<1>10. QED BY <1>1, <1>7, <1>9, NextJobAccounts

(* A new picker starts a new log. *)
LEMMA RolloutRestartAccounts ==
  ASSUME RouterInv, AccountInv, RolloutRestart PROVE AccountInv'
<1> USE DEF AccountInv
<1>1. /\ UNCHANGED <<done, shown, born, flying, truth, trial, client, verified, retries>>
      /\ epp'.born = epp.born + 1 /\ log' = NewLog
      /\ place = "restart" /\ place' = "ready"
  BY DEF RolloutRestart, RestartEpp, At
<1>2. EngineInv' BY <1>1 DEF EngineInv
<1>3. LogInv' BY <1>1, LogStarts, Known DEF LogInv, Job
<1>4. ServedInv' BY <1>1 DEF ServedInv, Given
<1>5. PickerInv' BY <1>1 DEF PickerInv, Given
<1>6. QuietInv' BY <1>1 DEF QuietInv, Quiet, Given
<1>7. MovedInv' BY <1>1 DEF MovedInv, Given
<1>8. ReportedInv' BY <1>1 DEF ReportedInv
<1>9. QED BY <1>2, <1>3, <1>4, <1>5, <1>6, <1>7, <1>8

(* Counters from zero are numbers that no page is ahead of. *)
LEMMA Rebased ==
  ASSUME RouterInv, EngineInv, Rebase, UNCHANGED <<trial, epp, truth, flying>>
  PROVE  /\ EngineInv'
         /\ shown = done => shown' = done' /\ \A d \in Decoder : done'[d] = NoTransfers
<1>1. /\ done' = [d \in Decoder |-> [good |-> done[d].good - shown[d].good,
                                     bad |-> done[d].bad - shown[d].bad]]
      /\ shown' = [d \in Decoder |-> NoTransfers]
  BY DEF Rebase
<1>2. ASSUME NEW d \in Decoder
      PROVE  /\ done'[d] \in Transfers /\ shown'[d] \in Transfers
             /\ shown'[d].good <= done'[d].good /\ shown'[d].bad <= done'[d].bad
             /\ shown = done => done'[d] = NoTransfers
  <2>1. done[d].good - shown[d].good \in Nat /\ done[d].bad - shown[d].bad \in Nat
    BY Known DEF EngineInv
  <2>2. shown[d].good \in Nat /\ shown[d].bad \in Nat BY Known
  <2>3. done'[d] = [good |-> done[d].good - shown[d].good, bad |-> done[d].bad - shown[d].bad]
    BY <1>1
  <2>4. done'[d].good \in Nat /\ done'[d].bad \in Nat /\ done'[d] \in Transfers
    BY <2>1, <2>3 DEF Transfers
  <2>5. shown'[d] = NoTransfers BY <1>1
  <2>6. shown = done => done'[d] = [good |-> 0, bad |-> 0] BY <2>2, <2>3
  <2>7. QED BY <2>4, <2>5, <2>6, Outcomes DEF NoTransfers
<1>3. done' \in [Decoder -> Transfers] /\ shown' \in [Decoder -> Transfers] BY <1>1, <1>2
<1>4. EngineInv' BY <1>2, <1>3 DEF EngineInv
<1>5. QED BY <1>1, <1>2, <1>3, <1>4

(* A warmup that finds the engines at rest finds them at zero. *)
LEMMA WarmupBeforeAccounts ==
  ASSUME RouterInv, AccountInv, WarmupBefore PROVE AccountInv'
<1> USE DEF AccountInv
<1>1. /\ UNCHANGED <<born, epp, flying, truth, trial, log, client, routed, verified, retries>>
      /\ Rebase /\ place = "warm" /\ place' = "ask"
  BY DEF WarmupBefore, At, jobVars, siteVars
<1>2. EngineInv' BY <1>1, Rebased
<1>3. LogInv' BY <1>1 DEF LogInv, Job
<1>4. ServedInv' BY <1>1 DEF ServedInv, Given
<1>5. PickerInv' BY <1>1 DEF PickerInv, Given
<1>6. QuietInv' BY <1>1, Rebased DEF QuietInv, Quiet, Given
<1>7. MovedInv' BY <1>1 DEF MovedInv, Given
<1>8. ReportedInv' BY <1>1 DEF ReportedInv
<1>9. QED BY <1>2, <1>3, <1>4, <1>5, <1>6, <1>7, <1>8

(* The warmup request is the only one there. *)
LEMMA WarmupRequestAccounts ==
  ASSUME RouterInv, AccountInv, WarmupRequest PROVE AccountInv'
<1> USE DEF AccountInv
<1>1. PICK d \in Decoder : Receive(Warm, d) BY DEF WarmupRequest
<1>2. /\ UNCHANGED <<done, shown, born, epp, trial, log, client, routed, verified, retries>>
      /\ flying' = flying \cup {[by |-> Warm, to |-> d]}
      /\ place = "ask" /\ place' = "warming"
  BY <1>1 DEF WarmupRequest, Receive, At, jobVars, siteVars
<1>3. \A k \in Jobs : truth'[k] = truth[k]
  BY <1>1, JobNumbers DEF Receive, RouterInv, TruthInv
<1>4. EngineInv' BY <1>2, <1>3 DEF EngineInv
<1>5. LogInv' BY <1>2 DEF LogInv, Job
<1>6. ServedInv' BY <1>2, <1>3, Known DEF ServedInv, Given
<1>7. PickerInv' BY <1>2 DEF PickerInv, Given
<1>8. QuietInv'
  <2>1. ASSUME retries = 0 PROVE Warming(done', shown', flying')
    <3>1. flying' = {[by |-> Warm, to |-> d]} /\ \A e \in Decoder : done[e] = NoTransfers
          /\ shown[e] = NoTransfers
      BY <1>2, <2>1 DEF QuietInv, Quiet
    <3>2. QED BY <1>2, <3>1 DEF Warming
  <2>2. QED BY <1>2, <2>1 DEF QuietInv, Given
<1>9. MovedInv' BY <1>2 DEF MovedInv, Given
<1>10. ReportedInv' BY <1>2, <1>3, ReportedStays
<1>11. QED BY <1>4, <1>5, <1>6, <1>7, <1>8, <1>9, <1>10

(* A transfer that is seen is the warmup's, and then all of it is seen. *)
LEMMA WarmupDoneAccounts == ASSUME RouterInv, AccountInv, WarmupDone PROVE AccountInv'
<1> USE DEF AccountInv
<1>1. /\ UNCHANGED <<done, shown, born, epp, flying, truth, trial, log, client, routed,
                     verified, retries>>
      /\ place = "warming" /\ place' = "calm" /\ Total = 1
  BY DEF WarmupDone, At, placeOnly, engineVars, jobVars, siteVars
<1>2. EngineInv' BY <1>1 DEF EngineInv
<1>3. LogInv' BY <1>1 DEF LogInv, Job
<1>4. ServedInv' BY <1>1 DEF ServedInv, Given
<1>5. PickerInv' BY <1>1 DEF PickerInv, Given
<1>6. QuietInv'
  <2>1. ASSUME retries = 0 PROVE Quiet
    <3> DEFINE f == [e \in Decoder |-> shown[e].good]
    <3>1. Warming(done, shown, flying) BY <1>1, <2>1 DEF QuietInv
    <3>2. SUFFICES ASSUME \A e \in Decoder : shown[e] = NoTransfers PROVE FALSE
      BY <3>1, WarmingSeen
    <3>3. \A e \in Decoder : shown[e].good = 0 BY <3>2, Outcomes
    <3>4. f \in [Decoder -> Nat] /\ \A e \in Decoder : f[e] = 0 BY <3>3
    <3>5. SumFunction(f) = 1 BY <1>1 DEF Total
    <3> HIDE DEF f
    <3>6. SumFunction(f) = 0 BY <3>4, DecoderSum, NoTerms
    <3>7. QED BY <3>5, <3>6
  <2>2. QED BY <1>1, <2>1 DEF QuietInv, Quiet, Given
<1>7. MovedInv' BY <1>1 DEF MovedInv, Given
<1>8. ReportedInv' BY <1>1 DEF ReportedInv
<1>9. QED BY <1>2, <1>3, <1>4, <1>5, <1>6, <1>7, <1>8

(* After a retry nothing is claimed of the transfers any more. *)
LEMMA WarmupTimeoutAccounts ==
  ASSUME RouterInv, AccountInv, WarmupTimeout PROVE AccountInv'
<1> USE DEF AccountInv
<1>1. /\ UNCHANGED <<done, shown, born, epp, truth, trial, log, client, routed, verified>>
      /\ flying' = (flying \ Of(Warm)) \cup Orphans(Of(Warm))
      /\ place = "warming" /\ place' = "warm" /\ retries' = retries + 1 /\ retries \in Nat
  BY DEF WarmupTimeout, At, jobVars, RouterInv, Types
<1>2. retries' # 0 BY <1>1
<1>3. EngineInv'
  <2>1. \A r \in Of(Warm) : r = [by |-> r.by, to |-> r.to] BY Known DEF Of
  <2>2. \A r \in Orphans(Of(Warm)) : r.by = Stray BY <2>1 DEF Orphans
  <2>3. QED BY <1>1, <2>2 DEF EngineInv
<1>4. LogInv' BY <1>1 DEF LogInv, Job
<1>5. ServedInv' BY <1>1 DEF ServedInv, Given
<1>6. PickerInv' BY <1>1 DEF PickerInv, Given
<1>7. QuietInv' BY <1>2 DEF QuietInv
<1>8. MovedInv' BY <1>2 DEF MovedInv
<1>9. ReportedInv' BY <1>1, <1>2 DEF ReportedInv
<1>10. QED BY <1>3, <1>4, <1>5, <1>6, <1>7, <1>8, <1>9

-----------------------------------------------------------------------------
(* The client keeps the accounts *)

(* The client starts with the engines as it finds them. *)
LEMMA ClientStartAccounts == ASSUME RouterInv, AccountInv, ClientStart PROVE AccountInv'
<1>1. PICK a, u, w, s, r, p :
        client = [at |-> a, until |-> u, slow |-> w, sent |-> s, rows |-> r, after |-> p]
  BY DEF RouterInv, ClientRec, IsClient
<1>2. QED BY <1>1, PlaceAccounts DEF ClientStart, clientOnly, siteVars, engineVars

(* A read of the pages changes nothing but the client's place. *)
LEMMA ClientReadsAccounts == ASSUME RouterInv, AccountInv, ClientReads PROVE AccountInv'
<1>1. PICK a, u, w, s, r, p :
        client = [at |-> a, until |-> u, slow |-> w, sent |-> s, rows |-> r, after |-> p]
  BY DEF RouterInv, ClientRec, IsClient
<1>2. QED BY <1>1, PlaceAccounts DEF ClientReads, clientOnly, siteVars, engineVars

(* Another round of the idle wait. *)
LEMMA ClientWaitsOnAccounts == ASSUME RouterInv, AccountInv, ClientWaitsOn PROVE AccountInv'
<1>1. PICK a, u, w, s, r, p :
        client = [at |-> a, until |-> u, slow |-> w, sent |-> s, rows |-> r, after |-> p]
  BY DEF RouterInv, ClientRec, IsClient
<1>2. QED BY <1>1, PlaceAccounts DEF ClientWaitsOn, clientOnly, siteVars, engineVars

(* A complete report is still to be counted. *)
LEMMA ClientReportedAccounts == ASSUME RouterInv, AccountInv, ClientReported PROVE AccountInv'
<1>1. PICK a, u, w, s, r, p :
        client = [at |-> a, until |-> u, slow |-> w, sent |-> s, rows |-> r, after |-> p]
  BY DEF RouterInv, ClientRec, IsClient
<1>2. QED BY <1>1, PlaceAccounts DEF ClientReported, clientOnly, siteVars, engineVars

(* A benchmark that is killed is not counted. *)
LEMMA ClientInterruptsAccounts == ASSUME RouterInv, AccountInv, ClientInterrupts PROVE AccountInv'
<1>1. PICK a, u, w, s, r, p :
        client = [at |-> a, until |-> u, slow |-> w, sent |-> s, rows |-> r, after |-> p]
  BY DEF RouterInv, ClientRec, IsClient
<1>2. QED BY <1>1, PlaceAccounts DEF ClientInterrupts, clientOnly, siteVars, engineVars


(* The benchmark begins with engines at rest, and counts from there. *)
LEMMA ClientBeginsAccounts == ASSUME RouterInv, AccountInv, ClientBegins PROVE AccountInv'
<1> USE DEF AccountInv
<1>1. PICK a, u, w, s, r, p :
        client = [at |-> a, until |-> u, slow |-> w, sent |-> s, rows |-> r, after |-> p]
  BY DEF RouterInv, ClientRec, IsClient
<1>2. /\ UNCHANGED <<born, epp, flying, truth, place, trial, who, log, routed, verified,
                     retries, restarted, late>>
      /\ Rebase /\ client.at = "reading"
      /\ client'.at = IF Job.mode = "qualify" THEN "ask" ELSE "bench"
      /\ client'.sent = client.sent /\ client'.rows = client.rows
  BY <1>1 DEF ClientBegins, Qualifying, clientOnly, siteVars
<1>3. place \in {"wait", "exit", "preserve", "ended"} BY <1>2 DEF RouterInv, JobInv
<1>4. EngineInv' BY <1>2, Rebased
<1>5. LogInv' BY <1>2 DEF LogInv, Job
<1>6. ServedInv' BY <1>2 DEF ServedInv
<1>7. PickerInv'
  <2>1. (Whole' <=> Whole) /\ Who' = Who BY <1>2 DEF Whole, Who
  <2>2. QED BY <1>2, <2>1 DEF PickerInv
<1>8. QuietInv'
  <2>1. retries = 0 /\ place \in Given =>
          Quiet' /\ \A d \in Decoder : done'[d] = NoTransfers
    BY <1>2, Rebased DEF QuietInv, Quiet
  <2>2. QED BY <1>2, <1>3, <2>1 DEF QuietInv
<1>9. MovedInv'
  <2> SUFFICES ASSUME retries = 0, place \in Given, Job.mode # "qualify"
               PROVE  MovedInv'
    BY <1>2 DEF MovedInv, Job
  <2>1. truth[trial] = Untouched /\ trial \in Jobs
    <3>1. client.sent = 0 /\ trial \in Jobs BY <1>2, Known DEF LogInv
    <3>2. QED BY <3>1 DEF ServedInv
  <2>2. flying = {} /\ shown' = done' /\ \A d \in Decoder : done'[d] = NoTransfers
    BY <1>2, Rebased DEF QuietInv, Quiet
  <2>3. \A d \in Decoder : LoggedAt(log, d) \in Nat BY Known
  <2>4. QED BY <1>2, <2>1, <2>2, <2>3, Outcomes DEF MovedInv, Untouched
<1>10. ReportedInv' BY <1>2 DEF ReportedInv
<1>11. QED BY <1>4, <1>5, <1>6, <1>7, <1>8, <1>9, <1>10

(* A request that is sent reaches the picker that is there. *)
LEMMA ClientSendsAccounts == ASSUME RouterInv, AccountInv, ClientSends PROVE AccountInv'
<1> USE DEF AccountInv
<1>1. PICK a, u, w, s, r, p :
        client = [at |-> a, until |-> u, slow |-> w, sent |-> s, rows |-> r, after |-> p]
  BY DEF RouterInv, ClientRec, IsClient
<1>2. PICK d \in Decoder : Receive(trial, d) BY DEF ClientSends
<1>3. /\ UNCHANGED <<place, trial, who, log, routed, verified, retries, restarted, late>>
      /\ client.at = "bench" /\ client'.at = "bench"
      /\ client'.sent = client.sent + 1 /\ client'.rows = client.rows
  BY <1>1 DEF ClientSends, clientOnly, siteVars
<1>4. /\ Cardinality(By(flying', trial)) = Cardinality(By(flying, trial)) + 1
      /\ \A x \in flying' : x \in flying \/ x.by = trial
      /\ UNCHANGED <<done, shown, born, epp, configMap>>
      /\ \A k \in Jobs \ {trial} : truth'[k] = truth[k]
      /\ truth'[trial].moved = truth[trial].moved /\ truth'[trial].bad = truth[trial].bad
      /\ truth'[trial].served = truth[trial].served \cup {Who}
  BY <1>2, JobReceived
<1>5. place \in {"wait", "exit", "preserve", "ended"} BY <1>3 DEF RouterInv, JobInv
<1>6. Whole' => Whole
  <2>1. /\ client.rows \in Nat /\ client.sent \in Nat
        /\ Cardinality(By(flying, trial)) \in Nat
    BY Known
  <2>2. QED BY <1>3, <1>4, <2>1 DEF Whole
<1>7. EngineInv' BY <1>3, <1>4 DEF EngineInv
<1>8. LogInv' BY <1>3 DEF LogInv, Job
<1>9. ServedInv'
  <2>1. trial \in Jobs /\ client'.sent # 0 /\ \A k \in Jobs : k > trial => k # trial
    BY <1>3, Known, JobNumbers
  <2>2. QED BY <1>3, <1>4, <1>5, <2>1 DEF ServedInv, Given
<1>10. PickerInv'
  <2>1. Who' = Who BY <1>4 DEF Who
  <2>2. QED BY <1>3, <1>4, <1>6, <2>1 DEF PickerInv
<1>11. QuietInv' BY <1>3, <1>5 DEF QuietInv
<1>12. MovedInv' BY <1>3, <1>4, <1>6 DEF MovedInv, Job
<1>13. ReportedInv'
  <2>1. \A k \in Jobs : k # trial \/ client.at = "ok" => truth'[k] = truth[k] BY <1>3, <1>4
  <2>2. QED BY <1>3, <2>1, ReportedStays
<1>14. QED BY <1>7, <1>8, <1>9, <1>10, <1>11, <1>12, <1>13

(* The page that the trial's client keeps is the one that is shown. *)
LEMMA ClientCountsAccounts == ASSUME RouterInv, AccountInv, ClientCounts PROVE AccountInv'
<1> USE DEF AccountInv
<1>1. PICK a, u, w, s, r, p :
        client = [at |-> a, until |-> u, slow |-> w, sent |-> s, rows |-> r, after |-> p]
  BY DEF RouterInv, ClientRec, IsClient
<1>2. /\ UNCHANGED <<done, shown, born, epp, flying, truth, place, trial, who, log, routed,
                     verified, retries, restarted, late>>
      /\ client.at = "count" /\ client'.at = "ok" /\ client'.after = shown
      /\ client'.sent = client.sent /\ client'.rows = client.rows
  BY <1>1 DEF ClientCounts, clientOnly, engineVars, siteVars
<1>3. place \in {"wait", "exit", "preserve", "ended"} BY <1>2 DEF RouterInv, JobInv
<1>4. (Whole' <=> Whole) /\ Who' = Who /\ Job' = Job BY <1>2 DEF Whole, Who, Job
<1>5. EngineInv' BY <1>2 DEF EngineInv
<1>6. LogInv' BY <1>2, <1>4 DEF LogInv
<1>7. ServedInv' BY <1>2 DEF ServedInv
<1>8. PickerInv' BY <1>2, <1>4 DEF PickerInv
<1>9. QuietInv' BY <1>2, <1>3, <1>4 DEF QuietInv, RouterInv, PolicyInv
<1>10. MovedInv' BY <1>2, <1>4 DEF MovedInv
<1>11. ReportedInv' BY <1>2 DEF ReportedInv
<1>12. QED BY <1>5, <1>6, <1>7, <1>8, <1>9, <1>10, <1>11

(* A qualifying request finds the engines at rest, at zero. *)
LEMMA QualifyAsksAccounts == ASSUME RouterInv, AccountInv, QualifyAsks PROVE AccountInv'
<1> USE DEF AccountInv
<1>1. PICK a, u, w, s, r, p :
        client = [at |-> a, until |-> u, slow |-> w, sent |-> s, rows |-> r, after |-> p]
  BY DEF RouterInv, ClientRec, IsClient
<1>2. Job.pin \in Decoder /\ Receive(trial, Job.pin) BY DEF QualifyAsks
<1>3. /\ UNCHANGED <<place, trial, who, log, routed, verified, retries, restarted, late>>
      /\ client.at = "ask" /\ client'.at = "answer" /\ Job.pin \in Decoder
      /\ client'.sent = client.sent + 1 /\ client'.rows = client.rows
  BY <1>1 DEF QualifyAsks, clientOnly, siteVars
<1>4. /\ Cardinality(By(flying', trial)) = Cardinality(By(flying, trial)) + 1
      /\ \A x \in flying' : x \in flying \/ x.by = trial
      /\ UNCHANGED <<done, shown, born, epp, configMap>>
      /\ flying' = flying \cup {[by |-> trial, to |-> Job.pin]}
      /\ \A k \in Jobs \ {trial} : truth'[k] = truth[k]
      /\ truth'[trial].moved = truth[trial].moved /\ truth'[trial].bad = truth[trial].bad
      /\ truth'[trial].served = truth[trial].served \cup {Who}
  BY <1>2, JobReceived DEF Receive
<1>5. place \in {"wait", "exit", "preserve", "ended"} BY <1>3 DEF RouterInv, JobInv
<1>6. Whole' => Whole
  <2>1. /\ client.rows \in Nat /\ client.sent \in Nat
        /\ Cardinality(By(flying, trial)) \in Nat
    BY Known
  <2>2. QED BY <1>3, <1>4, <2>1 DEF Whole
<1>7. EngineInv' BY <1>3, <1>4 DEF EngineInv
<1>8. LogInv' BY <1>3 DEF LogInv, Job
<1>9. ServedInv'
  <2>1. trial \in Jobs /\ client'.sent # 0 /\ \A k \in Jobs : k > trial => k # trial
    BY <1>3, Known, JobNumbers
  <2>2. QED BY <1>3, <1>4, <1>5, <2>1 DEF ServedInv, Given
<1>10. PickerInv'
  <2>1. Who' = Who BY <1>4 DEF Who
  <2>2. QED BY <1>3, <1>4, <1>6, <2>1 DEF PickerInv
<1>11. QuietInv'
  <2>1. ASSUME retries = 0, place \in Given PROVE Warming(done', shown', flying')
    <3>1. flying' = {[by |-> trial, to |-> Job.pin]}
          /\ \A e \in Decoder : done[e] = NoTransfers /\ shown[e] = NoTransfers
      BY <1>3, <1>4, <2>1 DEF QuietInv, Quiet
    <3>2. QED BY <1>2, <1>4, <3>1 DEF Warming
  <2>2. Job' = Job BY <1>3 DEF Job
  <2>3. QED BY <1>2, <1>3, <1>5, <2>1, <2>2 DEF QuietInv
<1>12. MovedInv' BY <1>3 DEF MovedInv
<1>13. ReportedInv'
  <2>1. \A k \in Jobs : k # trial \/ client.at = "ok" => truth'[k] = truth[k] BY <1>3, <1>4
  <2>2. QED BY <1>3, <2>1, ReportedStays
<1>14. QED BY <1>7, <1>8, <1>9, <1>10, <1>11, <1>12, <1>13

(* What a qualifying request has done is still to be shown. *)
LEMMA QualifyAnsweredAccounts == ASSUME RouterInv, AccountInv, QualifyAnswered PROVE AccountInv'
<1>1. PICK a, u, w, s, r, p :
        client = [at |-> a, until |-> u, slow |-> w, sent |-> s, rows |-> r, after |-> p]
  BY DEF RouterInv, ClientRec, IsClient
<1>2. QED BY <1>1, PlaceAccounts DEF QualifyAnswered, clientOnly, siteVars, engineVars

(* A transfer that is seen is the request's, and then all of it is seen.   *)
LEMMA QualifyCountsAccounts == ASSUME RouterInv, AccountInv, QualifyCounts PROVE AccountInv'
<1> USE DEF AccountInv
<1>1. PICK a, u, w, s, r, p :
        client = [at |-> a, until |-> u, slow |-> w, sent |-> s, rows |-> r, after |-> p]
  BY DEF RouterInv, ClientRec, IsClient
<1>2. /\ UNCHANGED <<done, shown, born, epp, flying, truth, place, trial, who, log, routed,
                     verified, retries, restarted, late>>
      /\ client.at = "settle" /\ client'.at \in {"idle", "ok"}
      /\ client'.sent = client.sent /\ client'.rows = client.rows /\ Isolated
  BY <1>1 DEF QualifyCounts, clientOnly, engineVars, siteVars
<1>3. place \in {"wait", "exit", "preserve", "ended"} /\ Job.mode = "qualify"
  BY <1>2 DEF RouterInv, JobInv, PolicyInv
<1>4. (Whole' <=> Whole) /\ Who' = Who /\ Job' = Job BY <1>2 DEF Whole, Who, Job
<1>5. EngineInv' BY <1>2 DEF EngineInv
<1>6. LogInv' BY <1>2, <1>3, <1>4 DEF LogInv
<1>7. ServedInv' BY <1>2 DEF ServedInv
<1>8. PickerInv' BY <1>2, <1>4 DEF PickerInv
<1>9. QuietInv'
  <2>1. ASSUME retries = 0, place \in Given PROVE Quiet
    <3>1. Job.pin \in Decoder /\ Warming(done, shown, flying) BY <1>2, <2>1 DEF QuietInv
    <3>2. shown[Job.pin] = [good |-> 1, bad |-> 0] BY <1>2, <3>1 DEF Isolated
    <3>3. shown[Job.pin] # NoTransfers BY <3>2 DEF NoTransfers
    <3>4. QED BY <3>1, <3>3, WarmingSeen
  <2>2. Quiet' <=> Quiet BY <1>2 DEF Quiet
  <2>3. QED BY <1>2, <1>3, <2>1, <2>2 DEF QuietInv
<1>10. MovedInv' BY <1>3, <1>4 DEF MovedInv
<1>11. ReportedInv' BY <1>2 DEF ReportedInv
<1>12. QED BY <1>5, <1>6, <1>7, <1>8, <1>9, <1>10, <1>11

(* A job that failed is not verified.  If it seems whole, it was. *)
LEMMA ClientFailsAccounts == ASSUME RouterInv, AccountInv, ClientFails PROVE AccountInv'
<1> USE DEF AccountInv
<1>1. PICK a, u, w, s, r, p :
        client = [at |-> a, until |-> u, slow |-> w, sent |-> s, rows |-> r, after |-> p]
  BY DEF RouterInv, ClientRec, IsClient
<1>2. /\ UNCHANGED <<done, shown, born, epp, truth, place, trial, who, log, routed, verified,
                     retries, restarted, late>>
      /\ flying' = (flying \ Of(trial)) \cup Orphans(Of(trial))
      /\ client.at \notin Ended /\ client'.at = "failed"
      /\ client'.sent = client.sent /\ client'.rows = client.rows
  BY <1>1 DEF ClientFails, clientOnly, siteVars
<1>3. place \in {"wait", "exit", "preserve", "ended"}
  BY <1>2 DEF RouterInv, JobInv, Ended
<1>4. /\ \A x \in flying' : x \in flying \/ x.by = Stray
      /\ By(flying', trial) = {}
  <2>1. Of(trial) = By(flying, trial) /\ Of(trial) \subseteq flying BY DEF Of, By
  <2>2. /\ flying \subseteq Requests /\ IsFiniteSet(flying)
        /\ flying' = (flying \ Of(trial)) \cup Orphans(Of(trial))
    BY <1>2 DEF RouterInv, JobInv
  <2>3. /\ \A x \in flying' : x \in flying \/ x.by = Stray
        /\ \A j : j # Stray => By(flying', j) = By(flying, j) \ Of(trial)
    <3> DEFINE S == Of(trial)
    <3>1. S \subseteq flying /\ flying' = (flying \ S) \cup Orphans(S) BY <2>1, <2>2
    <3> HIDE DEF S
    <3>2. /\ \A x \in flying' : x \in flying \/ x.by = Stray
          /\ \A j : j # Stray => By(flying', j) = By(flying, j) \ S
      BY <2>2, <3>1, Orphaned
    <3>3. QED BY <3>2 DEF S
  <2>4. QED BY <2>1, <2>3, Known
<1>5. Whole' => Whole
  <2>1. Cardinality(By(flying', trial)) = 0 BY <1>4, FS_EmptySet
  <2>2. /\ client.rows \in Nat /\ client.sent \in Nat
        /\ Cardinality(By(flying, trial)) \in Nat
        /\ client.rows + Cardinality(By(flying, trial)) <= client.sent
    BY Known
  <2>3. QED BY <1>2, <2>1, <2>2 DEF Whole
<1>6. EngineInv' BY <1>2, <1>4 DEF EngineInv
<1>7. LogInv' BY <1>2 DEF LogInv, Job
<1>8. ServedInv' BY <1>2 DEF ServedInv
<1>9. PickerInv'
  <2>1. Who' = Who BY <1>2 DEF Who
  <2>2. QED BY <1>2, <1>5, <2>1 DEF PickerInv
<1>10. QuietInv' BY <1>2, <1>3 DEF QuietInv
<1>11. MovedInv' BY <1>2 DEF MovedInv
<1>12. ReportedInv' BY <1>2 DEF ReportedInv
<1>13. QED BY <1>6, <1>7, <1>8, <1>9, <1>10, <1>11, <1>12

-----------------------------------------------------------------------------
(* The engines, the picker and time keep the accounts *)

(* An answer to a request of the job is one of its rows, and in the log. *)
LEMMA OwnAnswerAccounts ==
  ASSUME RouterInv, AccountInv, NEW r \in flying, Answer(r), r.by = trial
  PROVE  AccountInv'
<1> USE DEF AccountInv
<1>1. PICK a, u, w, s, n, p :
        client = [at |-> a, until |-> u, slow |-> w, sent |-> s, rows |-> n, after |-> p]
  BY DEF RouterInv, ClientRec, IsClient
<1>2. /\ UNCHANGED <<place, trial, who, routed, verified, retries, restarted, late>>
      /\ Finish(r) /\ log' = [log EXCEPT !.hidden[r.to] = @ + 1]
      /\ client'.at = client.at /\ client'.sent = client.sent
      /\ client'.rows = client.rows + 1
  BY <1>1 DEF Answer, siteVars
<1>3. r.to \in Decoder /\ trial \in Jobs BY Known
<1>4. /\ Cardinality(By(flying', trial)) = Cardinality(By(flying, trial)) - 1
      /\ By(flying, trial) # {} /\ flying' \subseteq flying
  <2>1. flying' = flying \ {r} /\ IsFiniteSet(flying)
    BY <1>2 DEF Finish, RouterInv, JobInv
  <2>2. QED BY <2>1, Answered
<1>5. /\ client.at \in {"bench", "killing", "answer"}
      /\ place \in {"wait", "exit", "preserve", "ended"}
  BY <1>4 DEF RouterInv, JobInv
<1>6. truth[trial].served # {}
  <2>1. truth[trial].under # {} BY <1>4 DEF RouterInv, TruthInv
  <2>2. QED BY <1>3, <2>1 DEF ServedInv
<1>7. /\ Logged(log') = Logged(log) + 1
      /\ LoggedAt(log', r.to) = LoggedAt(log, r.to) + 1
      /\ \A d \in Decoder \ {r.to} : LoggedAt(log', d) = LoggedAt(log, d)
  BY <1>2, <1>3, LogGrows DEF RouterInv
<1>8. /\ UNCHANGED <<shown, born, epp>> /\ done' \in [Decoder -> Transfers]
      /\ \A k \in Jobs : k # trial => truth'[k] = truth[k]
      /\ \A k \in Jobs : truth'[k].served = truth[k].served
                         /\ truth'[k].under = truth[k].under
      /\ \A k \in Jobs : truth'[k].moved \in [Decoder -> Nat] /\ truth'[k].bad \in Nat
  BY <1>2, JobFinished
<1>9. PICK g \in Nat, h \in Nat :
        /\ h = 0 => g <= 1
        /\ done'[r.to].good = done[r.to].good + g /\ done'[r.to].bad = done[r.to].bad + h
        /\ \A d \in Decoder \ {r.to} : done'[d] = done[d]
        /\ truth'[trial].moved[r.to] = truth[trial].moved[r.to] + g
        /\ truth'[trial].bad = truth[trial].bad + h
        /\ \A d \in Decoder \ {r.to} : truth'[trial].moved[d] = truth[trial].moved[d]
  BY <1>2, JobFinished
<1>10. /\ client.rows \in Nat /\ client.sent \in Nat /\ Logged(log) \in Nat
       /\ Cardinality(By(flying, trial)) \in Nat
       /\ \A d \in Decoder :
            /\ done[d].good \in Nat /\ done[d].bad \in Nat
            /\ shown[d].good \in Nat /\ shown[d].bad \in Nat
            /\ LoggedAt(log, d) \in Nat
  BY Known
<1>11. Whole' => Whole BY <1>2, <1>4, <1>7, <1>10 DEF Whole
<1>12. EngineInv'
  <2>1. \A d \in Decoder : shown[d].good <= done'[d].good /\ shown[d].bad <= done'[d].bad
    <3>1. shown[r.to].good <= done'[r.to].good /\ shown[r.to].bad <= done'[r.to].bad
      BY <1>3, <1>9, <1>10 DEF EngineInv
    <3>2. QED BY <1>9, <3>1 DEF EngineInv
  <2>2. QED BY <1>2, <1>4, <1>8, <2>1 DEF EngineInv
<1>13. LogInv' BY <1>2, <1>5, <1>7, <1>10 DEF LogInv, Job
<1>14. ServedInv' BY <1>2, <1>3, <1>5, <1>6, <1>8 DEF ServedInv, Given
<1>15. PickerInv'
  <2>1. Who' = Who BY <1>8 DEF Who
  <2>2. QED BY <1>2, <1>3, <1>8, <1>11, <2>1 DEF PickerInv
<1>16. QuietInv'
  <2>1. Job' = Job BY <1>2 DEF Job
  <2>2. ASSUME retries = 0, place \in Given, client.at = "answer"
        PROVE  Job.pin \in Decoder /\ Warming(done', shown', flying')
    <3>1. Job.pin \in Decoder /\ Warming(done, shown, flying) BY <2>2 DEF QuietInv
    <3>2. flying' = flying \ {r} /\ shown' = shown BY <1>2, <1>8 DEF Finish
    <3>3. QED BY <1>9, <3>1, <3>2, WarmingAnswered
  <2>3. QED BY <1>2, <1>5, <2>1, <2>2 DEF QuietInv
<1>17. MovedInv'
  <2> SUFFICES ASSUME retries = 0, place \in Given, Whole, client.at = "bench",
                      Job.mode # "qualify"
               PROVE  MovedInv'
    BY <1>2, <1>5, <1>11 DEF MovedInv, Job
  <2>1. /\ \A x \in flying : x.by = trial
        /\ (\A d \in Decoder : done[d].bad = 0) => truth[trial].bad = 0
        /\ \A d \in Decoder :
             /\ truth[trial].moved[d] = done[d].good
             /\ done[d].bad = 0 => done[d].good <= LoggedAt(log, d)
             /\ shown[d].bad = 0 => shown[d].good <= LoggedAt(log, d)
             /\ shown[d].bad = 0 /\ shown[d].good >= LoggedAt(log, d) => shown[d] = done[d]
    BY DEF MovedInv
  <2>2. (\A d \in Decoder : done'[d].bad = 0) => truth'[trial].bad = 0
    <3>1. SUFFICES ASSUME \A d \in Decoder : done'[d].bad = 0 PROVE truth'[trial].bad = 0
      OBVIOUS
    <3>2. h = 0 /\ done[r.to].bad = 0 BY <1>3, <1>9, <1>10, <3>1
    <3>3. \A d \in Decoder : done[d].bad = 0 BY <1>9, <3>1, <3>2
    <3>4. QED BY <1>9, <2>1, <3>2, <3>3
  <2>3. /\ truth'[trial].moved[r.to] = done'[r.to].good
        /\ done'[r.to].bad = 0 => done'[r.to].good <= LoggedAt(log', r.to)
        /\ shown[r.to].bad = 0 => shown[r.to].good <= LoggedAt(log', r.to)
        /\ ~(shown[r.to].bad = 0 /\ shown[r.to].good >= LoggedAt(log', r.to))
    <3> DEFINE dg == done[r.to].good
               db == done[r.to].bad
               sg == shown[r.to].good
               sb == shown[r.to].bad
               la == LoggedAt(log, r.to)
    <3>1. dg \in Nat /\ db \in Nat /\ sg \in Nat /\ sb \in Nat /\ la \in Nat
      BY <1>3, <1>10
    <3>2. /\ truth[trial].moved[r.to] = dg
          /\ db = 0 => dg <= la
          /\ sb = 0 => sg <= la
      BY <1>3, <2>1
    <3>3. /\ done'[r.to].good = dg + g /\ done'[r.to].bad = db + h
          /\ LoggedAt(log', r.to) = la + 1
          /\ truth'[trial].moved[r.to] = dg + g
          /\ h = 0 => g <= 1
      BY <1>7, <1>9, <3>2
    <3> HIDE DEF dg, db, sg, sb, la
    <3>4. QED BY <3>1, <3>2, <3>3 DEF sg, sb
  <2>4. ASSUME NEW d \in Decoder \ {r.to}
        PROVE  /\ truth'[trial].moved[d] = done'[d].good
               /\ done'[d].bad = 0 => done'[d].good <= LoggedAt(log', d)
               /\ shown[d].bad = 0 => shown[d].good <= LoggedAt(log', d)
               /\ shown[d].bad = 0 /\ shown[d].good >= LoggedAt(log', d)
                    => shown[d] = done'[d]
    BY <1>7, <1>9, <2>1
  <2>5. \A x \in flying' : x.by = trial BY <1>4, <2>1
  <2>6. QED BY <1>2, <1>8, <2>2, <2>3, <2>4, <2>5 DEF MovedInv
<1>18. ReportedInv'
  <2>1. \A k \in Jobs : k # trial \/ client.at = "ok" => truth'[k] = truth[k] BY <1>5, <1>8
  <2>2. QED BY <1>2, <2>1, ReportedStays
<1>19. QED BY <1>12, <1>13, <1>14, <1>15, <1>16, <1>17, <1>18

(* An answer that nobody waits for is the warmup's, or of a time when       *)
(* nothing is claimed.                                                      *)
LEMMA OtherAnswerAccounts ==
  ASSUME RouterInv, AccountInv, NEW r \in flying, Answer(r), r.by # trial
  PROVE  AccountInv'
<1> USE DEF AccountInv
<1>1. /\ UNCHANGED <<place, trial, who, client, log, routed, verified, retries, restarted,
                     late>>
      /\ Finish(r)
  BY DEF Answer, siteVars
<1>2. r.to \in Decoder /\ trial \in Jobs /\ r.by \notin Jobs BY Known
<1>3. /\ UNCHANGED <<shown, born, epp>> /\ done' \in [Decoder -> Transfers]
      /\ flying' = flying \ {r}
      /\ \A k \in Jobs : truth'[k] = truth[k]
  BY <1>1, <1>2, JobFinished
<1>4. PICK g \in Nat, h \in Nat :
        /\ done'[r.to].good = done[r.to].good + g /\ done'[r.to].bad = done[r.to].bad + h
        /\ \A d \in Decoder \ {r.to} : done'[d] = done[d]
  BY <1>1, JobFinished
<1>5. By(flying', trial) = By(flying, trial)
  BY <1>3, Answered DEF RouterInv, JobInv
<1>6. (Whole' <=> Whole) /\ Who' = Who BY <1>1, <1>3, <1>5 DEF Whole, Who
<1>7. EngineInv'
  <2>1. \A d \in Decoder : shown[d].good <= done'[d].good /\ shown[d].bad <= done'[d].bad
    <3>1. /\ done[r.to].good \in Nat /\ done[r.to].bad \in Nat
          /\ shown[r.to].good \in Nat /\ shown[r.to].bad \in Nat
      BY <1>2, Known
    <3>2. shown[r.to].good <= done'[r.to].good /\ shown[r.to].bad <= done'[r.to].bad
      BY <1>2, <1>4, <3>1 DEF EngineInv
    <3>3. QED BY <1>4, <3>2 DEF EngineInv
  <2>2. QED BY <1>1, <1>3, <2>1 DEF EngineInv
<1>8. LogInv' BY <1>1 DEF LogInv, Job
<1>9. ServedInv' BY <1>1, <1>2, <1>3 DEF ServedInv
<1>10. PickerInv' BY <1>1, <1>2, <1>3, <1>6 DEF PickerInv
<1>11. QuietInv'
  <2>1. ~Quiet /\ Job' = Job BY <1>1 DEF Quiet, Job
  <2>2. Warming(done, shown, flying) => Warming(done', shown', flying')
    BY <1>3, <1>4, WarmingAnswered
  <2>3. QED BY <1>1, <2>1, <2>2 DEF QuietInv
<1>12. MovedInv' BY <1>1, <1>6 DEF MovedInv, Job
<1>13. ReportedInv' BY <1>1, <1>3, ReportedStays
<1>14. QED BY <1>7, <1>8, <1>9, <1>10, <1>11, <1>12, <1>13

(* A request that an engine takes with it never has its row. *)
LEMMA EngineDiesAccounts ==
  ASSUME RouterInv, AccountInv, NEW d \in Decoder, EngineDies(d)
  PROVE  AccountInv'
<1> USE DEF AccountInv
<1>1. /\ UNCHANGED <<done, shown, born, epp, truth, place, trial, who, client, log, routed,
                     verified, retries, restarted, late>>
      /\ flying' = {r \in flying : r.to # d}
  BY DEF EngineDies, jobVars
<1>2. flying' \subseteq flying BY <1>1
<1>3. Whole' => Whole
  <2>1. /\ Cardinality(By(flying', trial)) \in Nat
        /\ Cardinality(By(flying', trial)) <= Cardinality(By(flying, trial))
    BY <1>2, Lost DEF RouterInv, JobInv
  <2>2. /\ client.rows \in Nat /\ client.sent \in Nat
        /\ Cardinality(By(flying, trial)) \in Nat
        /\ client.rows + Cardinality(By(flying, trial)) <= client.sent
    BY Known
  <2>3. QED BY <1>1, <2>1, <2>2 DEF Whole
<1>4. EngineInv' BY <1>1 DEF EngineInv
<1>5. LogInv' BY <1>1 DEF LogInv, Job
<1>6. ServedInv' BY <1>1 DEF ServedInv
<1>7. PickerInv'
  <2>1. Who' = Who BY <1>1 DEF Who
  <2>2. QED BY <1>1, <1>3, <2>1 DEF PickerInv
<1>8. QuietInv'
  <2>1. (Quiet => Quiet') /\ Job' = Job BY <1>1 DEF Quiet, Job
  <2>2. Warming(done, shown, flying) => Warming(done', shown', flying')
    BY <1>1, <1>2 DEF Warming
  <2>3. QED BY <1>1, <2>1, <2>2 DEF QuietInv
<1>9. MovedInv' BY <1>1, <1>2, <1>3 DEF MovedInv, Job
<1>10. ReportedInv' BY <1>1 DEF ReportedInv
<1>11. QED BY <1>4, <1>5, <1>6, <1>7, <1>8, <1>9, <1>10

(* A page that moves shows what the engine has done. *)
LEMMA PageMovesAccounts ==
  ASSUME RouterInv, AccountInv, NEW d \in Decoder, PageMoves(d)
  PROVE  AccountInv'
<1> USE DEF AccountInv
<1>1. /\ UNCHANGED <<done, born, epp, flying, truth, place, trial, who, client, log, routed,
                     verified, retries, restarted, late>>
      /\ shown[d] # done[d] /\ shown' = [shown EXCEPT ![d] = done[d]]
  BY DEF PageMoves, Report, jobVars, siteVars
<1>2. /\ shown'[d] = done[d] /\ \A e \in Decoder \ {d} : shown'[e] = shown[e]
      /\ shown' \in [Decoder -> Transfers]
  BY <1>1 DEF EngineInv
<1>3. (Whole' <=> Whole) /\ Who' = Who BY <1>1 DEF Whole, Who
<1>4. EngineInv'
  <2>1. done[d].good \in Nat /\ done[d].bad \in Nat BY Known
  <2>2. QED BY <1>1, <1>2, <2>1 DEF EngineInv
<1>5. LogInv' BY <1>1 DEF LogInv, Job
<1>6. ServedInv' BY <1>1 DEF ServedInv
<1>7. PickerInv' BY <1>1, <1>3 DEF PickerInv
<1>8. QuietInv'
  <2>1. ~Quiet /\ Job' = Job BY <1>1 DEF Quiet, Job
  <2>2. Warming(done, shown, flying) => Warming(done, shown', flying)
    BY <1>1, <1>2 DEF Warming
  <2>3. QED BY <1>1, <2>1, <2>2 DEF QuietInv
<1>9. MovedInv'
  <2>1. \A e \in Decoder : e # d => shown'[e] = shown[e] BY <1>2
  <2>2. QED BY <1>1, <1>2, <1>3, <2>1 DEF MovedInv, Job
<1>10. ReportedInv' BY <1>1 DEF ReportedInv
<1>11. QED BY <1>4, <1>5, <1>6, <1>7, <1>8, <1>9, <1>10

(* Rows that can be read are those that were written. *)
LEMMA LogRowsAccounts == ASSUME RouterInv, AccountInv, LogRows PROVE AccountInv'
<1> USE DEF AccountInv
<1>1. UNCHANGED <<done, shown, born, epp, flying, truth, place, trial, who, client, routed,
                  verified, retries, restarted, late>>
  BY DEF LogRows, engineVars, siteVars
<1>2. Logged(log') = Logged(log) /\ \A d \in Decoder : LoggedAt(log', d) = LoggedAt(log, d)
  BY LogShows DEF RouterInv
<1>3. (Whole' <=> Whole) /\ Who' = Who BY <1>1, <1>2 DEF Whole, Who
<1>4. EngineInv' BY <1>1 DEF EngineInv
<1>5. LogInv' BY <1>1, <1>2 DEF LogInv, Job
<1>6. ServedInv' BY <1>1 DEF ServedInv
<1>7. PickerInv' BY <1>1, <1>3 DEF PickerInv
<1>8. QuietInv'
  <2>1. (Quiet' <=> Quiet) /\ Job' = Job BY <1>1 DEF Quiet, Job
  <2>2. QED BY <1>1, <2>1 DEF QuietInv
<1>9. MovedInv' BY <1>1, <1>2, <1>3 DEF MovedInv, Job
<1>10. ReportedInv' BY <1>1 DEF ReportedInv
<1>11. QED BY <1>4, <1>5, <1>6, <1>7, <1>8, <1>9, <1>10

(* A picker that is replaced takes the log with it: what is then whole, has *)
(* not begun.                                                               *)
LEMMA EppReplacedAccounts == ASSUME RouterInv, AccountInv, EppReplaced PROVE AccountInv'
<1> USE DEF AccountInv
<1>1. /\ UNCHANGED <<done, shown, born, truth, place, trial, who, client, routed, verified,
                     retries>>
      /\ routed /\ epp'.born = epp.born + 1 /\ flying' = Orphans(flying) /\ log' = NewLog
  BY DEF EppReplaced
<1>2. \A x \in flying' : x.by = Stray
  <2>1. \A x \in flying : x = [by |-> x.by, to |-> x.to] BY Known
  <2>2. QED BY <1>1, <2>1 DEF Orphans
<1>3. /\ Logged(log') = 0 /\ \A d \in Decoder : LoggedAt(log', d) = 0
  BY <1>1, LogStarts
<1>4. /\ client.rows \in Nat /\ client.sent \in Nat /\ trial \in Jobs /\ trial # Stray
      /\ Logged(log) \in Nat /\ Cardinality(By(flying, trial)) \in Nat
      /\ Cardinality(By(flying, trial)) = 0 => By(flying, trial) = {}
      /\ client.rows + Cardinality(By(flying, trial)) <= client.sent
      /\ Logged(log) <= client.rows
      /\ \A d \in Decoder : LoggedAt(log, d) \in Nat
  BY Known DEF LogInv
<1>5. Whole' => /\ Whole /\ client.sent = 0 /\ By(flying, trial) = {}
                /\ \A d \in Decoder : LoggedAt(log, d) = 0
  <2>1. SUFFICES ASSUME Whole'
                 PROVE  /\ Whole /\ client.sent = 0 /\ By(flying, trial) = {}
                        /\ \A d \in Decoder : LoggedAt(log, d) = 0
    OBVIOUS
  <2>2. By(flying', trial) = {} BY <1>2, <1>4 DEF By
  <2>3. Cardinality(By(flying', trial)) = 0 BY <2>2, FS_EmptySet
  <2>4. client.rows = 0 /\ client.sent = 0 BY <1>1, <1>3, <2>1, <2>3 DEF Whole
  <2>5. \A d \in Decoder : LoggedAt(log, d) <= 0
    BY <2>4 DEF RouterInv, CountInv, LoggedAt
  <2>6. QED BY <1>4, <2>4, <2>5 DEF Whole
<1>6. EngineInv' BY <1>1, <1>2 DEF EngineInv
<1>7. LogInv' BY <1>1, <1>3, <1>4 DEF LogInv, Job
<1>8. ServedInv' BY <1>1 DEF ServedInv
<1>9. PickerInv'
  <2> SUFFICES ASSUME place \in Given PROVE PickerInv'
    BY <1>1 DEF PickerInv
  <2>1. who.decoders = born /\ who.epp \in 0..epp.born /\ epp.born \in Nat
    BY DEF PickerInv, EngineInv
  <2>2. who.epp \in 0..epp'.born /\ who.epp # epp'.born BY <1>1, <2>1
  <2>3. Who'.epp = epp'.born BY DEF Who
  <2>4. Who' # who BY <2>2, <2>3
  <2>5. Whole' => truth[trial].served = {} BY <1>5 DEF ServedInv
  <2>6. QED BY <1>1, <2>1, <2>2, <2>4, <2>5 DEF PickerInv
<1>10. QuietInv'
  <2>1. (Quiet => Quiet') /\ Job' = Job BY <1>1 DEF Quiet, Orphans, Job
  <2>2. Warming(done, shown, flying) => Warming(done', shown', flying')
    <3>1. SUFFICES ASSUME Warming(done, shown, flying) PROVE Warming(done, shown, flying')
      BY <1>1
    <3>2. PICK d \in Decoder :
            /\ \A e \in Decoder \ {d} : done[e] = NoTransfers /\ shown[e] = NoTransfers
            /\ shown[d] \in {NoTransfers, done[d]}
            /\ \E b : flying \subseteq {[by |-> b, to |-> d]}
            /\ flying # {} => done[d] = NoTransfers
      BY <3>1 DEF Warming
    <3>3. PICK b : flying \subseteq {[by |-> b, to |-> d]} BY <3>2
    <3>4. flying' \subseteq {[by |-> Stray, to |-> d]} /\ (flying' # {} => flying # {})
      BY <1>1, <3>3 DEF Orphans
    <3>5. QED BY <3>2, <3>4 DEF Warming
  <2>3. QED BY <1>1, <2>1, <2>2 DEF QuietInv
<1>11. MovedInv'
  <2> SUFFICES ASSUME retries = 0, place \in Given, Whole',
                      Job.mode # "qualify",
                      client.at \in {"bench", "after", "count", "ok"}
               PROVE  MovedInv'
    BY <1>1 DEF MovedInv, Job
  <2>1. \A d \in Decoder : LoggedAt(log', d) = LoggedAt(log, d) BY <1>3, <1>5
  <2>2. flying' = {} BY <1>1, <1>5 DEF MovedInv, By, Orphans
  <2>3. QED BY <1>1, <1>5, <2>1, <2>2 DEF MovedInv
<1>12. ReportedInv' BY <1>1 DEF ReportedInv
<1>13. QED BY <1>6, <1>7, <1>8, <1>9, <1>10, <1>11, <1>12

(* A picker that restarts in its Pod is noted. *)
LEMMA EppRestartsAccounts == ASSUME RouterInv, AccountInv, EppRestarts PROVE AccountInv'
<1> USE DEF AccountInv
<1>1. /\ UNCHANGED <<done, shown, born, flying, truth, place, trial, who, client, log, routed,
                     verified, retries>>
      /\ epp'.born = epp.born + 1 /\ restarted' = TRUE /\ late' = TRUE
  BY DEF EppRestarts, RestartEpp, jobVars
<1>2. EngineInv' BY <1>1 DEF EngineInv
<1>3. LogInv' BY <1>1 DEF LogInv, Job
<1>4. ServedInv' BY <1>1 DEF ServedInv
<1>5. PickerInv' BY <1>1 DEF PickerInv, EngineInv
<1>6. QuietInv'
  <2>1. (Quiet' <=> Quiet) /\ Job' = Job BY <1>1 DEF Quiet, Job
  <2>2. QED BY <1>1, <2>1 DEF QuietInv
<1>7. MovedInv'
  <2>1. Whole' <=> Whole BY <1>1 DEF Whole
  <2>2. QED BY <1>1, <2>1 DEF MovedInv, Job
<1>8. ReportedInv' BY <1>1 DEF ReportedInv
<1>9. QED BY <1>2, <1>3, <1>4, <1>5, <1>6, <1>7, <1>8

(* The clock does not touch the accounts. *)
LEMMA TickAccounts == ASSUME RouterInv, AccountInv, Tick PROVE AccountInv'
BY PlaceAccounts DEF Tick, engineVars, jobVars, siteVars

(* Nothing but the listed steps changes the state. *)
LEMMA StutterAccounts == ASSUME RouterInv, AccountInv, UNCHANGED routerVars PROVE AccountInv'
BY PlaceAccounts DEF routerVars, engineVars

-----------------------------------------------------------------------------
(* A session starts with engines at rest and nothing received. *)
LEMMA RouterInitAccounts == RouterInit => AccountInv
<1> SUFFICES ASSUME RouterInit PROVE AccountInv OBVIOUS
<1>1. /\ done = [d \in Decoder |-> NoTransfers] /\ shown = done /\ epp.born = 0
      /\ flying = {} /\ truth = [k \in Jobs |-> Untouched]
      /\ place = "admit" /\ trial = 1 /\ client = NoClient /\ log = NewLog /\ verified = {}
  BY DEF RouterInit, InitEngines
<1>2. trial \in Jobs /\ client.rows = 0 /\ client.sent = 0 BY <1>1, JobNumbers DEF NoClient
<1>3. EngineInv
  <2>1. \A k \in Jobs : truth[k].moved \in [Decoder -> Nat] /\ truth[k].bad \in Nat
    BY <1>1 DEF Untouched
  <2>2. \A d \in Decoder : done[d] = NoTransfers /\ shown[d] = NoTransfers BY <1>1
  <2>3. done \in [Decoder -> Transfers] BY <1>1, Outcomes
  <2>4. QED BY <1>1, <2>1, <2>2, <2>3, Outcomes DEF EngineInv
<1>4. LogInv BY <1>1, <1>2, LogStarts DEF LogInv
<1>5. ServedInv BY <1>1, <1>2 DEF ServedInv, Given, Untouched
<1>6. PickerInv BY <1>1 DEF PickerInv, Given
<1>7. QuietInv BY <1>1 DEF QuietInv, Quiet, Given
<1>8. MovedInv BY <1>1 DEF MovedInv, Given
<1>9. ReportedInv BY <1>1 DEF ReportedInv
<1>10. QED BY <1>3, <1>4, <1>5, <1>6, <1>7, <1>8, <1>9 DEF AccountInv

(* What the controller does. *)
LEMMA ControllingAccounts == ASSUME RouterInv, AccountInv, Controlling PROVE AccountInv'
BY StartJobAccounts, LiveIdentityAccounts, SeeExitAccounts, CollectAccounts,
   VerifyTrialAccounts, DrainAccounts, ApplyPickerAccounts, RolloutRestartAccounts,
   WaitDiscoveryAccounts, WarmupBeforeAccounts, WarmupRequestAccounts, WarmupDoneAccounts,
   WarmupTimeoutAccounts, FinalCollectAccounts, AbortAccounts, PreserveAccounts
DEF Controlling

(* What the client does. *)
LEMMA BenchmarkAccounts == ASSUME RouterInv, AccountInv, Benchmark PROVE AccountInv'
BY ClientStartAccounts, ClientReadsAccounts, ClientBeginsAccounts, ClientWaitsOnAccounts,
   ClientSendsAccounts, ClientReportedAccounts, ClientCountsAccounts,
   ClientInterruptsAccounts, ClientFailsAccounts, QualifyAsksAccounts,
   QualifyAnsweredAccounts, QualifyCountsAccounts
DEF Benchmark

(* What the engines, the picker and the log do. *)
LEMMA SurroundingsAccount == ASSUME RouterInv, AccountInv, Surroundings PROVE AccountInv'
BY OwnAnswerAccounts, OtherAnswerAccounts, EngineDiesAccounts, PageMovesAccounts,
   LogRowsAccounts, EppReplacedAccounts, EppRestartsAccounts
DEF Surroundings

(* The accounts of the jobs and of the engines agree in every state. *)
THEOREM AccountInvariance == RouterSpec => [](RouterInv /\ AccountInv)
<1>1. RouterInit => RouterInv /\ AccountInv BY RouterInitKeeps, RouterInitAccounts
<1>2. ASSUME RouterInv, AccountInv, [RouterNext]_routerVars
      PROVE  RouterInv' /\ AccountInv'
  <2>1. CASE UNCHANGED routerVars BY <1>2, <2>1, StutterKeeps, StutterAccounts
  <2>2. CASE Controlling BY <1>2, <2>2, ControllingKeeps, ControllingAccounts
  <2>3. CASE Benchmark BY <1>2, <2>3, BenchmarkKeeps, BenchmarkAccounts
  <2>4. CASE Surroundings BY <1>2, <2>4, SurroundingsKeep, SurroundingsAccount
  <2>5. CASE Tick BY <1>2, <2>5, TickKeeps, TickAccounts
  <2>6. QED BY <1>2, <2>1, <2>2, <2>3, <2>4, <2>5 DEF RouterNext
<1>3. QED BY <1>1, <1>2, PTL DEF RouterSpec

(* A verified trial ran under the policy it is reported for and, if its      *)
(* picker did not restart after the last look, on one picker.                *)
THEOREM PickerIsOne == RouterSpec => []OnePicker
<1>1. ASSUME RouterInv, AccountInv PROVE OnePicker
  <2>1. UnderPolicy BY <1>1 DEF RouterInv, VerifiedInv, UnderPolicy
  <2>2. QED BY <1>1, <2>1 DEF AccountInv, ReportedInv, OnePicker
<1>2. QED BY <1>1, AccountInvariance, PTL

(* transfer-verified.json says what the trial's own requests moved.          *)
THEOREM TransfersAreTrue == RouterSpec => []TransfersAccounted
<1>1. ASSUME RouterInv, AccountInv PROVE TransfersAccounted
  BY <1>1 DEF AccountInv, ReportedInv, TransfersAccounted
<1>2. QED BY <1>1, AccountInvariance, PTL
===============================================================================
