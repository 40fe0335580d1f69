------------------------- MODULE ServingSessionProofs -------------------------
(***************************************************************************)
(* Proofs about ServingSession, for all plans, policies, outcomes of a     *)
(* request and numbers of incidents and attempts that its assumptions      *)
(* admit.                                                                  *)
(***************************************************************************)
EXTENDS ServingSession, SequenceTheorems, FiniteSetTheorems, WellFoundedInduction,
        TLAPS

(* A decoder's counts, the workers, a sample, a snapshot, the traces of a kind. *)
Transfers == [good : Nat, bad : Nat]
Workers   == [decoders : [Decoder -> Nat], epp : Nat]
Samples   == [shown : [Decoder -> Transfers], busy : SUBSET Decoder]
Snapshots == [who : Workers, config : Policy, loaded : Policy, metrics : Samples,
              log : [rows : Nat, flawed : BOOLEAN]]
Truths    == [moved : [Decoder -> Nat], bad : Nat, served : SUBSET Workers,
              under : SUBSET Policy]

(* What the engines keep. *)
EngineTypes ==
  /\ done \in [Decoder -> Transfers] /\ shown \in [Decoder -> Transfers]
  /\ \A d \in Decoder : shown[d].good <= done[d].good /\ shown[d].bad <= done[d].bad
  /\ born \in [Decoder -> Nat] /\ epp \in [born : Nat, loaded : Policy]
  /\ configMap \in [policy : Policy, edits : Nat]
  /\ flying \subseteq [by : Kinds \cup {Stray}, to : Decoder]
  /\ truth \in [Kinds \cup {Stray} -> Truths]

(* What the programs and the benchmark Pod keep. *)
RunnerTypes ==
  /\ pc \in Places /\ late \in BOOLEAN /\ kind \in Kinds
  /\ base = None \/ base \in Workers
  /\ pc \in Settling \ {"poll1"} => sample \in Samples
  /\ pc = "metrics" => seen \in [who : Workers, config : Policy]
  /\ pc \in {"latesleep", "late"} => full \in Snapshots
  /\ snap \in Seq(Snapshots)
  /\ marker \in BOOLEAN /\ validated \subseteq 4..kind /\ attempt \in 0..Attempts
  /\ pod \in {"none", "running", "done", "crashed", "ended", "gone"} /\ sent \in Nat
  /\ call = None \/ call \in [by : Kinds, to : Decoder]
  /\ log \in [rows : Nat, flawed : BOOLEAN]
  /\ report \in {"none", "written", "copied", "lost"}

(* The phase of the session the controller is in. *)
PhaseInv ==
  /\ IF Qualifying
     THEN /\ ~marker /\ validated = {} /\ pod = "none"
          /\ pc \in Boots \cup Settling \cup {"ask", "await", "judge", "failed"}
          /\ pc \in Settling => kind = IF Len(snap) < 3 THEN Len(snap) + 1 ELSE 3
          /\ pc \in Settling => Len(snap) <= 3
          /\ pc \in {"ask", "await"} => Len(snap) = kind
          /\ pc = "judge" => Len(snap) = 4 /\ kind = 3
          /\ pc = "failed" => snap = <<>>
     ELSE /\ marker
          /\ pc \notin Boots \cup {"ask", "await", "latesleep", "late"}
          /\ pc \in Settling \cup {"preserve", "drop", "failed"} => Len(snap) <= 1
          /\ pc \in {"create", "exit"} => Len(snap) = 1
          /\ pc \in {"judge", "delete"} => Len(snap) = 2
  /\ pc \in Boots \cup {"start", "complete"} => snap = <<>>
  /\ pc \in Boots => kind = 1

(* The workers a program compares with are those of an earlier look. *)
BaseInv ==
  /\ base # None => base.epp <= epp.born /\ \A d \in Decoder : base.decoders[d] <= born[d]
  /\ pc \in (Settling \ {"poll1"}) \cup {"ask", "await", "judge", "create", "exit", "delete"}
       => base # None
  /\ pc = "poll1" /\ (~Qualifying \/ snap # <<>>) => base # None

(* Who may be sending. *)
SenderInv ==
  /\ pod = "running" => pc \in {"exit", "preserve", "drop", "failed"} /\ kind \notin validated
  /\ call # None => /\ call.by = kind
                    /\ IF Qualifying THEN pc \in {"await", "failed"} ELSE pod = "running"
  /\ \A r \in flying : IF Qualifying THEN r.by = kind /\ pc \in {"await", "failed"}
                       ELSE r.by = Stray \/ (r.by = kind /\ kind \notin validated)
  /\ pc = "await" /\ ~log.flawed => flying = IF call = None THEN {} ELSE {call}
  /\ pc = "start" \/ (~Qualifying /\ pc \in Settling /\ snap = <<>>)
       => \A r \in flying : r.by = Stray
  /\ pc \in {"create", "judge", "delete", "complete"} => flying = {}
  /\ Measured => \A r \in flying : r.by = kind

(* Two samples that settle enclose a time when nothing happened. *)
SettleInv ==
  /\ pc \in {"sleep", "poll"} /\ sample.busy = {} => flying = {}
  /\ pc = "poll" /\ sample.busy = {} => shown = done
  /\ pc \in {"pods", "metrics"} => sample.busy = {} /\ flying = {} /\ shown = done
  /\ pc \in {"latesleep", "late"} => flying = {}
  /\ pc = "late" => shown = done

(* Two pages differ by the transfers of t. *)
Between(a, b, t) ==
  /\ \A d \in Decoder : b[d].good = a[d].good + t.moved[d]
  /\ b["local"].bad + b["remote"].bad = a["local"].bad + a["remote"].bad + t.bad

(* The pages of transfers in a snapshot. *)
Page(i) == snap[i].metrics.shown

(* No request of the kind in hand was sent yet. *)
Unasked ==
  \/ pc \in Boots \cup {"start", "create", "ask"}
  \/ pc \in Settling /\ IF Qualifying THEN Len(snap) < 3 ELSE snap = <<>>

(* Requests leave their traces with the kind that is being done. *)
TruthInv ==
  /\ \A k \in Kinds : k > kind => truth[k] = Untouched
  /\ Unasked => truth[kind] = Untouched

(* Correctness: each snapshot differs from the last by one request. *)
QualifyInv ==
  Qualifying =>
    /\ \A i \in 1..(Len(snap) - 1) : Between(Page(i), Page(i + 1), truth[i])
    /\ snap # <<>> /\ pc # "judge" /\ base = Who =>
         Between(Page(Len(snap)), done, truth[Len(snap)])

(* The item was served by the workers and under the policy of its snapshot. *)
ServedAlike ==
  truth[kind].served \subseteq {base} /\ truth[kind].under \subseteq {snap[1].loaded}

(* At least one request of the kind was received. *)
HasServed == truth[kind].served # {} /\ truth[kind].under # {}

(* A row of another decoder than the item's is a flaw of its log. *)
PinKept ==
  Pin(kind) # None => \A d \in Decoder \ {Pin(kind)} : truth[kind].moved[d] = 0

(* While the Pod has its records, each request has its row or is waited for. *)
RowsInv ==
  Measured =>
    /\ log.rows > 0 \/ call # None => HasServed
    /\ pod \in {"running", "done"} /\ ~log.flawed =>
         PinKept /\ flying = IF call = None THEN {} ELSE {call}

(* Measurement: from the first snapshot on every transfer is the item's. *)
MeasureInv ==
  ~Qualifying /\ Len(snap) = 1 =>
    /\ base = Who => /\ Between(Page(1), done, truth[kind])
                     /\ ServedAlike /\ epp.loaded = snap[1].loaded
    /\ pc \in Settling => ServedAlike
    /\ pc \in {"pods", "metrics"} => Between(Page(1), sample.shown, truth[kind])

(* The second snapshot has all there is to judge the item by. *)
JudgeInv ==
  ~Qualifying /\ Len(snap) = 2 =>
    /\ Between(Page(1), Page(2), truth[kind]) /\ ServedAlike
    /\ snap[2].log.rows > 0 => HasServed
    /\ ~snap[2].log.flawed => PinKept
    /\ report = "copied"

(* Two items of one program: both are arms, or both policy blocks. *)
Alike(j, k) == (Pin(j) = None) = (Pin(k) = None)

(* What the session claims of the work that is done. *)
Judged == MarkerTruthful /\ ArmTruthful /\ SameWorkers /\ PolicyHeld

(* What is validated stays as it was judged. *)
ValidatedInv ==
  /\ Judged
  /\ \A k \in validated : Alike(k, kind) => pc # "start" /\ truth[k].served = {base}
  /\ kind \in validated => pc \in {"delete", "failed", "complete"} /\ report = "copied"

ServingInv ==
  /\ EngineTypes /\ RunnerTypes /\ PhaseInv /\ BaseInv /\ SenderInv /\ SettleInv
  /\ TruthInv /\ QualifyInv /\ RowsInv /\ MeasureInv /\ JudgeInv
  /\ ValidatedInv

-----------------------------------------------------------------------------
(* What is assumed of the constants *)

(* There are two decoders. *)
LEMMA Decoders ==
  /\ Decoder = {"local", "remote"} /\ "local" \in Decoder /\ "remote" \in Decoder
  /\ None \notin Decoder
BY ServingAssumption, NoneAssumption DEF ServingAssumption, NoneAssumption

(* The work is numbered from 1, and each kind of work has a pin or none. *)
LEMMA Work ==
  /\ Len(Plan) \in Nat \ {0} /\ Kinds \subseteq Nat
  /\ \A k \in Nat : k \in Kinds <=> 1 <= k /\ k <= 3 + Len(Plan)
  /\ Stray \notin Kinds /\ Stray \in Nat
  /\ \A k \in Kinds : Pin(k) = None \/ Pin(k) \in Decoder
  /\ \A k \in 1..3 : k \in Kinds /\ Pin(k) \in Decoder
  /\ \A k \in Kinds : k > 3 => Item(k).count \in Nat \ {0}
<1> DEFINE Arm == [pin : Decoder \cup {None}, count : Nat \ {0}]
<1>1. Plan \in Seq(Arm) /\ Plan # <<>> BY ServingAssumption DEF ServingAssumption
<1> HIDE DEF Arm
<1>2. Len(Plan) \in Nat \ {0} BY <1>1, LenProperties, EmptySeq
<1>3. \A i \in 1..Len(Plan) : Plan[i] \in Arm BY <1>1, ElementOfSeq
<1>4. ASSUME NEW k \in Kinds, k > 3
      PROVE  Item(k).count \in Nat \ {0} /\ Item(k).pin \in Decoder \cup {None}
  <2>1. k - 3 \in 1..Len(Plan) BY <1>2, <1>4 DEF Kinds
  <2>2. Item(k) \in Arm BY <1>3, <2>1 DEF Item
  <2>3. QED BY <2>2 DEF Arm
<1>5. \A k \in 1..3 : k \in Kinds /\ Pin(k) \in Decoder
  BY <1>2, Decoders DEF Kinds, Pin
<1>6. \A k \in Kinds : Pin(k) = None \/ Pin(k) \in Decoder
  <2>1. \A k \in Kinds : k \in Nat /\ (k <= 3 => k \in 1..3) BY <1>2 DEF Kinds
  <2>2. \A k \in Kinds : k > 3 => Pin(k) = Item(k).pin BY <2>1 DEF Pin
  <2>3. QED BY <1>4, <1>5, <2>1, <2>2
<1>7. QED BY <1>2, <1>4, <1>5, <1>6 DEF Kinds, Stray

(* Once the blocks have begun, there are no more arms. *)
LEMMA ArmsFirst ==
  ASSUME NEW j \in Kinds, NEW k \in Kinds, 3 < j, j < k, Pin(j) = None
  PROVE  Pin(k) = None
<1>1. j \in Nat /\ k \in Nat BY Work
<1>2. j - 3 \in 1..Len(Plan) /\ k - 3 \in 1..Len(Plan) /\ j - 3 < k - 3
  BY <1>1, Work DEF Kinds
<1>3. DOMAIN Plan = 1..Len(Plan) BY ServingAssumption, LenProperties DEF ServingAssumption
<1>4. Plan[j - 3].pin = None BY <1>1 DEF Pin, Item
<1>5. Plan[k - 3].pin = None BY <1>2, <1>3, <1>4, ServingAssumption DEF ServingAssumption
<1>6. QED BY <1>1, <1>5 DEF Pin, Item

(* A set of numbers has a smallest. *)
LEMMA Smallest ==
  ASSUME NEW S, S \subseteq Nat, S # {}
  PROVE  \E n \in S : \A m \in S : n <= m
<1> DEFINE R == {p \in Nat \X Nat : p[1] < p[2]}
<1>1. OpToRel(<, Nat) = R BY DEF OpToRel
<1>2. IsWellFoundedOn(R, Nat) BY <1>1, NatLessThanWellFounded
<1> HIDE DEF R
<1>3. PICK n \in S : \A m \in S : ~(<<m, n>> \in R) BY <1>2, WFMin
<1>4. \A m \in S : m < n => <<m, n>> \in R BY DEF R
<1>5. \A m \in S : ~(m < n) BY <1>3, <1>4
<1>6. \A m \in S : m \in Nat /\ n \in Nat BY <1>3
<1>7. \A m \in S : n <= m BY <1>5, <1>6
<1>8. QED BY <1>7

(* A program begins where the items become of its sort. *)
LEMMA FirstOfProgram ==
  ASSUME NEW k \in Kinds, k > 3
  PROVE  /\ FirstOf(k) \in 4..k /\ Alike(FirstOf(k), k)
         /\ \A i \in 4..k : i < FirstOf(k) => ~Alike(i, FirstOf(k))
<1> DEFINE First(j) == /\ \A i \in j..k : (Pin(i) = None) = (Pin(k) = None)
                       /\ j > 4 => (Pin(j - 1) = None) # (Pin(k) = None)
<1>1. k \in Nat /\ k \in 4..k /\ 4..k \subseteq Kinds
  BY Work DEF Kinds
<1>2. \E j \in 4..k : First(j)
  <2>1. CASE Pin(k) # None
    <3>1. \A i \in 4..k : Pin(i) # None BY <1>1, <2>1, ArmsFirst
    <3>2. 4 \in 4..k BY <1>1
    <3>3. First(4) BY <2>1, <3>1
    <3>4. QED BY <3>2, <3>3
  <2>2. CASE Pin(k) = None
    <3> DEFINE S == {i \in 4..k : Pin(i) = None}
    <3>1. S \subseteq Nat /\ k \in S BY <1>1, <2>2
    <3>2. PICK j \in S : \A i \in S : j <= i BY <3>1, Smallest
    <3>3. \A i \in j..k : Pin(i) = None
      <4>1. \A i \in j..k : i = j \/ (j < i /\ i \in 4..k) BY <1>1, <3>2
      <4>2. QED BY <1>1, <3>2, <4>1, ArmsFirst
    <3>4. j > 4 => Pin(j - 1) # None
      <4>1. j > 4 => j - 1 \in 4..k /\ ~(j <= j - 1) BY <1>1, <3>2
      <4>2. QED BY <3>2, <4>1
    <3>5. QED BY <2>2, <3>2, <3>3, <3>4
  <2>3. QED BY <2>1, <2>2
<1>3. FirstOf(k) \in 4..k /\ First(FirstOf(k)) BY <1>2 DEF FirstOf
<1> DEFINE j == FirstOf(k)
<1>4. j \in j..k /\ j \in Nat BY <1>1, <1>3
<1>5. Alike(j, k) BY <1>3, <1>4 DEF Alike
<1>6. ASSUME NEW i \in 4..k, i < j
      PROVE  ~Alike(i, j)
  <2>1. j - 1 \in 4..k /\ i <= j - 1 /\ j - 1 < k /\ j > 4 BY <1>1, <1>3, <1>4, <1>6
  <2>2. Pin(j - 1) = None => Pin(k) = None BY <1>1, <2>1, ArmsFirst
  <2>3. Pin(j - 1) # None /\ Pin(k) = None BY <1>3, <2>1, <2>2
  <2>4. Pin(i) = None => i = j - 1 \/ Pin(j - 1) = None BY <1>1, <2>1, ArmsFirst
  <2>5. QED BY <1>5, <2>3, <2>4 DEF Alike
<1>7. QED BY <1>3, <1>5, <1>6

-----------------------------------------------------------------------------
(* What the engines do *)

(* What a small number can be. *)
LEMMA Few ==
  \A n \in Nat : /\ n <= 1 <=> n \in {0, 1}
                 /\ n < 3 <=> n \in {0, 1, 2}
                 /\ n <= 3 <=> n \in {0, 1, 2, 3}
                 /\ n <= 4 <=> n \in {0, 1, 2, 3, 4}
OBVIOUS

(* The workers are what the programs record. *)
LEMMA WhoTyped == EngineTypes => Who \in Workers /\ Sample \in Samples
<1> SUFFICES ASSUME EngineTypes PROVE Who \in Workers /\ Sample \in Samples
  OBVIOUS
<1>1. Who \in Workers BY DEF EngineTypes, Who, Workers
<1>2. {r.to : r \in flying} \subseteq Decoder BY DEF EngineTypes
<1>3. shown \in [Decoder -> Transfers] BY DEF EngineTypes
<1>4. Sample \in Samples BY <1>2, <1>3 DEF Sample, Samples
<1>5. QED BY <1>1, <1>4

(* A request that is received is noted for its kind, and for no other. *)
LEMMA Received ==
  ASSUME EngineTypes, NEW k \in Kinds, NEW d \in Decoder, Receive(k, d)
  PROVE  /\ EngineTypes'
         /\ [by |-> k, to |-> d] \notin flying
         /\ flying' = flying \cup {[by |-> k, to |-> d]}
         /\ UNCHANGED <<done, shown, born, epp, configMap>>
         /\ \A j \in Kinds \cup {Stray} : j # k => truth'[j] = truth[j]
         /\ truth'[k].moved = truth[k].moved /\ truth'[k].bad = truth[k].bad
         /\ truth'[k].served = truth[k].served \cup {Who}
         /\ truth'[k].under = truth[k].under \cup {epp.loaded}
<1>1. truth \in [Kinds \cup {Stray} -> Truths] BY DEF EngineTypes
<1>2. PICK m \in [Decoder -> Nat], b \in Nat, s \in SUBSET Workers, u \in SUBSET Policy :
        truth[k] = [moved |-> m, bad |-> b, served |-> s, under |-> u]
  BY <1>1 DEF Truths
<1>3. truth'[k] = [moved |-> m, bad |-> b, served |-> s \cup {Who},
                   under |-> u \cup {epp.loaded}]
  <2>1. k \in DOMAIN truth BY <1>1
  <2>2. truth'[k] = [truth[k] EXCEPT !.served = @ \cup {Who}, !.under = @ \cup {epp.loaded}]
    BY <2>1 DEF Receive
  <2>3. truth'[k] = [[moved |-> m, bad |-> b, served |-> s, under |-> u]
                       EXCEPT !.served = @ \cup {Who}, !.under = @ \cup {epp.loaded}]
    BY <1>2, <2>2
  <2>4. QED BY <2>3
<1>4. \A j \in Kinds \cup {Stray} : j # k => truth'[j] = truth[j]
  BY <1>1 DEF Receive
<1>5. epp.loaded \in Policy BY DEF EngineTypes
<1>6. truth'[k] \in Truths BY <1>3, <1>5, WhoTyped DEF Truths
<1>7. truth' \in [Kinds \cup {Stray} -> Truths] BY <1>1, <1>4, <1>6 DEF Receive
<1>8. /\ [by |-> k, to |-> d] \notin flying
      /\ flying' = flying \cup {[by |-> k, to |-> d]}
      /\ UNCHANGED <<done, shown, born, epp, configMap>>
  BY DEF Receive
<1>9. EngineTypes'
  <2>1. flying' \subseteq [by : Kinds \cup {Stray}, to : Decoder] BY <1>8 DEF EngineTypes
  <2>2. QED BY <1>7, <1>8, <2>1 DEF EngineTypes
<1>10. /\ truth'[k].moved = truth[k].moved /\ truth'[k].bad = truth[k].bad
       /\ truth'[k].served = truth[k].served \cup {Who}
       /\ truth'[k].under = truth[k].under \cup {epp.loaded}
  BY <1>2, <1>3
<1>11. QED BY <1>4, <1>8, <1>9, <1>10

(* What an answered request did is counted on its decoder and for its kind. *)
LEMMA Finished ==
  ASSUME EngineTypes, NEW r, Finish(r)
  PROVE  /\ EngineTypes'
         /\ r \in flying /\ r.by \in Kinds \cup {Stray} /\ r.to \in Decoder
         /\ r = [by |-> r.by, to |-> r.to]
         /\ flying' = flying \ {r}
         /\ UNCHANGED <<shown, born, epp, configMap>>
         /\ \A j \in Kinds \cup {Stray} : j # r.by => truth'[j] = truth[j]
         /\ truth'[r.by].served = truth[r.by].served
         /\ truth'[r.by].under = truth[r.by].under
         /\ \A d \in Decoder : d # r.to => truth'[r.by].moved[d] = truth[r.by].moved[d]
         /\ \A a \in [Decoder -> Transfers] :
              Between(a, done, truth[r.by]) => Between(a, done', truth'[r.by])
<1>1. truth \in [Kinds \cup {Stray} -> Truths] /\ done \in [Decoder -> Transfers]
  BY DEF EngineTypes
<1>2. r \in flying /\ r.by \in Kinds \cup {Stray} /\ r.to \in Decoder
      /\ r = [by |-> r.by, to |-> r.to]
  BY DEF Finish, EngineTypes
<1>3. PICK o \in Outcome :
        /\ done' = [done EXCEPT ![r.to] = Plus(@, o)]
        /\ truth' = [j \in DOMAIN truth |->
                      IF j = r.by THEN [truth[j] EXCEPT !.moved[r.to] = @ + o.good,
                                                        !.bad = @ + o.bad]
                                  ELSE truth[j]]
  BY DEF Finish
<1>4. o.good \in Nat /\ o.bad \in Nat BY ServingAssumption DEF ServingAssumption
<1>5. PICK m \in [Decoder -> Nat], b \in Nat, s \in SUBSET Workers, u \in SUBSET Policy :
        truth[r.by] = [moved |-> m, bad |-> b, served |-> s, under |-> u]
  BY <1>1, <1>2 DEF Truths
<1>6. truth'[r.by] = [moved |-> [m EXCEPT ![r.to] = @ + o.good], bad |-> b + o.bad,
                      served |-> s, under |-> u]
  <2>1. r.by \in DOMAIN truth BY <1>1, <1>2
  <2>2. truth'[r.by] = [truth[r.by] EXCEPT !.moved[r.to] = @ + o.good, !.bad = @ + o.bad]
    BY <1>3, <2>1
  <2>3. truth'[r.by] = [[moved |-> m, bad |-> b, served |-> s, under |-> u]
                          EXCEPT !.moved[r.to] = @ + o.good, !.bad = @ + o.bad]
    BY <1>5, <2>2
  <2>4. QED BY <2>3
<1>7. \A j \in Kinds \cup {Stray} : j # r.by => truth'[j] = truth[j] BY <1>1, <1>3
<1>8. [m EXCEPT ![r.to] = @ + o.good] \in [Decoder -> Nat] BY <1>2, <1>4, <1>5
<1>9. truth'[r.by] \in Truths BY <1>4, <1>5, <1>6, <1>8 DEF Truths
<1>10. truth' \in [Kinds \cup {Stray} -> Truths] BY <1>1, <1>3, <1>7, <1>9
<1>11. PICK g \in Nat, h \in Nat : done[r.to] = [good |-> g, bad |-> h]
  BY <1>1, <1>2 DEF Transfers
<1> DEFINE sum == [good |-> g + o.good, bad |-> h + o.bad]
<1>12. done' = [done EXCEPT ![r.to] = sum]
  <2>1. Plus(done[r.to], o) = sum BY <1>11 DEF Plus
  <2>2. QED BY <1>1, <1>2, <1>3, <2>1
<1>13. done' \in [Decoder -> Transfers]
  <2>1. sum \in Transfers BY <1>4 DEF Transfers
  <2>2. QED BY <1>1, <1>12, <2>1
<1> HIDE DEF sum
<1>14. \A d \in Decoder : /\ done'[d].good = done[d].good + (IF d = r.to THEN o.good ELSE 0)
                          /\ done'[d].bad = done[d].bad + (IF d = r.to THEN o.bad ELSE 0)
  <2>1. \A d \in Decoder : done[d].good \in Nat /\ done[d].bad \in Nat
    BY <1>1 DEF Transfers
  <2>2. sum.good = done[r.to].good + o.good /\ sum.bad = done[r.to].bad + o.bad
    BY <1>11 DEF sum
  <2>3. \A d \in Decoder : done'[d] = IF d = r.to THEN sum ELSE done[d] BY <1>1, <1>12
  <2>4. QED BY <2>1, <2>2, <2>3
<1>15. EngineTypes'
  <2>1. \A d \in Decoder : shown'[d].good <= done'[d].good /\ shown'[d].bad <= done'[d].bad
    <3>1. \A d \in Decoder : /\ shown[d].good <= done[d].good /\ shown[d].bad <= done[d].bad
                             /\ shown[d].good \in Nat /\ shown[d].bad \in Nat
                             /\ done[d].good \in Nat /\ done[d].bad \in Nat
      BY DEF EngineTypes, Transfers
    <3>2. shown' = shown BY DEF Finish
    <3> HIDE DEF sum
    <3>3. QED BY <1>4, <1>14, <3>1, <3>2
  <2>2. QED BY <1>10, <1>13, <2>1 DEF EngineTypes, Finish
<1>16. ASSUME NEW a \in [Decoder -> Transfers], Between(a, done, truth[r.by])
       PROVE  Between(a, done', truth'[r.by])
  <2>1. \A d \in Decoder : /\ a[d].good \in Nat /\ a[d].bad \in Nat
                           /\ done[d].good \in Nat /\ done[d].bad \in Nat /\ m[d] \in Nat
    BY <1>1, <1>5, <1>16 DEF Transfers
  <2>2. \A d \in Decoder : done[d].good = a[d].good + m[d] BY <1>5, <1>16 DEF Between
  <2>3. \A d \in Decoder :
          truth'[r.by].moved[d] = m[d] + (IF d = r.to THEN o.good ELSE 0)
    BY <1>2, <1>4, <1>5, <1>6, <2>1
  <2>4. ASSUME NEW d \in Decoder PROVE done'[d].good = a[d].good + truth'[r.by].moved[d]
    BY <1>4, <1>14, <2>1, <2>2, <2>3
  <2>5. done["local"].bad + done["remote"].bad = a["local"].bad + a["remote"].bad + b
    BY <1>5, <1>16 DEF Between
  <2>6. truth'[r.by].bad = b + o.bad BY <1>6
  <2>7. r.to = "local" \/ r.to = "remote" BY <1>2, Decoders
  <2>8. done'["local"].bad + done'["remote"].bad
          = done["local"].bad + done["remote"].bad + o.bad
    BY <1>4, <1>14, <2>1, <2>7, Decoders
  <2>9. done'["local"].bad + done'["remote"].bad
          = a["local"].bad + a["remote"].bad + truth'[r.by].bad
    BY <1>4, <1>5, <2>1, <2>5, <2>6, <2>8, Decoders
  <2>10. QED BY <2>4, <2>9 DEF Between
<1>17. \A d \in Decoder : d # r.to => truth'[r.by].moved[d] = truth[r.by].moved[d]
  BY <1>5, <1>6
<1>18. flying' = flying \ {r} /\ UNCHANGED <<shown, born, epp, configMap>> BY DEF Finish
<1>19. truth'[r.by].served = truth[r.by].served /\ truth'[r.by].under = truth[r.by].under
  BY <1>5, <1>6
<1>20. QED BY <1>2, <1>7, <1>15, <1>16, <1>17, <1>18, <1>19

(* What a restarted container counted is gone, with its requests. *)
LEMMA Restarted ==
  ASSUME EngineTypes, NEW d \in Decoder, RestartDecoder(d)
  PROVE  /\ EngineTypes'
         /\ flying' = {r \in flying : r.to # d}
         /\ born'[d] > born[d] /\ \A e \in Decoder : born'[e] >= born[e]
         /\ shown = done => shown' = done'
         /\ UNCHANGED <<epp, configMap, truth>>
<1>1. NoTransfers \in Transfers /\ NoTransfers.good = 0 /\ NoTransfers.bad = 0
  BY DEF NoTransfers, Transfers
<1>2. done' \in [Decoder -> Transfers] /\ shown' \in [Decoder -> Transfers]
  BY <1>1 DEF EngineTypes, RestartDecoder
<1>3. ASSUME NEW e \in Decoder
      PROVE  shown'[e].good <= done'[e].good /\ shown'[e].bad <= done'[e].bad
  BY <1>1, <1>3 DEF EngineTypes, RestartDecoder
<1>4. born \in [Decoder -> Nat] /\ born' = [born EXCEPT ![d] = @ + 1]
  BY DEF EngineTypes, RestartDecoder
<1>5. born' \in [Decoder -> Nat] BY <1>4
<1>6. born'[d] > born[d] /\ \A e \in Decoder : born'[e] >= born[e] BY <1>4
<1>7. flying' \subseteq flying BY DEF RestartDecoder
<1>8. EngineTypes' BY <1>2, <1>3, <1>5, <1>7 DEF EngineTypes, RestartDecoder
<1>9. QED BY <1>6, <1>8 DEF RestartDecoder

(* A page moves on to what was done. *)
LEMMA Reported ==
  ASSUME EngineTypes, NEW d \in Decoder, Report(d)
  PROVE  /\ EngineTypes' /\ shown # done
         /\ UNCHANGED <<done, born, epp, configMap, flying, truth>>
<1>1. shown' = [shown EXCEPT ![d] = done[d]] /\ done \in [Decoder -> Transfers]
  BY DEF EngineTypes, Report
<1>2. shown' \in [Decoder -> Transfers] BY <1>1 DEF EngineTypes
<1>3. ASSUME NEW e \in Decoder
      PROVE  shown'[e].good <= done'[e].good /\ shown'[e].bad <= done'[e].bad
  <2>1. shown'[e] = IF e = d THEN done[e] ELSE shown[e] BY <1>1 DEF EngineTypes
  <2>2. done[e].good \in Nat /\ done[e].bad \in Nat BY DEF EngineTypes, Transfers
  <2>3. QED BY <2>1, <2>2 DEF EngineTypes, Report
<1>4. QED BY <1>2, <1>3 DEF EngineTypes, Report

(* After a settle interval the pages show all that was done. *)
LEMMA AllReported == ASSUME EngineTypes, ReportAll PROVE EngineTypes'
<1>1. \A d \in Decoder : done[d].good \in Nat /\ done[d].bad \in Nat
  BY DEF EngineTypes, Transfers
<1>2. QED BY <1>1 DEF EngineTypes, ReportAll

(* A new picker is another worker, and has the policy of the ConfigMap. *)
LEMMA Switched ==
  ASSUME EngineTypes, EditConfigMap \/ RestartEpp
  PROVE  /\ EngineTypes' /\ UNCHANGED <<done, shown, born, flying, truth>>
         /\ EditConfigMap => epp' = epp
         /\ RestartEpp => epp'.born > epp.born
<1>1. CASE EditConfigMap BY <1>1 DEF EngineTypes, EditConfigMap, RestartEpp
<1>2. CASE RestartEpp BY <1>2 DEF EngineTypes, EditConfigMap, RestartEpp
<1>3. QED BY <1>1, <1>2

(* Everything has its type: the kind of work, the snapshots, the workers. *)
LEMMA Now ==
  ASSUME EngineTypes, RunnerTypes
  PROVE  /\ kind \in Nat /\ 1 <= kind /\ kind \in Kinds
         /\ Len(snap) \in Nat /\ (snap = <<>> <=> Len(snap) = 0)
         /\ <<>> \in Seq(Snapshots) /\ Len(<<>>) = 0
         /\ \A i \in 1..Len(snap) : Page(i) \in [Decoder -> Transfers]
         /\ Who \in Workers /\ Who # None /\ Sample \in Samples
         /\ Len(Plan) \in Nat /\ kind <= 3 + Len(Plan)
<1>1. kind \in Nat /\ 1 <= kind /\ kind \in Kinds /\ kind <= 3 + Len(Plan)
      /\ Len(Plan) \in Nat
  BY Work DEF RunnerTypes
<1>2. /\ Len(snap) \in Nat /\ (snap = <<>> <=> Len(snap) = 0)
      /\ <<>> \in Seq(Snapshots) /\ Len(<<>>) = 0
  BY LenProperties, EmptySeq DEF RunnerTypes
<1>3. ASSUME NEW i \in 1..Len(snap) PROVE Page(i) \in [Decoder -> Transfers]
  <2>1. snap[i] \in Snapshots BY ElementOfSeq DEF RunnerTypes
  <2>2. QED BY <2>1 DEF Snapshots, Samples, Page
<1>4. Who \in Workers /\ Who # None /\ Sample \in Samples
  BY WhoTyped, NoneAssumption DEF Workers, NoneAssumption
<1>5. QED BY <1>1, <1>2, <1>3, <1>4

(* A page differs from itself by nothing. *)
LEMMA StartsEqual ==
  ASSUME EngineTypes PROVE Between(done, done, Untouched)
BY Decoders DEF EngineTypes, Transfers, Between, Untouched

(* What was judged of the work of other kinds stays so. *)
LEMMA JudgedStays ==
  ASSUME Judged, validated' \subseteq validated, marker' = marker,
         \A k \in validated' : truth'[k] = truth[k],
         marker => \A k \in 1..3 : truth'[k] = truth[k]
  PROVE  Judged'
BY DEF Judged, MarkerTruthful, ArmTruthful, SameWorkers, PolicyHeld

-----------------------------------------------------------------------------
(* Steps of the controller *)

(* Until the deployment is ready nothing is measured. *)
LEMMA PhaseKeeps ==
  ASSUME ServingInv, NEW from, NEW to,
         <<from, to>> \in {<<"apply", "outputs">>, <<"outputs", "nodes">>,
                          <<"nodes", "deploy">>, <<"deploy", "serving">>,
                          <<"serving", "client">>, <<"client", "poll1">>},
         Phase(from, to)
  PROVE  ServingInv'
<1> USE DEF ServingInv, Phase
<1>a. /\ pc \in Boots /\ pc' \in (Boots \ {"apply"}) \cup {"poll1"}
      /\ kind = 1 /\ kind <= 3 /\ Qualifying /\ snap = <<>> /\ Len(snap) = 0
  BY Now DEF PhaseInv, Boots, Qualifying
<1>1. EngineTypes' BY DEF EngineTypes, engineVars, runnerVars, podVars
<1>2. RunnerTypes' BY DEF RunnerTypes, Places, Boots, Settling, Terminal, engineVars,
      runnerVars, podVars
<1>3. PhaseInv' BY DEF PhaseInv, Qualifying, Boots, Settling, engineVars, runnerVars, podVars
<1>4. BaseInv' BY <1>a DEF BaseInv, Qualifying, Settling, engineVars, runnerVars, podVars
<1>5. SenderInv' BY <1>a DEF SenderInv, Qualifying, Settling, Measured, engineVars, runnerVars,
      podVars
<1>6. SettleInv' BY DEF SettleInv, engineVars, runnerVars, podVars
<1>7. TruthInv' BY DEF TruthInv, Unasked, Boots, Settling, Qualifying, engineVars, runnerVars,
      podVars
<1>8. QualifyInv' BY DEF QualifyInv, Qualifying, Page, Who, engineVars, runnerVars, podVars
<1>9. RowsInv' BY DEF RowsInv, Measured, HasServed, PinKept, Qualifying, engineVars, runnerVars,
      podVars
<1>10. MeasureInv' BY <1>a DEF MeasureInv, Qualifying, Page, Who, ServedAlike, Settling,
      engineVars, runnerVars, podVars
<1>11. JudgeInv' BY DEF JudgeInv, Qualifying, Page, ServedAlike, HasServed, PinKept, engineVars,
      runnerVars, podVars
<1>12. ValidatedInv' BY DEF ValidatedInv, Judged, MarkerTruthful, ArmTruthful, SameWorkers,
      PolicyHeld, engineVars, runnerVars, podVars
<1>13. QED BY <1>1, <1>2, <1>3, <1>4, <1>5, <1>6, <1>7, <1>8, <1>9, <1>10, <1>11, <1>12

(* The first poll takes the workers of the program, or finds them again. *)
LEMMA FirstPollKeeps == ASSUME ServingInv, FirstPoll PROVE ServingInv'
<1> USE DEF ServingInv, FirstPoll
<1>a. /\ ~Qualifying => Len(snap) <= 1
      /\ Qualifying => validated = {}
      /\ ~Qualifying \/ snap # <<>> => base' = base
  BY DEF PhaseInv, BaseInv, Settling, SameAsBaseline
<1>1. EngineTypes' BY DEF EngineTypes, engineVars, podVars
<1>2. RunnerTypes' BY Now DEF RunnerTypes, Places, Boots, Settling, Terminal, engineVars,
      podVars
<1>3. PhaseInv' BY DEF PhaseInv, Qualifying, Boots, Settling, engineVars, podVars
<1>4. BaseInv'
  <2>1. /\ base'.epp = epp.born /\ base'.decoders = born /\ base' # None
        /\ epp.born \in Nat /\ \A d \in Decoder : born[d] \in Nat
    BY Now DEF EngineTypes, Who
  <2>2. QED BY <2>1 DEF BaseInv, engineVars
<1>5. SenderInv' BY DEF SenderInv, Qualifying, Settling, Measured, engineVars, podVars
<1>6. SettleInv'
  <2>1. sample'.busy = {} => flying = {} BY DEF Sample
  <2>2. QED BY <2>1 DEF SettleInv, engineVars
<1>7. TruthInv' BY DEF TruthInv, Unasked, Boots, Settling, Qualifying, engineVars, podVars
<1>8. QualifyInv' BY <1>a, Now DEF QualifyInv, Qualifying, Page, Who, engineVars, podVars
<1>9. RowsInv' BY DEF RowsInv, Measured, HasServed, PinKept, Qualifying, engineVars, podVars
<1>10. MeasureInv' BY <1>a, Now DEF MeasureInv, Qualifying, Page, Who, ServedAlike, Settling,
      engineVars, podVars
<1>11. JudgeInv' BY <1>a, Now DEF JudgeInv, Qualifying, Page, ServedAlike, HasServed, PinKept,
      engineVars, podVars
<1>12. ValidatedInv' BY <1>a, Now DEF ValidatedInv, Judged, MarkerTruthful, ArmTruthful,
      SameWorkers, PolicyHeld, engineVars, podVars
<1>13. QED BY <1>1, <1>2, <1>3, <1>4, <1>5, <1>6, <1>7, <1>8, <1>9, <1>10, <1>11, <1>12

(* After a settle interval the pages show all that was done. *)
LEMMA SleepKeeps == ASSUME ServingInv, Sleep PROVE ServingInv'
<1> USE DEF ServingInv, Sleep, ReportAll
<1>1. EngineTypes' BY AllReported
<1>2. RunnerTypes' BY DEF RunnerTypes, Places, Boots, Settling, Terminal, runnerVars, podVars
<1>3. PhaseInv' BY DEF PhaseInv, Qualifying, Boots, Settling, runnerVars, podVars
<1>4. BaseInv' BY Now DEF BaseInv, Qualifying, Settling, runnerVars, podVars
<1>5. SenderInv' BY Now DEF SenderInv, Qualifying, Settling, Measured, runnerVars, podVars
<1>6. SettleInv' BY Now DEF SettleInv, runnerVars, podVars
<1>7. TruthInv' BY Now DEF TruthInv, Unasked, Boots, Settling, Qualifying, runnerVars, podVars
<1>8. QualifyInv' BY Now DEF QualifyInv, Qualifying, Page, Who, runnerVars, podVars
<1>9. RowsInv' BY Now DEF RowsInv, Measured, HasServed, PinKept, Qualifying, runnerVars, podVars
<1>10. MeasureInv' BY Now DEF MeasureInv, Qualifying, Page, Who, ServedAlike, Settling,
      runnerVars, podVars
<1>11. JudgeInv' BY Now DEF JudgeInv, Qualifying, Page, ServedAlike, HasServed, PinKept,
      runnerVars, podVars
<1>12. ValidatedInv' BY Now DEF ValidatedInv, Judged, MarkerTruthful, ArmTruthful, SameWorkers,
      PolicyHeld, runnerVars, podVars
<1>13. QED BY <1>1, <1>2, <1>3, <1>4, <1>5, <1>6, <1>7, <1>8, <1>9, <1>10, <1>11, <1>12

(* Two samples that settle have nothing between them that is not shown. *)
LEMMA PollKeeps == ASSUME ServingInv, Poll PROVE ServingInv'
<1> USE DEF ServingInv, Poll
<1>1. EngineTypes' BY DEF EngineTypes, engineVars, podVars
<1>2. RunnerTypes' BY Now DEF RunnerTypes, Places, Boots, Settling, Terminal, engineVars,
      podVars
<1>3. PhaseInv' BY DEF PhaseInv, Qualifying, Boots, Settling, engineVars, podVars
<1>4. BaseInv' BY DEF BaseInv, Qualifying, Settling, engineVars, podVars
<1>5. SenderInv' BY DEF SenderInv, Qualifying, Settling, Measured, engineVars, podVars
<1>6. SettleInv'
  <2>1. /\ sample'.busy = {} => flying = {}
        /\ sample'.shown = shown
    BY DEF Sample
  <2>2. pc' = "pods" => sample.busy = {} /\ sample'.busy = {}
    BY DEF MetricsSettled
  <2>3. pc' = "pods" => shown = done BY <2>2 DEF SettleInv
  <2>4. QED BY <2>1, <2>2, <2>3 DEF SettleInv, engineVars
<1>7. TruthInv' BY DEF TruthInv, Unasked, Boots, Settling, Qualifying, engineVars, podVars
<1>8. QualifyInv' BY DEF QualifyInv, Qualifying, Page, Who, engineVars, podVars
<1>9. RowsInv' BY DEF RowsInv, Measured, HasServed, PinKept, Qualifying, engineVars, podVars
<1>10. MeasureInv'
  <2>1. pc' \in {"sleep", "pods"} /\ base \in {None, Who} /\ sample'.shown = shown
    BY DEF SameAsBaseline, Sample
  <2>2. ~Qualifying => base # None BY DEF BaseInv, Settling
  <2>3. pc' = "pods" => shown = done
    <3>1. pc' = "pods" => sample.busy = {} BY DEF MetricsSettled
    <3>2. QED BY <3>1 DEF SettleInv
  <2>4. QED BY <2>1, <2>2, <2>3
    DEF MeasureInv, Qualifying, Page, ServedAlike, Who, Settling, engineVars, podVars
<1>11. JudgeInv' BY DEF JudgeInv, Qualifying, Page, ServedAlike, HasServed, PinKept, engineVars,
      podVars
<1>12. ValidatedInv' BY DEF ValidatedInv, Judged, MarkerTruthful, ArmTruthful, SameWorkers,
      PolicyHeld, engineVars, podVars
<1>13. QED BY <1>1, <1>2, <1>3, <1>4, <1>5, <1>6, <1>7, <1>8, <1>9, <1>10, <1>11, <1>12

(* The Pods and ConfigMaps are written down. *)
LEMMA CollectPodsKeeps == ASSUME ServingInv, CollectPods PROVE ServingInv'
<1> USE DEF ServingInv, CollectPods
<1>1. EngineTypes' BY DEF EngineTypes, engineVars, podVars
<1>2. RunnerTypes'
  <2>1. seen' \in [who : Workers, config : Policy] BY Now DEF EngineTypes
  <2>2. QED BY <2>1 DEF RunnerTypes, Places, Settling, engineVars, podVars
<1>3. PhaseInv' BY DEF PhaseInv, Qualifying, Boots, Settling, engineVars, podVars
<1>4. BaseInv' BY DEF BaseInv, Qualifying, Settling, engineVars, podVars
<1>5. SenderInv' BY DEF SenderInv, Qualifying, Settling, Measured, engineVars, podVars
<1>6. SettleInv' BY DEF SettleInv, engineVars, podVars
<1>7. TruthInv' BY DEF TruthInv, Unasked, Boots, Settling, Qualifying, engineVars, podVars
<1>8. QualifyInv' BY DEF QualifyInv, Qualifying, Page, Who, engineVars, podVars
<1>9. RowsInv' BY DEF RowsInv, Measured, HasServed, PinKept, Qualifying, engineVars, podVars
<1>10. MeasureInv' BY DEF MeasureInv, Qualifying, Page, Who, ServedAlike, Settling, engineVars,
      podVars
<1>11. JudgeInv' BY DEF JudgeInv, Qualifying, Page, ServedAlike, HasServed, PinKept, engineVars,
      podVars
<1>12. ValidatedInv' BY DEF ValidatedInv, Judged, MarkerTruthful, ArmTruthful, SameWorkers,
      PolicyHeld, engineVars, podVars
<1>13. QED BY <1>1, <1>2, <1>3, <1>4, <1>5, <1>6, <1>7, <1>8, <1>9, <1>10, <1>11, <1>12

(* A collection has the page of the sample that settled; it starts the     *)
(* measurement of an item, or ends it.                                     *)
LEMMA CollectMetricsKeeps == ASSUME ServingInv, CollectMetrics PROVE ServingInv'
<1> USE DEF ServingInv, CollectMetrics
<1>a. /\ full' \in Snapshots /\ full'.metrics = Sample /\ full'.log = log
      /\ full'.loaded = epp.loaded /\ full'.metrics.shown = shown
  <2>1. /\ seen.who \in Workers /\ seen.config \in Policy /\ epp.loaded \in Policy
        /\ log \in [rows : Nat, flawed : BOOLEAN]
    BY DEF RunnerTypes, EngineTypes
  <2>2. QED BY <2>1, Now DEF Snapshots, Sample
<1>b. /\ Qualifying => pc' = "latesleep" /\ snap' = snap
      /\ ~Qualifying => /\ Len(snap) \in {0, 1} /\ snap' = Append(snap, full')
                        /\ shown = sample.shown
                        /\ pc' = IF Len(snap) = 1 THEN "judge" ELSE "create"
                        /\ Len(snap) = 1 => pod = "done"
  <2>1. CASE Qualifying BY <2>1
  <2>2. CASE ~Qualifying
    <3>1. Len(snap) \in {0, 1}
      <4>1. pc \in Settling BY DEF Settling
      <4>2. Len(snap) <= 1 BY <2>2, <4>1 DEF PhaseInv
      <4>3. Len(snap) \in Nat BY Now
      <4>4. QED BY <4>2, <4>3, Few
    <3>2. Measured <=> Len(snap) = 1 BY <2>2 DEF Measured
    <3>3. sample.shown = shown BY <2>2 DEF MetricsSettled, Sample
    <3>4. QED BY <2>2, <3>1, <3>2, <3>3
  <2>3. QED BY <2>1, <2>2
<1>c. ~Qualifying => /\ snap' \in Seq(Snapshots) /\ Len(snap') = Len(snap) + 1
                     /\ Len(snap) = 1 => snap'[1] = snap[1]
                     /\ snap'[Len(snap) + 1] = full'
  BY <1>a, <1>b, Now, AppendProperties DEF RunnerTypes
<1>d. flying = {} /\ shown = done BY DEF SettleInv
<1>e. kind' = kind /\ (Qualifying' <=> Qualifying) BY DEF Qualifying
<1>1. EngineTypes' BY DEF EngineTypes, engineVars
<1>2. RunnerTypes'
  <2>1. snap' \in Seq(Snapshots) BY <1>b, <1>c DEF RunnerTypes
  <2>2. pc' \in {"latesleep", "judge", "create"} BY <1>b
  <2>3. QED BY <1>a, <2>1, <2>2 DEF RunnerTypes, Places, Settling, engineVars
<1>3. PhaseInv'
  <2>1. CASE Qualifying
    BY <1>b, <1>e, <2>1 DEF PhaseInv, Settling, Boots
  <2>2. CASE ~Qualifying
    BY <1>b, <1>c, <1>e, <2>2, Now DEF PhaseInv, Settling, Boots
  <2>3. QED BY <2>1, <2>2
<1>4. BaseInv' BY DEF BaseInv, Qualifying, Settling, engineVars
<1>5. SenderInv'
  <2>1. CASE Qualifying
    BY <1>b, <1>d, <1>e, <2>1 DEF SenderInv, Measured, Settling, engineVars
  <2>2. CASE ~Qualifying
    <3>1. pod' # "running" BY <1>b, <2>2 DEF SenderInv
    <3>2. QED BY <1>b, <1>d, <1>e, <2>2, <3>1 DEF SenderInv, Measured, Settling, engineVars
  <2>3. QED BY <2>1, <2>2
<1>6. SettleInv' BY DEF SettleInv, engineVars
<1>7. TruthInv'
  <2>1. CASE Qualifying
    BY <1>b, <1>e, <2>1 DEF TruthInv, Unasked, Boots, Settling, engineVars
  <2>2. CASE ~Qualifying
    BY <1>b, <1>c, <1>e, <2>2, Now DEF TruthInv, Unasked, Boots, Settling, engineVars
  <2>3. QED BY <2>1, <2>2
<1>8. QualifyInv' BY DEF QualifyInv, Qualifying, Page, Who, engineVars
<1>9. RowsInv' BY DEF RowsInv, Measured, HasServed, PinKept, Qualifying, engineVars
<1>10. MeasureInv'
  <2>1. SUFFICES ASSUME ~Qualifying, Len(snap') = 1
                 PROVE  MeasureInv'
    BY <1>e DEF MeasureInv
  <2>2. Len(snap) = 0 /\ snap = <<>> /\ pc' = "create" /\ snap'[1] = full'
    BY <1>b, <1>c, <2>1, Now
  <2>3. truth[kind] = Untouched BY <2>1, <2>2 DEF TruthInv, Unasked, Settling
  <2>4. Page(1)' = done BY <1>a, <1>d, <2>2 DEF Page
  <2>5. Between(done, done, Untouched) BY StartsEqual
  <2>6. ServedAlike' BY <1>e, <2>3 DEF ServedAlike, Untouched, engineVars
  <2>7. QED BY <1>a, <2>2, <2>3, <2>4, <2>5, <2>6 DEF MeasureInv, Settling, engineVars
<1>11. JudgeInv'
  <2>1. SUFFICES ASSUME ~Qualifying, Len(snap') = 2
                 PROVE  JudgeInv'
    BY <1>e DEF JudgeInv
  <2>2. /\ Len(snap) = 1 /\ snap'[1] = snap[1] /\ snap'[2] = full' /\ pod = "done"
    BY <1>b, <1>c, <2>1, Now
  <2>3. Measured /\ report' = "copied" BY <2>1, <2>2 DEF Measured
  <2>4. Page(1)' = Page(1) /\ Page(2)' = shown BY <1>a, <2>2 DEF Page
  <2>5. Between(Page(1), shown, truth[kind]) /\ ServedAlike
    BY <1>b, <2>1, <2>2 DEF MeasureInv, Settling
  <2>6. ServedAlike' BY <2>2, <2>5 DEF ServedAlike, engineVars
  <2>7. log.rows > 0 => HasServed' BY <2>3 DEF RowsInv, HasServed, engineVars
  <2>8. ~log.flawed => PinKept' BY <2>2, <2>3 DEF RowsInv, PinKept, engineVars
  <2>9. QED BY <1>a, <1>e, <2>2, <2>3, <2>4, <2>5, <2>6, <2>7, <2>8 DEF JudgeInv, engineVars
<1>12. ValidatedInv' BY DEF ValidatedInv, Judged, MarkerTruthful, ArmTruthful, SameWorkers,
      PolicyHeld, engineVars
<1>13. QED BY <1>1, <1>2, <1>3, <1>4, <1>5, <1>6, <1>7, <1>8, <1>9, <1>10, <1>11, <1>12

(* An incomplete collection keeps the reports. *)
LEMMA CollectPartlyKeeps == ASSUME ServingInv, CollectPartly PROVE ServingInv'
<1> USE DEF ServingInv, CollectPartly
<1>1. EngineTypes' BY DEF EngineTypes, engineVars, runnerVars
<1>2. RunnerTypes' BY DEF RunnerTypes, Places, Boots, Settling, Terminal, engineVars, runnerVars
<1>3. PhaseInv' BY DEF PhaseInv, Qualifying, Boots, Settling, engineVars, runnerVars
<1>4. BaseInv' BY DEF BaseInv, Qualifying, Settling, engineVars, runnerVars
<1>5. SenderInv' BY DEF SenderInv, Qualifying, Settling, Measured, engineVars, runnerVars
<1>6. SettleInv' BY DEF SettleInv, engineVars, runnerVars
<1>7. TruthInv' BY DEF TruthInv, Unasked, Boots, Settling, Qualifying, engineVars, runnerVars
<1>8. QualifyInv' BY DEF QualifyInv, Qualifying, Page, Who, engineVars, runnerVars
<1>9. RowsInv' BY DEF RowsInv, Measured, HasServed, PinKept, Qualifying, engineVars, runnerVars
<1>10. MeasureInv' BY DEF MeasureInv, Qualifying, Page, Who, ServedAlike, Settling, engineVars,
      runnerVars
<1>11. JudgeInv' BY DEF JudgeInv, Qualifying, Page, ServedAlike, HasServed, PinKept, engineVars,
      runnerVars
<1>12. ValidatedInv' BY DEF ValidatedInv, Judged, MarkerTruthful, ArmTruthful, SameWorkers,
      PolicyHeld, engineVars, runnerVars
<1>13. QED BY <1>1, <1>2, <1>3, <1>4, <1>5, <1>6, <1>7, <1>8, <1>9, <1>10, <1>11, <1>12

(* The snapshot of the correctness phase is followed by a page that shows  *)
(* no more.                                                                *)
LEMMA LatePollKeeps == ASSUME ServingInv, LatePoll PROVE ServingInv'
<1> USE DEF ServingInv, LatePoll
<1>a. Qualifying /\ base = Who /\ pc = "late" /\ kind <= 3
  BY DEF PhaseInv, BaseInv, SameAsBaseline, Settling, Qualifying
<1>b. /\ full \in Snapshots /\ flying = {} /\ shown = done /\ Len(snap) \in {0, 1, 2, 3}
      /\ kind = IF Len(snap) < 3 THEN Len(snap) + 1 ELSE 3
  BY <1>a, Now, Few DEF RunnerTypes, SettleInv, PhaseInv, Settling
<1>c. \/ snap' = snap /\ pc' = "sleep"
      \/ /\ snap' = Append(snap, full) /\ full.metrics.shown = done
         /\ pc' = IF Len(snap) = 3 THEN "judge" ELSE "ask"
  BY <1>b DEF MetricsSettled, Sample
<1>d. snap' # snap => /\ snap' = Append(snap, full) /\ snap' \in Seq(Snapshots)
                      /\ Len(snap') = Len(snap) + 1
                      /\ snap'[Len(snap) + 1] = full
                      /\ \A i \in 1..Len(snap) : snap'[i] = snap[i]
  BY <1>b, <1>c, AppendProperties DEF RunnerTypes
<1>e. kind' = kind /\ Qualifying' BY <1>a DEF Qualifying
<1>1. EngineTypes' BY DEF EngineTypes, engineVars, podVars
<1>2. RunnerTypes'
  <2>1. snap' \in Seq(Snapshots) BY <1>d DEF RunnerTypes
  <2>2. pc' \in {"sleep", "judge", "ask"} BY <1>c
  <2>3. QED BY <2>1, <2>2, Now DEF RunnerTypes, Places, Settling, engineVars, podVars
<1>3. PhaseInv'
  <2>1. CASE snap' = snap
    BY <1>a, <1>b, <1>c, <1>d, <1>e, <2>1, Now DEF PhaseInv, Settling, Boots, podVars
  <2>2. CASE snap' # snap /\ Len(snap) = 3
    <3>1. kind = 3 /\ Len(snap') = 4 /\ snap' # <<>> /\ pc' = "judge"
      <4>1. kind = 3 BY <1>b, <2>2
      <4>2. Len(snap') = 3 + 1 /\ Len(<<>>) = 0 BY <1>d, <2>2, Now
      <4>3. QED BY <1>c, <2>2, <4>1, <4>2
    <3>2. QED BY <1>a, <1>e, <3>1 DEF PhaseInv, Settling, Boots, podVars
  <2>3. CASE snap' # snap /\ Len(snap) # 3
    BY <1>a, <1>b, <1>c, <1>d, <1>e, <2>3, Now DEF PhaseInv, Settling, Boots, podVars
  <2>4. QED BY <2>1, <2>2, <2>3
<1>4. BaseInv' BY DEF BaseInv, Qualifying, Settling, engineVars, podVars
<1>5. SenderInv'
  BY <1>a, <1>b, <1>c, <1>e DEF SenderInv, Settling, Measured, podVars, engineVars
<1>6. SettleInv' BY DEF SettleInv, engineVars, podVars
<1>7. TruthInv'
  <2>1. Unasked' => Len(snap) < 3
    BY <1>b, <1>c, <1>d, <1>e DEF Unasked, Settling, Boots
  <2>2. Len(snap) < 3 => Unasked BY <1>a DEF Unasked, Settling
  <2>3. QED BY <1>e, <2>1, <2>2 DEF TruthInv, engineVars
<1>8. QualifyInv'
  <2>1. CASE snap' = snap
    BY <1>a, <1>e, <2>1 DEF QualifyInv, Page, Who, engineVars
  <2>2. CASE snap' # snap
    <3> DEFINE n == Len(snap)
               page(i) == snap'[i].metrics.shown
    <3>1. n \in {0, 1, 2, 3} /\ Len(snap') = n + 1 BY <1>b, <1>d, <2>2
    <3>2. page(n + 1) = done BY <1>c, <1>d, <2>2
    <3>3. \A i \in 1..n : page(i) = Page(i) BY <1>d, <2>2 DEF Page
    <3>4. \A i \in 1..(n - 1) : Between(Page(i), Page(i + 1), truth[i])
      BY <1>a DEF QualifyInv
    <3>5. n > 0 => Between(Page(n), done, truth[n])
      BY <1>a, <1>b, Now DEF QualifyInv
    <3>6. pc' # "judge" => n \in {0, 1, 2} BY <1>b, <1>c, <2>2
    <3>7. n \in {0, 1, 2} => truth[n + 1] = Untouched
      <4>1. n \in {0, 1, 2} => n < 3 OBVIOUS
      <4>2. n < 3 => kind = n + 1 BY <1>b
      <4>3. n < 3 => Unasked BY <1>a DEF Unasked, Settling
      <4>4. QED BY <4>1, <4>2, <4>3 DEF TruthInv
    <3>8. UNCHANGED <<done, truth>> /\ Between(done, done, Untouched)
      BY StartsEqual DEF engineVars
    <3> HIDE DEF n, page, LatePoll, ServingInv
    <3>9. ASSUME NEW i \in 1..n PROVE Between(page(i), page(i + 1), truth[i])
      <4>1. CASE i = n
        <5>1. n > 0 /\ n \in 1..n BY <3>1, <4>1
        <5>2. page(n) = Page(n) BY <3>3, <5>1
        <5>3. QED BY <3>2, <3>5, <4>1, <5>1, <5>2
      <4>2. CASE i # n
        <5>1. i \in 1..(n - 1) /\ i + 1 \in 1..n BY <3>1, <4>2
        <5>2. page(i) = Page(i) /\ page(i + 1) = Page(i + 1) BY <3>3, <5>1
        <5>3. QED BY <3>4, <5>1, <5>2
      <4>3. QED BY <4>1, <4>2
    <3>10. pc' # "judge" => Between(page(n + 1), done, truth[n + 1])
      BY <3>2, <3>6, <3>7, <3>8
    <3>11. Len(snap') = n + 1 /\ (n + 1) - 1 = n BY <3>1
    <3>12. QED BY <3>8, <3>9, <3>10, <3>11 DEF QualifyInv, Page, page
  <2>3. QED BY <2>1, <2>2
<1>9. RowsInv' BY <1>a, <1>e DEF RowsInv, Measured, HasServed, PinKept, Qualifying, engineVars,
      podVars
<1>10. MeasureInv' BY <1>a, <1>e DEF MeasureInv, Qualifying, Page, Who, ServedAlike, Settling,
      engineVars, podVars
<1>11. JudgeInv' BY <1>a, <1>e DEF JudgeInv, Qualifying, Page, ServedAlike, HasServed, PinKept,
      engineVars, podVars
<1>12. ValidatedInv' BY DEF ValidatedInv, Judged, MarkerTruthful, ArmTruthful, SameWorkers,
      PolicyHeld, engineVars, podVars
<1>13. QED BY <1>1, <1>2, <1>3, <1>4, <1>5, <1>6, <1>7, <1>8, <1>9, <1>10, <1>11, <1>12

(* The request of the correctness client is the only one. *)
LEMMA AskKeeps == ASSUME ServingInv, Ask PROVE ServingInv'
<1> USE DEF ServingInv, Ask
<1>a. /\ Qualifying /\ kind <= 3 /\ Len(snap) = kind /\ snap # <<>>
      /\ ~marker /\ validated = {} /\ pod = "none" /\ flying = {} /\ base # None
      /\ truth[kind] = Untouched
  BY Now DEF PhaseInv, BaseInv, SenderInv, TruthInv, Unasked, Qualifying
<1>b. PICK d \in Decoder : Receive(kind, d) /\ call' = [by |-> kind, to |-> d]
  OBVIOUS
<1>c. /\ EngineTypes'
      /\ UNCHANGED <<done, shown, born, epp, configMap>>
      /\ flying' = {call'} /\ call'.by = kind /\ call' # None
      /\ \A j \in Kinds \cup {Stray} : j # kind => truth'[j] = truth[j]
      /\ truth'[kind].moved = truth[kind].moved /\ truth'[kind].bad = truth[kind].bad
  <2>1. call' \in [by : Nat, to : Decoder] BY <1>b, Now
  <2>2. call' # None BY <2>1, NoneAssumption DEF NoneAssumption
  <2>3. QED BY <1>a, <1>b, <2>2, Now, Received
<1>d. Qualifying' BY <1>a DEF Qualifying, runnerVars
<1> HIDE DEF Ask
<1>e. /\ pc = "ask" /\ pc' = "await" /\ log' = NewLog
      /\ UNCHANGED <<late, runnerVars, pod, sent, report>>
  BY DEF Ask
<1> USE DEF runnerVars
<1>1. EngineTypes' BY <1>c
<1>2. RunnerTypes'
  <2>1. call' \in [by : Kinds, to : Decoder] BY <1>b, Now
  <2>2. log' \in [rows : Nat, flawed : BOOLEAN] BY <1>e DEF NewLog
  <2>3. QED BY <1>e, <2>1, <2>2 DEF RunnerTypes, Places, Settling
<1>3. PhaseInv' BY <1>a, <1>d, <1>e DEF PhaseInv, Settling, Boots
<1>4. BaseInv' BY <1>a, <1>c, <1>d, <1>e DEF BaseInv, Settling
<1>5. SenderInv' BY <1>a, <1>c, <1>d, <1>e DEF SenderInv, Settling, Measured
<1>6. SettleInv' BY <1>e DEF SettleInv
<1>7. TruthInv'
  <2>1. ~Unasked' BY <1>e DEF Unasked, Settling, Boots
  <2>2. \A k \in Kinds : k > kind => truth'[k] = truth[k] BY <1>c, Work, Now
  <2>3. QED BY <1>e, <2>1, <2>2 DEF TruthInv
<1>8. QualifyInv'
  <2>1. ASSUME NEW i \in 1..(Len(snap) - 1) PROVE truth'[i] = truth[i]
    <3>1. i \in 1..3 /\ i # kind BY <1>a, Now
    <3>2. i \in Kinds BY <3>1, Work
    <3>3. QED BY <1>c, <3>1, <3>2
  <2>2. base = Who => Between(Page(kind), done, truth[kind])
    BY <1>a, <1>e DEF QualifyInv
  <2>3. base = Who => Between(Page(kind), done, truth'[kind])
    BY <1>c, <2>2 DEF Between
  <2>4. Who' = Who BY <1>c DEF Who
  <2>5. QED BY <1>a, <1>c, <1>e, <2>1, <2>3, <2>4 DEF QualifyInv, Page
<1>9. RowsInv' BY <1>d DEF RowsInv, Measured
<1>10. MeasureInv' BY <1>d DEF MeasureInv, Measured
<1>11. JudgeInv' BY <1>d DEF JudgeInv, Measured
<1>12. ValidatedInv'
  BY <1>a, <1>e
    DEF ValidatedInv, Judged, MarkerTruthful, ArmTruthful, SameWorkers, PolicyHeld
<1>13. QED BY <1>1, <1>2, <1>3, <1>4, <1>5, <1>6, <1>7, <1>8, <1>9, <1>10, <1>11, <1>12

(* An answer that came to the client leaves nothing in an engine. *)
LEMMA AnsweredKeeps == ASSUME ServingInv, Answered PROVE ServingInv'
<1> USE DEF ServingInv, Answered
<1>a. /\ Qualifying /\ kind <= 3 /\ Len(snap) = kind /\ snap # <<>>
      /\ ~marker /\ validated = {} /\ pod = "none" /\ flying = {} /\ base # None
  BY Now DEF PhaseInv, BaseInv, SenderInv, Qualifying
<1>b. /\ kind' = IF Len(snap) < 3 THEN Len(snap) + 1 ELSE 3
      /\ kind' \in 1..3 /\ kind' \in Nat /\ kind <= kind' /\ Qualifying'
      /\ Len(snap) < 3 => kind' > kind
  BY <1>a, Now DEF Qualifying
<1>c. kind' \in Kinds BY <1>b, Work
<1> USE DEF engineVars, podVars
<1>1. EngineTypes' BY DEF EngineTypes
<1>2. RunnerTypes' BY <1>a, <1>c DEF RunnerTypes, Places, Settling
<1>3. PhaseInv' BY <1>a, <1>b, Now DEF PhaseInv, Settling, Boots
<1>4. BaseInv' BY DEF BaseInv, Qualifying, Settling
<1>5. SenderInv' BY DEF SenderInv, Qualifying, Settling, Measured
<1>6. SettleInv' BY DEF SettleInv
<1>7. TruthInv'
  <2>1. \A k \in Kinds : k > kind' => k > kind BY <1>b, Work, Now
  <2>2. Len(snap) < 3 => truth[kind'] = Untouched BY <1>b, <1>c DEF TruthInv
  <2>3. QED BY <1>b, <2>1, <2>2 DEF TruthInv, Unasked, Settling, Boots
<1>8. QualifyInv' BY <1>a DEF QualifyInv, Page, Who
<1>9. RowsInv' BY <1>b DEF RowsInv, Measured
<1>10. MeasureInv' BY <1>b DEF MeasureInv, Measured
<1>11. JudgeInv' BY <1>b DEF JudgeInv, Measured
<1>12. ValidatedInv'
  BY <1>a
    DEF ValidatedInv, Judged, MarkerTruthful, ArmTruthful, SameWorkers, PolicyHeld
<1>13. QED BY <1>1, <1>2, <1>3, <1>4, <1>5, <1>6, <1>7, <1>8, <1>9, <1>10, <1>11, <1>12

(* Four snapshots under the same workers tell what the three requests did. *)
LEMMA WriteMarkerKeeps == ASSUME ServingInv, WriteMarker PROVE ServingInv'
<1> USE DEF ServingInv, WriteMarker
<1>a. /\ kind = 3 /\ Len(snap) = 4 /\ validated = {} /\ pod = "none" /\ flying = {}
  BY DEF PhaseInv, SenderInv, Qualifying
<1>b. kind' \in Kinds /\ kind' = 4 /\ ~Qualifying' /\ 4 \in Nat BY Work DEF Qualifying
<1> USE DEF engineVars, podVars
<1>1. EngineTypes' BY DEF EngineTypes
<1>2. RunnerTypes' BY <1>a, <1>b, Now DEF RunnerTypes, Places, Settling
<1>3. PhaseInv' BY DEF PhaseInv, Qualifying, Boots, Settling
<1>4. BaseInv' BY DEF BaseInv, Qualifying, Settling
<1>5. SenderInv' BY DEF SenderInv, Qualifying, Settling, Measured
<1>6. SettleInv' BY DEF SettleInv
<1>7. TruthInv'
  <2>1. \A k \in Kinds : k > 4 => k > 3 BY Work
  <2>2. QED BY <1>a, <1>b, <2>1 DEF TruthInv
<1>8. QualifyInv' BY DEF QualifyInv, Qualifying, Page, Who
<1>9. RowsInv' BY DEF RowsInv, Measured, HasServed, PinKept, Qualifying
<1>10. MeasureInv' BY DEF MeasureInv, Qualifying, Page, Who, ServedAlike, Settling
<1>11. JudgeInv' BY DEF JudgeInv, Qualifying, Page, ServedAlike, HasServed, PinKept
<1>12. ValidatedInv'
  <2>1. \A i \in 1..4 : Page(i) \in [Decoder -> Transfers] BY <1>a, Now
  <2>2. \A i \in 1..3 : Between(Page(i), Page(i + 1), truth[i])
    BY <1>a DEF QualifyInv
  <2>3. \A i \in 1..3 : truth[i].moved \in [Decoder -> Nat] /\ truth[i].bad \in Nat
    BY Work DEF EngineTypes, Truths
  <2>4. ASSUME NEW k \in 1..3, NEW d \in Decoder
        PROVE  truth[k].moved[d] = IF k > 1 /\ d = Pin(k) THEN 1 ELSE 0
    <3>1. Page(k + 1)[d].good - Page(k)[d].good = IF k > 1 /\ d = Pin(k) THEN 1 ELSE 0
      BY DEF ValidateCorrectness, Moved, Page
    <3>2. Page(k + 1)[d].good = Page(k)[d].good + truth[k].moved[d]
      BY <2>2 DEF Between
    <3>3. Page(k)[d].good \in Nat /\ Page(k + 1)[d].good \in Nat /\ truth[k].moved[d] \in Nat
      <4>1. k \in 1..4 /\ k + 1 \in 1..4 OBVIOUS
      <4>2. QED BY <2>1, <2>3, <4>1 DEF Transfers
    <3> HIDE DEF WriteMarker, ServingInv
    <3>4. QED BY <3>1, <3>2, <3>3
  <2>5. ASSUME NEW k \in 1..3 PROVE truth[k].bad = 0
    <3> DEFINE bad(i) == Page(i)["local"].bad + Page(i)["remote"].bad
    <3>1. bad(1) \in Nat /\ bad(2) \in Nat /\ bad(3) \in Nat /\ bad(4) \in Nat
      <4>1. ASSUME NEW i \in 1..4 PROVE bad(i) \in Nat
        <5>1. Page(i)["local"] \in Transfers /\ Page(i)["remote"] \in Transfers
          BY <2>1, Decoders
        <5>2. Page(i)["local"].bad \in Nat /\ Page(i)["remote"].bad \in Nat
          BY <5>1 DEF Transfers
        <5>3. QED BY <5>2
      <4>2. QED BY <4>1
    <3>2. bad(4) = bad(1) BY <1>a, Decoders DEF ValidateCorrectness, NoFailures, Page
    <3>3. /\ bad(2) = bad(1) + truth[1].bad
          /\ bad(3) = bad(2) + truth[2].bad
          /\ bad(4) = bad(3) + truth[3].bad
      BY <2>1, <2>2, <2>3, Decoders DEF Between, Transfers
    <3> HIDE DEF bad, WriteMarker, ServingInv
    <3>4. truth[1].bad = 0 /\ truth[2].bad = 0 /\ truth[3].bad = 0
      <4>1. truth[1].bad \in Nat /\ truth[2].bad \in Nat /\ truth[3].bad \in Nat BY <2>3
      <4>2. QED BY <3>1, <3>2, <3>3, <4>1
    <3>5. QED BY <3>4
  <2>6. QED BY <1>a, <2>4, <2>5
    DEF ValidatedInv, Judged, MarkerTruthful, ArmTruthful, SameWorkers, PolicyHeld
<1>13. QED BY <1>1, <1>2, <1>3, <1>4, <1>5, <1>6, <1>7, <1>8, <1>9, <1>10, <1>11, <1>12

(* A program starts with new workers, and with nothing validated. *)
LEMMA StartProgramKeeps == ASSUME ServingInv, StartProgram PROVE ServingInv'
<1> USE DEF ServingInv, StartProgram
<1>a. /\ ~Qualifying /\ snap = <<>> /\ kind \notin validated
      /\ \A k \in validated : ~Alike(k, kind)
      /\ \A r \in flying : r.by = Stray
  BY DEF PhaseInv, SenderInv, ValidatedInv
<1>b. Len(snap) = 0 BY <1>a, Now
<1>c. kind' = kind /\ ~Qualifying' BY <1>a DEF Qualifying
<1>1. EngineTypes' BY DEF EngineTypes, engineVars, podVars
<1>2. RunnerTypes' BY <1>a, <1>b, <1>c, Now DEF RunnerTypes, Places, Boots, Settling, Terminal,
      engineVars, podVars
<1>3. PhaseInv' BY DEF PhaseInv, Qualifying, Boots, Settling, engineVars, podVars
<1>4. BaseInv'
  <2>1. /\ base'.epp = epp.born /\ base'.decoders = born /\ base' # None
        /\ epp.born \in Nat /\ \A d \in Decoder : born[d] \in Nat
    BY Now DEF EngineTypes, Who
  <2>2. QED BY <2>1 DEF BaseInv, engineVars
<1>5. SenderInv' BY DEF SenderInv, Qualifying, Settling, Measured, engineVars, podVars
<1>6. SettleInv' BY DEF SettleInv, engineVars, podVars
<1>7. TruthInv' BY DEF TruthInv, Unasked, Boots, Settling, Qualifying, engineVars, podVars
<1>8. QualifyInv' BY <1>a, <1>b, <1>c, Now DEF QualifyInv, Qualifying, Page, Who, engineVars,
      podVars
<1>9. RowsInv' BY DEF RowsInv, Measured, HasServed, PinKept, Qualifying, engineVars, podVars
<1>10. MeasureInv' BY <1>a, <1>b, <1>c, Now DEF MeasureInv, Qualifying, Page, Who, ServedAlike,
      Settling, engineVars, podVars
<1>11. JudgeInv' BY <1>a, <1>b, <1>c, Now DEF JudgeInv, Qualifying, Page, ServedAlike,
      HasServed, PinKept, engineVars, podVars
<1>12. ValidatedInv' BY DEF ValidatedInv, Judged, MarkerTruthful, ArmTruthful, SameWorkers,
      PolicyHeld, engineVars, podVars
<1>13. QED BY <1>1, <1>2, <1>3, <1>4, <1>5, <1>6, <1>7, <1>8, <1>9, <1>10, <1>11, <1>12

(* A benchmark Pod starts with the log and with no request sent. *)
LEMMA CreatePodKeeps == ASSUME ServingInv, CreatePod PROVE ServingInv'
<1> USE DEF ServingInv, CreatePod, NewLog
<1>a. /\ ~Qualifying /\ Len(snap) = 1 /\ flying = {} /\ call = None
      /\ kind \notin validated /\ truth[kind] = Untouched
  <2>1. ~Qualifying /\ Len(snap) = 1 BY DEF PhaseInv, Settling, Boots
  <2>2. flying = {} /\ call = None BY <2>1 DEF SenderInv
  <2>3. kind \notin validated /\ truth[kind] = Untouched
    BY DEF ValidatedInv, TruthInv, Unasked
  <2>4. QED BY <2>1, <2>2, <2>3
<1>b. ~Qualifying' BY <1>a DEF Qualifying, runnerVars
<1>1. EngineTypes' BY DEF EngineTypes, engineVars, runnerVars
<1>2. RunnerTypes' BY Now DEF RunnerTypes, Places, Boots, Settling, Terminal, engineVars,
      runnerVars
<1>3. PhaseInv' BY <1>a, <1>b DEF PhaseInv, Qualifying, Boots, Settling, engineVars, runnerVars
<1>4. BaseInv' BY DEF BaseInv, Qualifying, Settling, engineVars, runnerVars
<1>5. SenderInv'
  <2>1. pod' = "running" /\ pc' \in {"exit", "failed"} OBVIOUS
  <2>2. QED BY <1>a, <1>b, <2>1 DEF SenderInv, Settling, engineVars, runnerVars
<1>6. SettleInv' BY DEF SettleInv, engineVars, runnerVars
<1>7. TruthInv' BY DEF TruthInv, Unasked, Boots, Settling, Qualifying, engineVars, runnerVars
<1>8. QualifyInv' BY DEF QualifyInv, Qualifying, Page, Who, engineVars, runnerVars
<1>9. RowsInv'
  <2>1. PinKept' BY <1>a DEF PinKept, Untouched, engineVars, runnerVars
  <2>2. QED BY <1>a, <2>1 DEF RowsInv, engineVars
<1>10. MeasureInv' BY DEF MeasureInv, Qualifying, Page, Who, ServedAlike, Settling, engineVars,
      runnerVars
<1>11. JudgeInv' BY <1>a DEF JudgeInv, runnerVars
<1>12. ValidatedInv' BY DEF ValidatedInv, Judged, MarkerTruthful, ArmTruthful, SameWorkers,
      PolicyHeld, engineVars, runnerVars
<1>13. QED BY <1>1, <1>2, <1>3, <1>4, <1>5, <1>6, <1>7, <1>8, <1>9, <1>10, <1>11, <1>12

(* The Pod that has ended ran on the workers of its program. *)
LEMMA SeeExitKeeps == ASSUME ServingInv, SeeExit PROVE ServingInv'
<1> USE DEF ServingInv, SeeExit
<1>a. /\ ~Qualifying /\ Len(snap) = 1 /\ Measured /\ base = Who /\ snap # <<>>
      /\ pod # "running"
  <2>1. ~Qualifying /\ Len(snap) = 1 BY DEF PhaseInv, Settling, Boots
  <2>2. base = Who BY DEF BaseInv, SameAsBaseline
  <2>3. snap # <<>> BY <2>1, Now
  <2>4. QED BY <2>1, <2>2, <2>3 DEF Measured
<1>b. ~Qualifying' /\ Measured' BY <1>a DEF Qualifying, Measured, runnerVars
<1>1. EngineTypes' BY DEF EngineTypes, engineVars, runnerVars, podVars
<1>2. RunnerTypes' BY DEF RunnerTypes, Places, Boots, Settling, Terminal, engineVars,
      runnerVars, podVars
<1>3. PhaseInv' BY <1>a, <1>b DEF PhaseInv, Settling, Boots, runnerVars, podVars
<1>4. BaseInv' BY DEF BaseInv, Qualifying, Settling, engineVars, runnerVars, podVars
<1>5. SenderInv' BY <1>a, <1>b DEF SenderInv, Settling, engineVars, runnerVars, podVars
<1>6. SettleInv' BY DEF SettleInv, engineVars, runnerVars, podVars
<1>7. TruthInv'
  BY <1>a, <1>b DEF TruthInv, Unasked, Settling, Boots, engineVars, runnerVars
<1>8. QualifyInv' BY DEF QualifyInv, Qualifying, Page, Who, engineVars, runnerVars, podVars
<1>9. RowsInv' BY DEF RowsInv, Measured, HasServed, PinKept, Qualifying, engineVars, runnerVars,
      podVars
<1>10. MeasureInv' BY <1>a DEF MeasureInv, Page, ServedAlike, Who, engineVars, runnerVars
<1>11. JudgeInv' BY DEF JudgeInv, Qualifying, Page, ServedAlike, HasServed, PinKept, engineVars,
      runnerVars, podVars
<1>12. ValidatedInv' BY DEF ValidatedInv, Judged, MarkerTruthful, ArmTruthful, SameWorkers,
      PolicyHeld, engineVars, runnerVars, podVars
<1>13. QED BY <1>1, <1>2, <1>3, <1>4, <1>5, <1>6, <1>7, <1>8, <1>9, <1>10, <1>11, <1>12

(* Two snapshots and the log tell what the requests of the item did. *)
LEMMA AcceptItemKeeps == ASSUME ServingInv, AcceptItem PROVE ServingInv'
<1> USE DEF ServingInv, AcceptItem
<1>a. /\ Len(snap) = 2 /\ flying = {} /\ pod # "running" /\ kind \notin validated
      /\ kind > 3 /\ kind \in 4..kind /\ kind \in Kinds
  BY Now DEF PhaseInv, SenderInv, ValidatedInv, Qualifying
<1> USE DEF engineVars, podVars
<1>1. EngineTypes' BY DEF EngineTypes
<1>2. RunnerTypes'
  <2>1. validated' \subseteq 4..kind BY <1>a DEF RunnerTypes
  <2>2. QED BY <2>1 DEF RunnerTypes, Places, Settling
<1>3. PhaseInv' BY DEF PhaseInv, Qualifying, Boots, Settling
<1>4. BaseInv' BY DEF BaseInv, Qualifying, Settling
<1>5. SenderInv' BY DEF SenderInv, Qualifying, Settling, Measured
<1>6. SettleInv' BY DEF SettleInv
<1>7. TruthInv' BY DEF TruthInv, Unasked, Boots, Settling, Qualifying
<1>8. QualifyInv' BY DEF QualifyInv, Qualifying, Page, Who
<1>9. RowsInv' BY DEF RowsInv, Measured, HasServed, PinKept, Qualifying
<1>10. MeasureInv' BY DEF MeasureInv, Qualifying, Page, Who, ServedAlike, Settling
<1>11. JudgeInv' BY DEF JudgeInv, Qualifying, Page, ServedAlike, HasServed, PinKept
<1>12. ValidatedInv'
  <2>1. /\ Between(Page(1), Page(2), truth[kind]) /\ ServedAlike /\ report = "copied"
        /\ snap[2].log.rows > 0 => HasServed
        /\ ~snap[2].log.flawed => PinKept
    BY <1>a DEF JudgeInv
  <2>2. HasServed /\ PinKept
    <3>1. snap[2].log.rows > 0 BY <1>a, Work DEF Validate, Routed
    <3>2. ~snap[2].log.flawed BY DEF Validate, Recorded
    <3>3. QED BY <2>1, <3>1, <3>2
  <2>3. /\ Page(1) \in [Decoder -> Transfers] /\ Page(2) \in [Decoder -> Transfers]
        /\ truth[kind].moved \in [Decoder -> Nat] /\ truth[kind].bad \in Nat
    BY <1>a, Now DEF EngineTypes, Truths
  <2>4. \A d \in Decoder : Page(2)[d].good - Page(1)[d].good = truth[kind].moved[d]
    <3>1. ASSUME NEW d \in Decoder
          PROVE  Page(2)[d].good - Page(1)[d].good = truth[kind].moved[d]
      <4>1. Page(2)[d].good = Page(1)[d].good + truth[kind].moved[d]
        BY <2>1 DEF Between
      <4>2. Page(1)[d].good \in Nat /\ truth[kind].moved[d] \in Nat BY <2>3 DEF Transfers
      <4> HIDE DEF AcceptItem, ServingInv
      <4>3. QED BY <4>1, <4>2
    <3>2. QED BY <3>1
  <2>5. truth[kind].bad = 0
    <3>1. /\ Page(2)["local"].bad = Page(1)["local"].bad
          /\ Page(2)["remote"].bad = Page(1)["remote"].bad
      BY Decoders DEF Validate, NoFailures, Page
    <3>2. Page(2)["local"].bad + Page(2)["remote"].bad
            = Page(1)["local"].bad + Page(1)["remote"].bad + truth[kind].bad
      BY <2>1 DEF Between
    <3>3. Page(1)["local"] \in Transfers /\ Page(1)["remote"] \in Transfers
      BY <2>3, Decoders
    <3>4. Page(1)["local"].bad \in Nat /\ Page(1)["remote"].bad \in Nat
      BY <3>3 DEF Transfers
    <3> HIDE DEF AcceptItem, ServingInv
    <3>5. QED BY <2>3, <3>1, <3>2, <3>4
  <2>6. /\ Pin(kind) # None =>
             \A d \in Decoder :
               truth[kind].moved[d] = IF d = Pin(kind) THEN Item(kind).count ELSE 0
        /\ Pin(kind) = None =>
             truth[kind].moved["local"] + truth[kind].moved["remote"] = Item(kind).count
    <3>1. ASSUME Pin(kind) # None, NEW d \in Decoder
          PROVE  truth[kind].moved[d] = IF d = Pin(kind) THEN Item(kind).count ELSE 0
      <4>1. Page(2)[Pin(kind)].good - Page(1)[Pin(kind)].good = Item(kind).count
        BY <3>1 DEF Validate, ValidateArm, Moved, Page
      <4>2. Pin(kind) \in Decoder BY <1>a, <3>1, Work
      <4>3. truth[kind].moved[Pin(kind)] = Item(kind).count BY <2>4, <4>1, <4>2
      <4>4. QED BY <2>2, <3>1, <4>3 DEF PinKept
    <3>2. ASSUME Pin(kind) = None
          PROVE  truth[kind].moved["local"] + truth[kind].moved["remote"] = Item(kind).count
      <4>1. (Page(2)["local"].good - Page(1)["local"].good)
              + (Page(2)["remote"].good - Page(1)["remote"].good) = Item(kind).count
        BY <3>2 DEF Validate, ValidateBlock, Moved, Page
      <4>2. QED BY <2>4, <4>1, Decoders
    <3>3. QED BY <3>1, <3>2
  <2>7. truth[kind].served = {base}
    BY <2>1, <2>2 DEF ServedAlike, HasServed
  <2>8. Pin(kind) = None => truth[kind].under = {Declared}
    BY <2>1, <2>2 DEF ServedAlike, HasServed, Validate, ValidateBlock, RunningPolicy
  <2>9. MarkerTruthful' BY DEF ValidatedInv, Judged, MarkerTruthful
  <2>10. ArmTruthful' BY <2>5, <2>6 DEF ValidatedInv, Judged, ArmTruthful
  <2>11. SameWorkers'
    <3>1. \A k \in validated : Alike(k, kind) => truth[k].served = {base}
      BY DEF ValidatedInv
    <3>2. Cardinality({base}) = 1 BY FS_Singleton
    <3>3. QED BY <2>7, <3>1, <3>2 DEF ValidatedInv, Judged, SameWorkers, Alike
  <2>12. PolicyHeld' BY <2>8 DEF ValidatedInv, Judged, PolicyHeld
  <2>13. QED BY <2>1, <2>7, <2>9, <2>10, <2>11, <2>12 DEF ValidatedInv, Judged
<1>13. QED BY <1>1, <1>2, <1>3, <1>4, <1>5, <1>6, <1>7, <1>8, <1>9, <1>10, <1>11, <1>12

(* The next item is of the same program, or waits for its start. *)
LEMMA NextItemKeeps == ASSUME ServingInv, NextItem PROVE ServingInv'
<1> USE DEF ServingInv, NextItem, DeletePod
<1>a. /\ Len(snap) = 2 /\ flying = {} /\ pod # "running" /\ ~Qualifying /\ kind > 3 /\ marker
      /\ call = None /\ base # None /\ kind \in Nat /\ kind \in Kinds
      /\ validated \subseteq 4..kind
  <2>1. ~Qualifying /\ Len(snap) = 2 /\ marker BY DEF PhaseInv, Settling, Boots
  <2>2. flying = {} /\ pod # "running" /\ call = None BY <2>1 DEF SenderInv
  <2>3. base # None /\ validated \subseteq 4..kind BY DEF BaseInv, RunnerTypes
  <2>4. kind > 3 BY <2>1, Now DEF Qualifying
  <2>5. QED BY <2>1, <2>2, <2>3, <2>4, Now
<1>b. /\ kind' = kind \/ kind' = kind + 1
      /\ kind' = kind => pc' = "complete"
      /\ kind' # kind => pc' = IF Alike(kind, kind') THEN "poll1" ELSE "start"
      /\ kind' \in Nat /\ kind' \in Kinds /\ ~Qualifying' /\ kind' > 3
  BY <1>a, Work DEF Alike, Qualifying
<1>c. pod' # "running" /\ call' = None /\ (report = "copied" => report' = "copied")
  BY <1>a
<1>d. snap' = <<>> /\ Len(snap') = 0 BY Now
<1> USE DEF engineVars
<1>1. EngineTypes' BY DEF EngineTypes
<1>2. RunnerTypes'
  <2>1. validated' \subseteq 4..kind' BY <1>a, <1>b
  <2>2. pod' \in {"none", "done", "crashed", "ended", "gone"}
        /\ report' \in {"none", "written", "copied", "lost"}
    BY <1>a DEF RunnerTypes
  <2>3. QED BY <1>b, <1>c, <2>1, <2>2, Now DEF RunnerTypes, Places, Settling, Terminal
<1>3. PhaseInv' BY <1>a, <1>b, <1>d DEF PhaseInv, Settling, Boots
<1>4. BaseInv' BY <1>a, <1>b DEF BaseInv, Settling
<1>5. SenderInv' BY <1>a, <1>b, <1>c DEF SenderInv, Settling, Measured
<1>6. SettleInv' BY DEF SettleInv
<1>7. TruthInv'
  <2>1. \A k \in Kinds : k > kind' => k > kind BY <1>a, <1>b, Work
  <2>2. kind' # kind => kind' > kind BY <1>a, <1>b
  <2>3. kind' = kind => ~Unasked' BY <1>b DEF Unasked, Settling, Boots
  <2>4. QED BY <1>b, <2>1, <2>2, <2>3 DEF TruthInv
<1>8. QualifyInv' BY <1>b DEF QualifyInv
<1>9. RowsInv' BY <1>d DEF RowsInv, Measured
<1>10. MeasureInv' BY <1>d DEF MeasureInv
<1>11. JudgeInv' BY <1>d DEF JudgeInv
<1>12. ValidatedInv'
  <2>1. Judged' BY JudgedStays DEF ValidatedInv
  <2>2. ASSUME NEW k \in validated, Alike(k, kind')
        PROVE  pc' # "start" /\ truth[k].served = {base}
    <3>1. k \in Kinds /\ 3 < k /\ (k = kind \/ k < kind) /\ k \in 4..kind
      BY <1>a, Work
    <3>2. CASE Alike(kind, kind')
      <4>1. Alike(k, kind) BY <2>2, <3>2 DEF Alike
      <4>2. QED BY <1>b, <3>2, <4>1 DEF ValidatedInv
    <3>3. CASE ~Alike(kind, kind')
      <4>1. kind < kind' BY <1>a, <1>b, <3>3 DEF Alike
      <4>2. Pin(kind) # None /\ Pin(kind') = None
        BY <1>a, <1>b, <3>3, <4>1, ArmsFirst DEF Alike
      <4>3. Pin(k) = None BY <2>2, <4>2 DEF Alike
      <4>4. k < kind BY <3>1, <4>2, <4>3
      <4>5. QED BY <1>a, <3>1, <4>2, <4>3, <4>4, ArmsFirst
    <3>4. QED BY <3>2, <3>3
  <2>3. kind' \in validated => kind' = kind BY <1>a, <1>b
  <2>4. QED BY <1>b, <1>c, <2>1, <2>2, <2>3 DEF ValidatedInv
<1>13. QED BY <1>1, <1>2, <1>3, <1>4, <1>5, <1>6, <1>7, <1>8, <1>9, <1>10, <1>11, <1>12

(* A program that fails forgets its snapshots. *)
LEMMA AbortKeeps == ASSUME ServingInv, Abort PROVE ServingInv'
<1> USE DEF ServingInv, Abort
<1>a. /\ Qualifying => pc' = "failed" /\ ~marker /\ validated = {}
      /\ kind \in validated => pc' = "failed"
      /\ pc' \in {"preserve", "drop", "failed"}
  <2>1. Qualifying => pc' = "failed" /\ ~marker /\ validated = {} BY DEF PhaseInv, Measured
  <2>2. kind \in validated => ~Qualifying /\ pc = "delete" BY DEF PhaseInv, ValidatedInv, Terminal
  <2>3. pc = "delete" /\ ~Qualifying => Len(snap) = 2 BY DEF PhaseInv
  <2>4. QED BY <2>1, <2>2, <2>3 DEF Measured
<1>b. snap' = <<>> /\ Len(snap') = 0 /\ (Qualifying' <=> Qualifying) BY Now DEF Qualifying
<1>1. EngineTypes' BY DEF EngineTypes, engineVars, podVars
<1>2. RunnerTypes' BY DEF RunnerTypes, Places, Boots, Settling, Terminal, engineVars, podVars
<1>3. PhaseInv' BY <1>a, <1>b DEF PhaseInv, Settling, Boots, podVars
<1>4. BaseInv' BY DEF BaseInv, Qualifying, Settling, engineVars, podVars
<1>5. SenderInv' BY DEF SenderInv, Qualifying, Settling, Measured, engineVars, podVars
<1>6. SettleInv' BY DEF SettleInv, engineVars, podVars
<1>7. TruthInv' BY DEF TruthInv, Unasked, Boots, Settling, Qualifying, engineVars, podVars
<1>8. QualifyInv' BY DEF QualifyInv, Qualifying, Page, Who, engineVars, podVars
<1>9. RowsInv' BY DEF RowsInv, Measured, HasServed, PinKept, Qualifying, engineVars, podVars
<1>10. MeasureInv' BY DEF MeasureInv, Qualifying, Page, Who, ServedAlike, Settling, engineVars,
      podVars
<1>11. JudgeInv' BY DEF JudgeInv, Qualifying, Page, ServedAlike, HasServed, PinKept, engineVars,
      podVars
<1>12. ValidatedInv'
  <2>1. Judged' BY JudgedStays DEF ValidatedInv, engineVars
  <2>2. QED BY <1>a, <2>1 DEF ValidatedInv, engineVars, podVars
<1>13. QED BY <1>1, <1>2, <1>3, <1>4, <1>5, <1>6, <1>7, <1>8, <1>9, <1>10, <1>11, <1>12

(* The last collection keeps the reports or leaves them. *)
LEMMA PreserveKeeps == ASSUME ServingInv, Preserve PROVE ServingInv'
<1> USE DEF ServingInv, Preserve
<1>1. EngineTypes' BY DEF EngineTypes, engineVars, runnerVars
<1>2. RunnerTypes' BY DEF RunnerTypes, Places, Boots, Settling, Terminal, engineVars, runnerVars
<1>3. PhaseInv' BY DEF PhaseInv, Qualifying, Boots, Settling, engineVars, runnerVars
<1>4. BaseInv' BY DEF BaseInv, Qualifying, Settling, engineVars, runnerVars
<1>5. SenderInv' BY DEF SenderInv, Qualifying, Settling, Measured, engineVars, runnerVars
<1>6. SettleInv' BY DEF SettleInv, engineVars, runnerVars
<1>7. TruthInv' BY DEF TruthInv, Unasked, Boots, Settling, Qualifying, engineVars, runnerVars
<1>8. QualifyInv' BY DEF QualifyInv, Qualifying, Page, Who, engineVars, runnerVars
<1>9. RowsInv' BY DEF RowsInv, Measured, HasServed, PinKept, Qualifying, engineVars, runnerVars
<1>10. MeasureInv' BY DEF MeasureInv, Qualifying, Page, Who, ServedAlike, Settling, engineVars,
      runnerVars
<1>11. JudgeInv' BY DEF JudgeInv, Qualifying, Page, ServedAlike, HasServed, PinKept, engineVars,
      runnerVars
<1>12. ValidatedInv' BY DEF ValidatedInv, Judged, MarkerTruthful, ArmTruthful, SameWorkers,
      PolicyHeld, engineVars, runnerVars
<1>13. QED BY <1>1, <1>2, <1>3, <1>4, <1>5, <1>6, <1>7, <1>8, <1>9, <1>10, <1>11, <1>12

(* The Pod may be deleted, or stay. *)
LEMMA DropPodKeeps == ASSUME ServingInv, DropPod PROVE ServingInv'
<1> USE DEF ServingInv, DropPod, DeletePod
<1>1. EngineTypes' BY DEF EngineTypes, engineVars, runnerVars
<1>2. RunnerTypes' BY Now DEF RunnerTypes, Places, Boots, Settling, Terminal, engineVars,
      runnerVars
<1>3. PhaseInv' BY DEF PhaseInv, Qualifying, Boots, Settling, engineVars, runnerVars
<1>4. BaseInv' BY DEF BaseInv, Qualifying, Settling, engineVars, runnerVars
<1>5. SenderInv' BY Now DEF SenderInv, Qualifying, Settling, Measured, engineVars, runnerVars
<1>6. SettleInv' BY DEF SettleInv, engineVars, runnerVars
<1>7. TruthInv' BY DEF TruthInv, Unasked, Boots, Settling, Qualifying, engineVars, runnerVars
<1>8. QualifyInv' BY DEF QualifyInv, Qualifying, Page, Who, engineVars, runnerVars
<1>9. RowsInv' BY Now DEF RowsInv, Measured, HasServed, PinKept, Qualifying, engineVars,
      runnerVars
<1>10. MeasureInv' BY DEF MeasureInv, Qualifying, Page, Who, ServedAlike, Settling, engineVars,
      runnerVars
<1>11. JudgeInv' BY Now DEF JudgeInv, Qualifying, Page, ServedAlike, HasServed, PinKept,
      engineVars, runnerVars
<1>12. ValidatedInv' BY DEF ValidatedInv, Judged, MarkerTruthful, ArmTruthful, SameWorkers,
      PolicyHeld, engineVars, runnerVars
<1>13. QED BY <1>1, <1>2, <1>3, <1>4, <1>5, <1>6, <1>7, <1>8, <1>9, <1>10, <1>11, <1>12

(* A program that runs again leaves nothing of its earlier attempt. *)
LEMMA RerunKeeps == ASSUME ServingInv, Rerun PROVE ServingInv'
<1> USE DEF ServingInv, Rerun
<1>a. ~Qualifying /\ kind > 3 /\ kind \in Nat /\ kind \in Kinds /\ validated \subseteq 4..kind
  <2>1. ~Qualifying BY DEF PhaseInv
  <2>2. QED BY <2>1, Now DEF Qualifying, RunnerTypes
<1>b. /\ kind' \in 4..kind /\ kind' \in Nat /\ kind' \in Kinds /\ ~Qualifying' /\ kind' > 3
      /\ \A i \in 4..kind : i < kind' => ~Alike(i, kind')
  <2>1. /\ kind' \in 4..kind
        /\ \A i \in 4..kind : i < kind' => ~Alike(i, kind')
    BY <1>a, FirstOfProgram
  <2>2. kind' \in Nat /\ kind' > 3 BY <1>a, <2>1
  <2>3. kind' \in Kinds BY <1>a, <2>1, Work
  <2>4. QED BY <2>1, <2>2, <2>3 DEF Qualifying
<1>c. /\ validated' = {k \in validated : k < kind'}
      /\ \A k \in validated' : k \in Kinds /\ k \in Nat /\ k < kind' /\ k \in 4..kind
      /\ \A k \in 1..3 : k \in Kinds /\ k < kind'
  BY <1>a, <1>b, Work
<1>d. /\ \A k \in Kinds : k < kind' => truth'[k] = truth[k]
      /\ \A k \in Kinds : ~(k < kind') => truth'[k] = Untouched
      /\ truth' \in [Kinds \cup {Stray} -> Truths]
  <2>1. DOMAIN truth = Kinds \cup {Stray} BY DEF EngineTypes
  <2>2. Untouched \in Truths BY DEF Untouched, Truths
  <2>3. truth' \in [Kinds \cup {Stray} -> Truths] BY <2>1, <2>2 DEF EngineTypes
  <2>4. QED BY <2>1, <2>3
<1>e. /\ flying' \subseteq [by : Kinds \cup {Stray}, to : Decoder]
      /\ \A r \in flying' : r.by = Stray
  BY DEF EngineTypes
<1>f. snap' = <<>> /\ Len(snap') = 0 BY Now
<1>1. EngineTypes'
  <2>1. NoTransfers \in Transfers /\ NoTransfers.good <= NoTransfers.good
        /\ NoTransfers.bad <= NoTransfers.bad
    BY DEF NoTransfers, Transfers
  <2>2. done' = [d \in Decoder |-> NoTransfers] /\ shown' = done' BY DEF CountFromHere
  <2>3. UNCHANGED <<born, epp, configMap>> OBVIOUS
  <2> HIDE DEF Rerun, ServingInv
  <2>4. EngineTypes BY DEF ServingInv
  <2>5. QED BY <1>d, <1>e, <2>1, <2>2, <2>3, <2>4 DEF EngineTypes
<1>2. RunnerTypes'
  <2>1. validated' \subseteq 4..kind' BY <1>b, <1>c
  <2>2. attempt' \in 0..Attempts
    BY ServingAssumption DEF RunnerTypes, ServingAssumption
  <2>3. QED BY <1>b, <2>1, <2>2, Now DEF RunnerTypes, Places, Settling, NewLog
<1>3. PhaseInv' BY <1>a, <1>b, <1>f DEF PhaseInv, Settling, Boots
<1>4. BaseInv' BY <1>b DEF BaseInv, Settling
<1>5. SenderInv' BY <1>b, <1>e, <1>f DEF SenderInv, Settling, Measured
<1>6. SettleInv' BY DEF SettleInv
<1>7. TruthInv'
  <2>1. \A k \in Kinds : k > kind' \/ k = kind' => ~(k < kind') BY <1>b, Work
  <2>2. QED BY <1>b, <1>d, <2>1 DEF TruthInv
<1>8. QualifyInv' BY <1>b DEF QualifyInv
<1>9. RowsInv' BY <1>f DEF RowsInv, Measured
<1>10. MeasureInv' BY <1>f DEF MeasureInv
<1>11. JudgeInv' BY <1>f DEF JudgeInv
<1>12. ValidatedInv'
  <2>1. \A k \in validated' \cup 1..3 : truth'[k] = truth[k] BY <1>c, <1>d
  <2>2. Judged' BY <1>c, <2>1, JudgedStays DEF ValidatedInv
  <2>3. \A k \in validated' : ~Alike(k, kind') /\ k # kind' BY <1>b, <1>c
  <2>4. QED BY <2>2, <2>3 DEF ValidatedInv
<1>13. QED BY <1>1, <1>2, <1>3, <1>4, <1>5, <1>6, <1>7, <1>8, <1>9, <1>10, <1>11, <1>12

-----------------------------------------------------------------------------
(* Steps of the benchmark Pod, the clients and the engines *)

(* A request of the Pod is noted with the workers and the policy it found. *)
LEMMA PodSendsKeeps == ASSUME ServingInv, PodSends PROVE ServingInv'
<1> USE DEF ServingInv, PodSends
<1>a. /\ ~Qualifying /\ marker /\ kind > 3 /\ kind \in Nat /\ kind \in Kinds
      /\ kind \notin validated /\ pc \in {"exit", "preserve", "drop", "failed"}
      /\ call = None
  <2>1. ~Qualifying /\ marker BY DEF PhaseInv
  <2>2. pc \in {"exit", "preserve", "drop", "failed"} /\ kind \notin validated BY DEF SenderInv
  <2>3. kind > 3 BY <2>1, Now DEF Qualifying
  <2>4. QED BY <2>1, <2>2, <2>3, Now
<1>b. PICK d \in Decoder : Receive(kind, d) /\ call' = [by |-> kind, to |-> d]
  OBVIOUS
<1>c. /\ EngineTypes' /\ call' \in [by : Kinds, to : Decoder] /\ call' # None
      /\ UNCHANGED <<done, shown, born, epp, configMap>>
      /\ flying' = flying \cup {call'} /\ call'.by = kind
      /\ \A j \in Kinds \cup {Stray} : j # kind => truth'[j] = truth[j]
      /\ truth'[kind].moved = truth[kind].moved /\ truth'[kind].bad = truth[kind].bad
      /\ truth'[kind].served = truth[kind].served \cup {Who}
      /\ truth'[kind].under = truth[kind].under \cup {epp.loaded}
  <2>1. call' \in [by : Nat, to : Decoder] BY <1>b, Now
  <2>2. call' # None BY <2>1, NoneAssumption DEF NoneAssumption
  <2>3. QED BY <1>a, <1>b, <2>2, Received
<1> HIDE DEF PodSends
<1>d. /\ pod = "running" /\ call = None /\ sent' = sent + 1
      /\ UNCHANGED <<pc, late, runnerVars, pod, log, report>>
  BY DEF PodSends
<1>e. Who' = Who BY <1>c DEF Who
<1>f. ~Qualifying' BY <1>a, <1>d DEF Qualifying, runnerVars
<1> USE DEF runnerVars
<1>1. EngineTypes' BY <1>c
<1>2. RunnerTypes' BY <1>c, <1>d DEF RunnerTypes
<1>3. PhaseInv' BY <1>d, <1>f, <1>a DEF PhaseInv
<1>4. BaseInv' BY <1>c, <1>d, <1>a, <1>f DEF BaseInv
<1>5. SenderInv' BY <1>a, <1>c, <1>d, <1>f DEF SenderInv, Measured, Settling
<1>6. SettleInv' BY <1>a, <1>d DEF SettleInv
<1>7. TruthInv'
  <2>1. ~Unasked' BY <1>a, <1>d DEF Unasked, Settling, Boots
  <2>2. \A k \in Kinds : k > kind => truth'[k] = truth[k] BY <1>a, <1>c, Work
  <2>3. QED BY <1>d, <2>1, <2>2 DEF TruthInv
<1>8. QualifyInv' BY <1>f DEF QualifyInv
<1>9. RowsInv'
  <2>1. HasServed' BY <1>c, <1>d DEF HasServed
  <2>2. Measured' /\ ~log'.flawed /\ pod' \in {"running", "done"} =>
          PinKept /\ flying = {}
    BY <1>a, <1>d, <1>f DEF RowsInv, Measured
  <2>3. PinKept => PinKept' BY <1>c, <1>d DEF PinKept
  <2>4. QED BY <1>c, <2>1, <2>2, <2>3 DEF RowsInv
<1>10. MeasureInv'
  <2>1. pc' \notin Settling BY <1>a, <1>d DEF Settling
  <2>2. SUFFICES ASSUME Len(snap) = 1, base = Who
                 PROVE  /\ Between(Page(1), done', truth'[kind])
                        /\ ServedAlike' /\ epp'.loaded = snap[1].loaded
    BY <1>c, <1>d, <1>e, <2>1 DEF MeasureInv, Page, Settling
  <2>3. Between(Page(1), done, truth[kind]) /\ ServedAlike /\ epp.loaded = snap[1].loaded
    BY <1>a, <2>2 DEF MeasureInv
  <2>4. Between(Page(1), done', truth'[kind]) BY <1>c, <2>3 DEF Between
  <2>5. ServedAlike' BY <1>c, <1>d, <2>2, <2>3 DEF ServedAlike
  <2>6. QED BY <1>c, <2>3, <2>4, <2>5
<1>11. JudgeInv'
  <2>1. Len(snap) <= 1
    <3>1. pc = "exit" => Len(snap) = 1 BY <1>a DEF PhaseInv
    <3>2. pc # "exit" => Len(snap) <= 1 BY <1>a DEF PhaseInv
    <3>3. QED BY <3>1, <3>2
  <2>2. QED BY <1>d, <2>1, Now, Few DEF JudgeInv
<1>12. ValidatedInv'
  <2>1. \A k \in validated \cup 1..3 : k \in Kinds /\ k # kind
    BY <1>a, Work DEF RunnerTypes
  <2>2. \A k \in validated \cup 1..3 : truth'[k] = truth[k] BY <1>c, <2>1
  <2>3. Judged' BY <1>d, <2>2, JudgedStays DEF ValidatedInv
  <2>4. QED BY <1>a, <1>d, <2>2, <2>3 DEF ValidatedInv
<1>13. QED BY <1>1, <1>2, <1>3, <1>4, <1>5, <1>6, <1>7, <1>8, <1>9, <1>10, <1>11, <1>12

(* The reports of a Pod that has ended are written. *)
LEMMA PodFinishesKeeps == ASSUME ServingInv, PodFinishes PROVE ServingInv'
<1> USE DEF ServingInv, PodFinishes
<1>a. ~Qualifying /\ kind \notin validated /\ Len(snap) \in {0, 1}
  <2>1. ~Qualifying BY DEF PhaseInv
  <2>2. pc \in {"exit", "preserve", "drop", "failed"} /\ kind \notin validated BY DEF SenderInv
  <2>3. pc = "exit" => Len(snap) = 1 BY <2>1 DEF PhaseInv
  <2>4. pc # "exit" => Len(snap) <= 1 BY <2>1, <2>2 DEF PhaseInv
  <2>5. QED BY <2>1, <2>2, <2>3, <2>4, Now, Few
<1>1. EngineTypes' BY DEF EngineTypes, engineVars, runnerVars
<1>2. RunnerTypes' BY DEF RunnerTypes, Places, Boots, Settling, Terminal, engineVars, runnerVars
<1>3. PhaseInv' BY DEF PhaseInv, Qualifying, Boots, Settling, engineVars, runnerVars
<1>4. BaseInv' BY DEF BaseInv, Qualifying, Settling, engineVars, runnerVars
<1>5. SenderInv' BY DEF SenderInv, Qualifying, Settling, Measured, engineVars, runnerVars
<1>6. SettleInv' BY DEF SettleInv, engineVars, runnerVars
<1>7. TruthInv' BY DEF TruthInv, Unasked, Boots, Settling, Qualifying, engineVars, runnerVars
<1>8. QualifyInv' BY DEF QualifyInv, Qualifying, Page, Who, engineVars, runnerVars
<1>9. RowsInv' BY DEF RowsInv, Measured, HasServed, PinKept, Qualifying, engineVars, runnerVars
<1>10. MeasureInv' BY DEF MeasureInv, Qualifying, Page, Who, ServedAlike, Settling, engineVars,
      runnerVars
<1>11. JudgeInv' BY <1>a DEF JudgeInv, Qualifying, Page, ServedAlike, HasServed, PinKept,
      engineVars, runnerVars
<1>12. ValidatedInv' BY <1>a DEF ValidatedInv, Judged, MarkerTruthful, ArmTruthful, SameWorkers,
      PolicyHeld, engineVars, runnerVars
<1>13. QED BY <1>1, <1>2, <1>3, <1>4, <1>5, <1>6, <1>7, <1>8, <1>9, <1>10, <1>11, <1>12

(* A Pod that is over has no client. *)
LEMMA PodEndsKeeps == ASSUME ServingInv, PodEnds PROVE ServingInv'
<1> USE DEF ServingInv, PodEnds
<1>a. ~Qualifying /\ pc # "await" BY DEF PhaseInv, Boots
<1>1. EngineTypes' BY DEF EngineTypes, engineVars, runnerVars
<1>2. RunnerTypes' BY DEF RunnerTypes, Places, Boots, Settling, Terminal, engineVars, runnerVars
<1>3. PhaseInv' BY DEF PhaseInv, Qualifying, Boots, Settling, engineVars, runnerVars
<1>4. BaseInv' BY DEF BaseInv, Qualifying, Settling, engineVars, runnerVars
<1>5. SenderInv' BY <1>a DEF SenderInv, Qualifying, Settling, Measured, engineVars, runnerVars
<1>6. SettleInv' BY DEF SettleInv, engineVars, runnerVars
<1>7. TruthInv' BY DEF TruthInv, Unasked, Boots, Settling, Qualifying, engineVars, runnerVars
<1>8. QualifyInv' BY DEF QualifyInv, Qualifying, Page, Who, engineVars, runnerVars
<1>9. RowsInv' BY DEF RowsInv, Measured, HasServed, PinKept, Qualifying, engineVars, runnerVars
<1>10. MeasureInv' BY DEF MeasureInv, Qualifying, Page, Who, ServedAlike, Settling, engineVars,
      runnerVars
<1>11. JudgeInv' BY DEF JudgeInv, Qualifying, Page, ServedAlike, HasServed, PinKept, engineVars,
      runnerVars
<1>12. ValidatedInv' BY DEF ValidatedInv, Judged, MarkerTruthful, ArmTruthful, SameWorkers,
      PolicyHeld, engineVars, runnerVars
<1>13. QED BY <1>1, <1>2, <1>3, <1>4, <1>5, <1>6, <1>7, <1>8, <1>9, <1>10, <1>11, <1>12

(* A client that gives up leaves a flaw in its log. *)
LEMMA ClientTimeoutKeeps == ASSUME ServingInv, ClientTimeout PROVE ServingInv'
<1> USE DEF ServingInv, ClientTimeout
<1>1. EngineTypes' BY DEF EngineTypes, engineVars, runnerVars
<1>2. RunnerTypes'
  <2>1. log' \in [rows : Nat, flawed : BOOLEAN] BY DEF RunnerTypes
  <2>2. QED BY <2>1 DEF RunnerTypes, engineVars, runnerVars
<1>3. PhaseInv' BY DEF PhaseInv, Qualifying, Boots, Settling, engineVars, runnerVars
<1>4. BaseInv' BY DEF BaseInv, Qualifying, Settling, engineVars, runnerVars
<1>5. SenderInv' BY DEF SenderInv, Qualifying, Settling, Measured, engineVars, runnerVars
<1>6. SettleInv' BY DEF SettleInv, engineVars, runnerVars
<1>7. TruthInv' BY DEF TruthInv, Unasked, Boots, Settling, Qualifying, engineVars, runnerVars
<1>8. QualifyInv' BY DEF QualifyInv, Qualifying, Page, Who, engineVars, runnerVars
<1>9. RowsInv' BY DEF RowsInv, Measured, HasServed, PinKept, Qualifying, engineVars, runnerVars
<1>10. MeasureInv' BY DEF MeasureInv, Qualifying, Page, Who, ServedAlike, Settling, engineVars,
      runnerVars
<1>11. JudgeInv' BY DEF JudgeInv, Qualifying, Page, ServedAlike, HasServed, PinKept, engineVars,
      runnerVars
<1>12. ValidatedInv' BY DEF ValidatedInv, Judged, MarkerTruthful, ArmTruthful, SameWorkers,
      PolicyHeld, engineVars, runnerVars
<1>13. QED BY <1>1, <1>2, <1>3, <1>4, <1>5, <1>6, <1>7, <1>8, <1>9, <1>10, <1>11, <1>12

(* An answer moves the counters by what its request did. *)
LEMMA AnswerKeeps == ASSUME ServingInv, NEW r, Answer(r) PROVE ServingInv'
<1> USE DEF ServingInv, Answer
<1>a. /\ EngineTypes'
      /\ r \in flying /\ r.by \in Kinds \cup {Stray} /\ r.to \in Decoder
      /\ flying' = flying \ {r}
      /\ UNCHANGED <<shown, born, epp, configMap>>
      /\ \A j \in Kinds \cup {Stray} : j # r.by => truth'[j] = truth[j]
      /\ truth'[r.by].served = truth[r.by].served
      /\ truth'[r.by].under = truth[r.by].under
      /\ \A d \in Decoder : d # r.to => truth'[r.by].moved[d] = truth[r.by].moved[d]
      /\ \A a \in [Decoder -> Transfers] :
           Between(a, done, truth[r.by]) => Between(a, done', truth'[r.by])
  BY Finished
<1> HIDE DEF Answer
<1>b. /\ IF call = r
         THEN /\ call' = None
              /\ log' = [rows |-> log.rows + 1,
                         flawed |-> log.flawed \/ (r.by > 1 /\ Pin(r.by) \notin {None, r.to})]
         ELSE UNCHANGED <<call, log>>
      /\ UNCHANGED <<pc, late, runnerVars, pod, sent, report>>
  BY DEF Answer
<1> USE DEF runnerVars
<1>c. /\ Qualifying => r.by = kind /\ pc \in {"await", "failed"}
      /\ ~Qualifying => r.by = Stray \/ (r.by = kind /\ kind \notin validated)
      /\ pc \notin {"start", "create", "judge", "delete", "complete"} \/ r.by = Stray
      /\ Measured => r.by = kind
  BY <1>a DEF SenderInv
<1>d. /\ Qualifying' <=> Qualifying
      /\ Measured' <=> Measured
      /\ Who' = Who /\ \A i : Page(i)' = Page(i)
  BY <1>a, <1>b DEF Qualifying, Measured, Who, Page
<1>e. kind \in Kinds /\ kind \in Nat /\ Stray # kind BY Now, Work
<1>f. /\ ~log'.flawed => ~log.flawed
      /\ call = r /\ ~log'.flawed => ~(r.by > 1 /\ Pin(r.by) \notin {None, r.to})
      /\ log' \in [rows : Nat, flawed : BOOLEAN]
  <2> DEFINE wrong == r.by > 1 /\ Pin(r.by) \notin {None, r.to}
             flaw == log.flawed \/ wrong
  <2>1. log.rows \in Nat /\ log.flawed \in BOOLEAN /\ log \in [rows : Nat, flawed : BOOLEAN]
    BY DEF RunnerTypes
  <2>2. flaw \in BOOLEAN /\ (~flaw => ~log.flawed /\ ~wrong) OBVIOUS
  <2>3. call = r => log' = [rows |-> log.rows + 1, flawed |-> flaw] BY <1>b
  <2>4. call # r => log' = log BY <1>b
  <2> HIDE DEF flaw, ServingInv
  <2>5. call = r => log'.flawed = flaw /\ log' \in [rows : Nat, flawed : BOOLEAN]
    BY <2>1, <2>2, <2>3
  <2>6. QED BY <2>1, <2>2, <2>4, <2>5
<1>1. EngineTypes' BY <1>a
<1>2. RunnerTypes'
  <2>1. call' = None \/ call' \in [by : Kinds, to : Decoder] BY <1>b DEF RunnerTypes
  <2>2. QED BY <1>b, <1>f, <2>1 DEF RunnerTypes
<1>3. PhaseInv' BY <1>b, <1>d DEF PhaseInv
<1>4. BaseInv' BY <1>a, <1>b, <1>d DEF BaseInv
<1>5. SenderInv'
  <2>1. call' # None => call' = call BY <1>b
  <2>2. pc = "await" /\ ~log'.flawed => flying' = IF call' = None THEN {} ELSE {call'}
    <3>1. SUFFICES ASSUME pc = "await", ~log.flawed
                   PROVE  call' = None /\ flying' = {}
      BY <1>f
    <3>2. flying = {call} /\ call = r BY <1>a, <3>1 DEF SenderInv
    <3>3. QED BY <1>a, <1>b, <3>2
  <2>3. flying' \subseteq flying BY <1>a
  <2>4. QED BY <1>b, <1>d, <2>1, <2>2, <2>3 DEF SenderInv, Settling
<1>6. SettleInv'
  <2>1. flying # {} BY <1>a
  <2>2. QED BY <1>b, <2>1 DEF SettleInv
<1>7. TruthInv'
  <2>1. \A k \in Kinds : k > kind => truth'[k] = truth[k]
    <3>1. \A k \in Kinds : k > kind => k # kind /\ k # Stray BY <1>e, Work
    <3>2. r.by = kind \/ r.by = Stray BY <1>c
    <3>3. QED BY <1>a, <3>1, <3>2
  <2>2. Unasked => r.by = Stray BY <1>a, <1>c DEF SenderInv, PhaseInv, Unasked, Settling, Boots
  <2>3. Unasked => truth'[kind] = truth[kind] BY <1>a, <1>e, <2>2
  <2>4. Unasked' <=> Unasked BY <1>b, <1>d DEF Unasked
  <2>5. QED BY <1>b, <2>1, <2>3, <2>4 DEF TruthInv
<1>8. QualifyInv'
  <2>1. SUFFICES ASSUME Qualifying, snap # <<>>
                 PROVE  QualifyInv'
    BY <1>b, <1>d, Now DEF QualifyInv
  <2>2. pc = "await" /\ r.by = kind /\ Len(snap) = kind /\ kind \in 1..3
    BY <1>c, <2>1, Now DEF PhaseInv, Qualifying
  <2>3. \A i \in 1..(Len(snap) - 1) : truth'[i] = truth[i]
    <3>1. \A i \in 1..(kind - 1) : i \in 1..3 /\ i # kind BY <2>2
    <3>2. \A i \in 1..(kind - 1) : i \in Kinds BY <3>1, Work
    <3>3. QED BY <1>a, <2>2, <3>1, <3>2
  <2>4. base = Who => Between(Page(kind), done, truth[kind])
    BY <2>1, <2>2 DEF QualifyInv
  <2>5. Page(kind) \in [Decoder -> Transfers] BY <2>2, Now
  <2>6. base = Who => Between(Page(kind), done', truth'[kind])
    BY <1>a, <2>2, <2>4, <2>5
  <2>7. \A i \in 1..(Len(snap) - 1) : Between(Page(i), Page(i + 1), truth[i])
    BY <2>1 DEF QualifyInv
  <2>8. QED BY <1>b, <1>d, <2>2, <2>3, <2>6, <2>7 DEF QualifyInv
<1>9. RowsInv'
  <2>1. SUFFICES ASSUME Measured PROVE RowsInv'
    BY <1>d DEF RowsInv
  <2>2. r.by = kind /\ kind > 1 BY <1>c, <1>e, <2>1 DEF Measured, Qualifying
  <2>3. HasServed' <=> HasServed BY <1>a, <1>b, <2>2 DEF HasServed
  <2>4. log'.rows > 0 \/ call' # None => HasServed
    <3>1. CASE call = r /\ call # None BY <2>1, <3>1 DEF RowsInv
    <3>2. CASE call = r /\ call = None
      <4>1. r \in [by : Nat, to : Decoder]
        BY <1>a, <1>e, <2>2 DEF EngineTypes
      <4>2. QED BY <3>2, <4>1, NoneAssumption DEF NoneAssumption
    <3>3. CASE call # r BY <1>b, <2>1, <3>3 DEF RowsInv
    <3>4. QED BY <3>1, <3>2, <3>3
  <2>5. ASSUME pod \in {"running", "done"}, ~log'.flawed
        PROVE  PinKept' /\ call' = None /\ flying' = {}
    <3>1. ~log.flawed BY <1>f, <2>5
    <3>2. PinKept /\ flying = IF call = None THEN {} ELSE {call}
      BY <2>1, <2>5, <3>1 DEF RowsInv
    <3>3. call = r /\ flying = {r} BY <1>a, <3>2
    <3>4. Pin(kind) = None \/ Pin(kind) = r.to BY <1>f, <2>2, <2>5, <3>3
    <3>5. PinKept' BY <1>a, <1>b, <2>2, <3>2, <3>4 DEF PinKept
    <3>6. QED BY <1>a, <1>b, <3>3, <3>5
  <2>6. QED BY <1>b, <2>3, <2>4, <2>5 DEF RowsInv
<1>10. MeasureInv'
  <2>1. SUFFICES ASSUME ~Qualifying, Len(snap) = 1 PROVE MeasureInv'
    BY <1>b, <1>d DEF MeasureInv
  <2>2. r.by = kind
    <3>1. pc # "create" BY <1>a DEF SenderInv
    <3>2. QED BY <1>c, <2>1, <3>1 DEF Measured
  <2>3. ServedAlike' <=> ServedAlike BY <1>a, <1>b, <2>2 DEF ServedAlike
  <2>4. pc \notin {"pods", "metrics"} BY <1>a DEF SettleInv
  <2>5. Page(1) \in [Decoder -> Transfers] BY <2>1, Now
  <2>6. base = Who => Between(Page(1), done', truth'[kind])
    BY <1>a, <2>1, <2>2, <2>5 DEF MeasureInv
  <2>7. QED BY <1>a, <1>b, <1>d, <2>1, <2>3, <2>4, <2>6 DEF MeasureInv
<1>11. JudgeInv'
  <2>1. ~Qualifying => Len(snap) # 2
    <3>1. SUFFICES ASSUME ~Qualifying, Len(snap) = 2 PROVE FALSE
      OBVIOUS
    <3>2. pc \in {"judge", "delete"}
      <4>1. pc \in Places BY DEF RunnerTypes
      <4>2. Len(<<>>) = 0 BY Now
      <4>3. QED BY <3>1, <4>1, <4>2 DEF PhaseInv, Places, Terminal
    <3>3. QED BY <1>a, <3>2 DEF SenderInv
  <2>2. QED BY <1>b, <1>d, <2>1 DEF JudgeInv
<1>12. ValidatedInv'
  <2>1. r.by = Stray \/ (r.by = kind /\ kind \notin validated) BY <1>c DEF PhaseInv
  <2>2. \A k \in validated : k \in Kinds BY Work, Now DEF RunnerTypes
  <2>3. \A k \in validated : truth'[k] = truth[k] BY <1>a, <2>1, <2>2, Work
  <2>4. ASSUME marker, NEW k \in 1..3 PROVE truth'[k] = truth[k]
    <3>1. ~Qualifying BY <2>4 DEF PhaseInv
    <3>2. k # kind /\ k \in Kinds /\ k # Stray BY <1>e, <3>1, Work DEF Qualifying
    <3>3. QED BY <1>a, <1>c, <3>1, <3>2
  <2>5. Judged' BY <1>b, <2>3, <2>4, JudgedStays DEF ValidatedInv
  <2>6. QED BY <1>b, <2>3, <2>5 DEF ValidatedInv
<1>13. QED BY <1>1, <1>2, <1>3, <1>4, <1>5, <1>6, <1>7, <1>8, <1>9, <1>10, <1>11, <1>12

(* A restarted container is another worker than those of the program. *)
LEMMA RestartKeeps == ASSUME ServingInv, NEW d \in Decoder, Restart(d) PROVE ServingInv'
<1> USE DEF ServingInv, Restart
<1>a. /\ EngineTypes'
      /\ flying' = {r \in flying : r.to # d}
      /\ born'[d] > born[d] /\ \A e \in Decoder : born'[e] >= born[e]
      /\ shown = done => shown' = done'
      /\ UNCHANGED <<epp, configMap, truth>>
  BY Restarted
<1> HIDE DEF Restart
<1>b. /\ IF call # None /\ call.to = d
         THEN call' = None /\ log' = [log EXCEPT !.flawed = TRUE]
         ELSE UNCHANGED <<call, log>>
      /\ UNCHANGED <<pc, late, runnerVars, pod, sent, report>>
  BY DEF Restart
<1> USE DEF runnerVars
<1>c. /\ log' \in [rows : Nat, flawed : BOOLEAN] /\ log'.rows = log.rows
      /\ ~log'.flawed => log' = log /\ call' = call /\ (call = None \/ call.to # d)
      /\ call' = None \/ call' = call
  <2>1. log \in [rows : Nat, flawed : BOOLEAN] BY DEF RunnerTypes
  <2>2. [log EXCEPT !.flawed = TRUE] \in [rows : Nat, flawed : BOOLEAN]
    BY <2>1
  <2>3. [log EXCEPT !.flawed = TRUE].rows = log.rows /\ [log EXCEPT !.flawed = TRUE].flawed
    BY <2>1
  <2>4. QED BY <1>b, <2>1, <2>2, <2>3
<1>d. base' = base /\ base # Who'
  <2>1. CASE base = None
    <3>1. None # Who'
      <4>1. Who' \in [decoders : [Decoder -> Nat], epp : Nat]
        BY <1>a DEF Who, EngineTypes
      <4>2. QED BY <4>1, NoneAssumption DEF NoneAssumption
    <3>2. QED BY <1>b, <2>1, <3>1
  <2>2. CASE base # None
    <3>1. /\ base.decoders[d] <= born[d] /\ base.decoders[d] \in Nat
          /\ born[d] \in Nat /\ born'[d] \in Nat
      BY <1>a, <2>2 DEF BaseInv, RunnerTypes, Workers, EngineTypes
    <3>2. Who'.decoders[d] = born'[d] BY DEF Who
    <3>3. base.decoders[d] # born'[d] BY <1>a, <3>1
    <3>4. QED BY <1>b, <3>2, <3>3
  <2>3. QED BY <2>1, <2>2
<1>e. /\ Qualifying' <=> Qualifying
      /\ Measured' <=> Measured
      /\ \A i : Page(i)' = Page(i)
  BY <1>b DEF Qualifying, Measured, Page
<1>f. ASSUME ~log'.flawed, flying = IF call = None THEN {} ELSE {call}
      PROVE  flying' = IF call' = None THEN {} ELSE {call'}
  <2>1. CASE call = None BY <1>a, <1>c, <1>f, <2>1
  <2>2. CASE call # None
    <3>1. flying = {call} /\ call.to # d /\ call' = call BY <1>c, <1>f, <2>2
    <3>2. flying' = {call} BY <1>a, <3>1
    <3>3. QED BY <2>2, <3>1, <3>2
  <2>3. QED BY <2>1, <2>2
<1>1. EngineTypes' BY <1>a
<1>2. RunnerTypes'
  <2>1. call' = None \/ call' \in [by : Kinds, to : Decoder] BY <1>c DEF RunnerTypes
  <2>2. QED BY <1>b, <1>c, <2>1 DEF RunnerTypes
<1>3. PhaseInv' BY <1>b, <1>e DEF PhaseInv
<1>4. BaseInv'
  <2>1. base # None => \A e \in Decoder : base.decoders[e] <= born'[e]
    <3>1. SUFFICES ASSUME base # None, NEW e \in Decoder PROVE base.decoders[e] <= born'[e]
      OBVIOUS
    <3>2. /\ base.decoders[e] <= born[e] /\ base.decoders[e] \in Nat
          /\ born[e] \in Nat /\ born'[e] \in Nat
      BY <1>a, <3>1 DEF BaseInv, RunnerTypes, Workers, EngineTypes
    <3>3. QED BY <1>a, <3>2
  <2>2. QED BY <1>a, <1>b, <1>e, <2>1 DEF BaseInv
<1>5. SenderInv'
  <2>1. flying' \subseteq flying BY <1>a
  <2>2. pc = "await" /\ ~log'.flawed => flying' = IF call' = None THEN {} ELSE {call'}
    <3>1. pc = "await" /\ ~log'.flawed => flying = IF call = None THEN {} ELSE {call}
      BY <1>c DEF SenderInv
    <3>2. QED BY <1>f, <3>1
  <2>3. QED BY <1>b, <1>c, <1>e, <2>1, <2>2 DEF SenderInv, Settling
<1>6. SettleInv' BY <1>a, <1>b DEF SettleInv
<1>7. TruthInv' BY <1>a, <1>b, <1>e DEF TruthInv, Unasked
<1>8. QualifyInv' BY <1>a, <1>b, <1>d, <1>e DEF QualifyInv
<1>9. RowsInv'
  <2>1. SUFFICES ASSUME Measured PROVE RowsInv'
    BY <1>e DEF RowsInv
  <2>2. log'.rows > 0 \/ call' # None => HasServed'
    BY <1>a, <1>b, <1>c, <2>1 DEF RowsInv, HasServed
  <2>3. ASSUME pod \in {"running", "done"}, ~log'.flawed
        PROVE  PinKept' /\ flying' = IF call' = None THEN {} ELSE {call'}
    <3>1. PinKept /\ flying = IF call = None THEN {} ELSE {call}
      BY <1>c, <2>1, <2>3 DEF RowsInv
    <3>2. PinKept' BY <1>a, <1>b, <3>1 DEF PinKept
    <3>3. QED BY <1>f, <2>3, <3>1, <3>2
  <2>4. QED BY <1>b, <2>2, <2>3 DEF RowsInv
<1>10. MeasureInv' BY <1>a, <1>b, <1>d, <1>e DEF MeasureInv, ServedAlike
<1>11. JudgeInv' BY <1>a, <1>b, <1>e DEF JudgeInv, ServedAlike, HasServed, PinKept
<1>12. ValidatedInv'
  <2>1. Judged' BY <1>a, <1>b, JudgedStays DEF ValidatedInv
  <2>2. QED BY <1>a, <1>b, <2>1 DEF ValidatedInv
<1>13. QED BY <1>1, <1>2, <1>3, <1>4, <1>5, <1>6, <1>7, <1>8, <1>9, <1>10, <1>11, <1>12

(* Pages move on; an edit of the ConfigMap moves nothing; a new picker is  *)
(* another worker than that of the program.                                *)
LEMMA OutsideKeeps == ASSUME ServingInv, Outside PROVE ServingInv'
<1> USE DEF ServingInv, Outside
<1>a. /\ EngineTypes' /\ UNCHANGED <<done, born, flying, truth>>
      /\ shown' = shown \/ shown # done
      /\ epp' = epp \/ epp'.born > epp.born
  <2>1. ASSUME NEW d \in Decoder, Report(d)
        PROVE  /\ EngineTypes' /\ UNCHANGED <<done, born, flying, truth, epp>>
               /\ shown # done
    BY <2>1, Reported
  <2>2. ASSUME EditConfigMap \/ RestartEpp
        PROVE  /\ EngineTypes' /\ UNCHANGED <<done, born, flying, truth, shown>>
               /\ epp' = epp \/ epp'.born > epp.born
    BY <2>2, Switched
  <2>3. QED BY <2>1, <2>2
<1> HIDE DEF Outside
<1>c. UNCHANGED <<pc, late, runnerVars, podVars>> BY DEF Outside
<1> USE DEF runnerVars, podVars
<1>d. base = Who' => base = Who /\ epp' = epp
  <2>1. base = Who' => base.epp = epp'.born /\ base # None
    <3>1. Who' \in [decoders : [Decoder -> Nat], epp : Nat]
      BY <1>a DEF Who, EngineTypes
    <3>2. QED BY <3>1, NoneAssumption DEF NoneAssumption, Who
  <2>2. base # None => base.epp <= epp.born /\ base.epp \in Nat
    BY DEF BaseInv, RunnerTypes, Workers
  <2>3. epp.born \in Nat /\ epp'.born \in Nat BY <1>a DEF EngineTypes
  <2>4. base = Who' => ~(epp'.born > epp.born) BY <2>1, <2>2, <2>3
  <2>5. base = Who' => epp' = epp BY <1>a, <2>4
  <2>6. epp' = epp => Who' = Who BY <1>a DEF Who
  <2>7. QED BY <2>5, <2>6
<1>e. /\ Qualifying' <=> Qualifying
      /\ Measured' <=> Measured
      /\ \A i : Page(i)' = Page(i)
  BY <1>c DEF Qualifying, Measured, Page
<1>1. EngineTypes' BY <1>a
<1>2. RunnerTypes' BY <1>c DEF RunnerTypes
<1>3. PhaseInv' BY <1>c, <1>e DEF PhaseInv
<1>4. BaseInv'
  <2>1. epp'.born >= epp.born /\ epp'.born \in Nat /\ epp.born \in Nat
    BY <1>a DEF EngineTypes
  <2>2. base # None => base.epp <= epp'.born
    BY <2>1 DEF BaseInv, RunnerTypes, Workers
  <2>3. QED BY <1>a, <1>c, <1>e, <2>2 DEF BaseInv
<1>5. SenderInv' BY <1>a, <1>c, <1>e DEF SenderInv
<1>6. SettleInv' BY <1>a, <1>c DEF SettleInv
<1>7. TruthInv' BY <1>a, <1>c, <1>e DEF TruthInv, Unasked
<1>8. QualifyInv' BY <1>a, <1>c, <1>d, <1>e DEF QualifyInv
<1>9. RowsInv' BY <1>a, <1>c, <1>e DEF RowsInv, HasServed, PinKept
<1>10. MeasureInv' BY <1>a, <1>c, <1>d, <1>e DEF MeasureInv, ServedAlike
<1>11. JudgeInv' BY <1>a, <1>c, <1>e DEF JudgeInv, ServedAlike, HasServed, PinKept
<1>12. ValidatedInv'
  <2>1. Judged' BY <1>a, <1>c, JudgedStays DEF ValidatedInv
  <2>2. QED BY <1>a, <1>c, <2>1 DEF ValidatedInv
<1>13. QED BY <1>1, <1>2, <1>3, <1>4, <1>5, <1>6, <1>7, <1>8, <1>9, <1>10, <1>11, <1>12

(* The deadline changes nothing else. *)
LEMMA DeadlinePassesKeeps == ASSUME ServingInv, DeadlinePasses PROVE ServingInv'
<1> USE DEF ServingInv, DeadlinePasses
<1>1. EngineTypes' BY DEF EngineTypes, engineVars, runnerVars, podVars
<1>2. RunnerTypes' BY DEF RunnerTypes, Places, Boots, Settling, Terminal, engineVars,
      runnerVars, podVars
<1>3. PhaseInv' BY DEF PhaseInv, Qualifying, Boots, Settling, engineVars, runnerVars, podVars
<1>4. BaseInv' BY DEF BaseInv, Qualifying, Settling, engineVars, runnerVars, podVars
<1>5. SenderInv' BY DEF SenderInv, Qualifying, Settling, Measured, engineVars, runnerVars,
      podVars
<1>6. SettleInv' BY DEF SettleInv, engineVars, runnerVars, podVars
<1>7. TruthInv' BY DEF TruthInv, Unasked, Boots, Settling, Qualifying, engineVars, runnerVars,
      podVars
<1>8. QualifyInv' BY DEF QualifyInv, Qualifying, Page, Who, engineVars, runnerVars, podVars
<1>9. RowsInv' BY DEF RowsInv, Measured, HasServed, PinKept, Qualifying, engineVars, runnerVars,
      podVars
<1>10. MeasureInv' BY DEF MeasureInv, Qualifying, Page, Who, ServedAlike, Settling, engineVars,
      runnerVars, podVars
<1>11. JudgeInv' BY DEF JudgeInv, Qualifying, Page, ServedAlike, HasServed, PinKept, engineVars,
      runnerVars, podVars
<1>12. ValidatedInv' BY DEF ValidatedInv, Judged, MarkerTruthful, ArmTruthful, SameWorkers,
      PolicyHeld, engineVars, runnerVars, podVars
<1>13. QED BY <1>1, <1>2, <1>3, <1>4, <1>5, <1>6, <1>7, <1>8, <1>9, <1>10, <1>11, <1>12

(* A step that changes nothing. *)
LEMMA StutterKeeps == ASSUME ServingInv, UNCHANGED servingVars PROVE ServingInv'
<1> USE DEF ServingInv, servingVars
<1>1. EngineTypes' BY DEF EngineTypes, engineVars, runnerVars, podVars
<1>2. RunnerTypes' BY DEF RunnerTypes, Places, Boots, Settling, Terminal, engineVars,
      runnerVars, podVars
<1>3. PhaseInv' BY DEF PhaseInv, Qualifying, Boots, Settling, engineVars, runnerVars, podVars
<1>4. BaseInv' BY DEF BaseInv, Qualifying, Settling, engineVars, runnerVars, podVars
<1>5. SenderInv' BY DEF SenderInv, Qualifying, Settling, Measured, engineVars, runnerVars,
      podVars
<1>6. SettleInv' BY DEF SettleInv, engineVars, runnerVars, podVars
<1>7. TruthInv' BY DEF TruthInv, Unasked, Boots, Settling, Qualifying, engineVars, runnerVars,
      podVars
<1>8. QualifyInv' BY DEF QualifyInv, Qualifying, Page, Who, engineVars, runnerVars, podVars
<1>9. RowsInv' BY DEF RowsInv, Measured, HasServed, PinKept, Qualifying, engineVars, runnerVars,
      podVars
<1>10. MeasureInv' BY DEF MeasureInv, Qualifying, Page, Who, ServedAlike, Settling, engineVars,
      runnerVars, podVars
<1>11. JudgeInv' BY DEF JudgeInv, Qualifying, Page, ServedAlike, HasServed, PinKept, engineVars,
      runnerVars, podVars
<1>12. ValidatedInv' BY DEF ValidatedInv, Judged, MarkerTruthful, ArmTruthful, SameWorkers,
      PolicyHeld, engineVars, runnerVars, podVars
<1>13. QED BY <1>1, <1>2, <1>3, <1>4, <1>5, <1>6, <1>7, <1>8, <1>9, <1>10, <1>11, <1>12

-----------------------------------------------------------------------------
(* The session *)

(* At first nothing is measured, marked or validated. *)
LEMMA InitKeeps == Init => ServingInv
<1> SUFFICES ASSUME Init PROVE ServingInv
  OBVIOUS
<1> USE DEF Init, InitEngines
<1>a. /\ Qualifying /\ Len(snap) = 0 /\ kind \in Kinds /\ <<>> \in Seq(Snapshots)
      /\ \A k \in Kinds : truth[k] = Untouched
  BY Work, EmptySeq DEF Qualifying
<1>1. EngineTypes
  <2>1. NoTransfers \in Transfers /\ NoTransfers.good <= NoTransfers.good
        /\ NoTransfers.bad <= NoTransfers.bad
    BY DEF NoTransfers, Transfers
  <2>2. Untouched \in Truths BY DEF Untouched, Truths
  <2>3. Deployed \in Policy BY ServingAssumption DEF ServingAssumption
  <2>4. QED BY <2>1, <2>2, <2>3 DEF EngineTypes
<1>2. RunnerTypes
  <2>1. 0 \in 0..Attempts BY ServingAssumption DEF ServingAssumption
  <2>2. QED BY <1>a, <2>1 DEF RunnerTypes, Places, Boots, Settling, NewLog
<1>3. PhaseInv BY <1>a DEF PhaseInv, Boots, Settling
<1>4. BaseInv BY DEF BaseInv, Settling
<1>5. SenderInv BY <1>a DEF SenderInv, Settling, Measured
<1>6. SettleInv BY DEF SettleInv
<1>7. TruthInv BY <1>a DEF TruthInv
<1>8. QualifyInv
  <2>1. 1..(Len(snap) - 1) = {} BY <1>a
  <2>2. QED BY <2>1 DEF QualifyInv
<1>9. RowsInv BY <1>a DEF RowsInv, Measured
<1>10. MeasureInv BY <1>a DEF MeasureInv
<1>11. JudgeInv BY <1>a DEF JudgeInv
<1>12. ValidatedInv
  BY DEF ValidatedInv, Judged, MarkerTruthful, ArmTruthful, SameWorkers, PolicyHeld
<1>13. QED
  BY <1>1, <1>2, <1>3, <1>4, <1>5, <1>6, <1>7, <1>8, <1>9, <1>10, <1>11, <1>12
  DEF ServingInv

(* What the controller does. *)
LEMMA ControllerKeeps == ASSUME ServingInv, Controller PROVE ServingInv'
<1>1. CASE \/ WaitApply \/ ReadOutputs \/ WaitNodes \/ ApplyModels \/ WaitServing
           \/ DeployClient
  BY <1>1, PhaseKeeps
  DEF WaitApply, ReadOutputs, WaitNodes, ApplyModels, WaitServing, DeployClient
<1>2. CASE \/ FirstPoll \/ Sleep \/ Poll \/ CollectPods \/ CollectMetrics \/ CollectPartly
           \/ LatePoll \/ Ask \/ Answered \/ WriteMarker
  BY <1>2, FirstPollKeeps, SleepKeeps, PollKeeps, CollectPodsKeeps, CollectMetricsKeeps,
     CollectPartlyKeeps, LatePollKeeps, AskKeeps, AnsweredKeeps, WriteMarkerKeeps
<1>3. CASE \/ StartProgram \/ CreatePod \/ SeeExit \/ AcceptItem \/ NextItem
           \/ Abort \/ Preserve \/ DropPod
  BY <1>3, StartProgramKeeps, CreatePodKeeps, SeeExitKeeps, AcceptItemKeeps, NextItemKeeps,
     AbortKeeps, PreserveKeeps, DropPodKeeps
<1>4. QED BY <1>1, <1>2, <1>3 DEF Controller

(* What happens around it, and what its operator does. *)
LEMMA EnvironmentKeeps == ASSUME ServingInv, Environment PROVE ServingInv'
BY RerunKeeps, PodSendsKeeps, PodFinishesKeeps, PodEndsKeeps, ClientTimeoutKeeps,
   OutsideKeeps, AnswerKeeps, RestartKeeps
DEF Environment

(* The strengthened invariant holds in every reachable state. *)
THEOREM ServingInvariance == Spec => []ServingInv
<1>1. ServingInv /\ [Next]_servingVars => ServingInv'
  BY ControllerKeeps, EnvironmentKeeps, DeadlinePassesKeeps, StutterKeeps DEF Next
<1>2. QED BY InitKeeps, <1>1, PTL DEF Spec

(* Pages never show more than was done, and no phase has more snapshots    *)
(* than the four that are compared.                                        *)
THEOREM ServingTypeCorrect == Spec => []TypeOK
<1>1. ServingInv => TypeOK
  <2> SUFFICES ASSUME ServingInv PROVE TypeOK
    OBVIOUS
  <2> USE DEF ServingInv
  <2>1. \A d \in Decoder : shown[d].good \in 0..done[d].good /\ shown[d].bad \in 0..done[d].bad
    BY DEF EngineTypes, Transfers
  <2>2. Len(snap) <= 4
    <3>1. Len(snap) \in Nat /\ kind \in Nat /\ Len(<<>>) = 0 BY Now
    <3>2. pc \in Places BY DEF RunnerTypes
    <3>3. CASE Qualifying
      <4>1. kind \in {0, 1, 2, 3} BY <3>1, <3>3, Few DEF Qualifying
      <4>2. pc \in Settling => Len(snap) \in {0, 1, 2, 3} BY <3>1, <3>3, Few DEF PhaseInv
      <4>3. pc \in {"ask", "await"} => Len(snap) = kind BY <3>3 DEF PhaseInv
      <4>4. pc \in Boots \cup {"failed"} => Len(snap) = 0 BY <3>1, <3>3 DEF PhaseInv
      <4>5. pc = "judge" => Len(snap) = 4 BY <3>3 DEF PhaseInv
      <4>6. pc \in Boots \cup Settling \cup {"ask", "await", "judge", "failed"}
        BY <3>3 DEF PhaseInv
      <4>7. Len(snap) \in {0, 1, 2, 3, 4} BY <4>1, <4>2, <4>3, <4>4, <4>5, <4>6
      <4>8. QED BY <3>1, <4>7, Few
    <3>4. CASE ~Qualifying
      <4>1. pc \in Settling \cup {"preserve", "drop", "failed"} => Len(snap) \in {0, 1}
        BY <3>1, <3>4, Few DEF PhaseInv
      <4>2. pc \in {"create", "exit"} => Len(snap) = 1 BY <3>4 DEF PhaseInv
      <4>3. pc \in {"judge", "delete"} => Len(snap) = 2 BY <3>4 DEF PhaseInv
      <4>4. pc \in {"start", "complete"} => Len(snap) = 0 BY <3>1, <3>4 DEF PhaseInv
      <4>5. pc \in Settling \cup {"preserve", "drop", "failed", "create", "exit", "judge",
                                  "delete", "start", "complete"}
        BY <3>2, <3>4 DEF PhaseInv, Places, Terminal
      <4>6. Len(snap) \in {0, 1, 2, 3, 4} BY <4>1, <4>2, <4>3, <4>4, <4>5
      <4>7. QED BY <3>1, <4>6, Few
    <3>5. QED BY <3>3, <3>4
  <2>3. validated \subseteq Kinds BY Work, Now DEF RunnerTypes
  <2>4. QED BY <2>1, <2>2, <2>3 DEF TypeOK, EngineTypes, RunnerTypes
<1>2. QED BY <1>1, ServingInvariance, PTL

(* correctness-verified.json says what the three requests really did,      *)
(* although counters are seen late and restart with their container.       *)
THEOREM MarkerIsTruthful == Spec => []MarkerTruthful
<1>1. ServingInv => MarkerTruthful BY DEF ServingInv, ValidatedInv, Judged
<1>2. QED BY <1>1, ServingInvariance, PTL

(* A validated item is judged by its own transfers, and by all of them.    *)
THEOREM ArmsAreTruthful == Spec => []ArmTruthful
<1>1. ServingInv => ArmTruthful BY DEF ServingInv, ValidatedInv, Judged
<1>2. QED BY <1>1, ServingInvariance, PTL

(* The validated items of one program were served by the same containers,  *)
(* from the first request of the first item to the last of the last.       *)
THEOREM WorkersAreTheSame == Spec => []SameWorkers
<1>1. ServingInv => SameWorkers BY DEF ServingInv, ValidatedInv, Judged
<1>2. QED BY <1>1, ServingInvariance, PTL

(* Every request of a validated block was routed under the declared        *)
(* policy, whatever was switched in between.                               *)
THEOREM PolicyIsHeld == Spec => []PolicyHeld
<1>1. ServingInv => PolicyHeld BY DEF ServingInv, ValidatedInv, Judged
<1>2. QED BY <1>1, ServingInvariance, PTL

(* Reports that are copied are not lost. *)
LEMMA CopiedIsKept ==
  ASSUME Next, report = "copied"
  PROVE  report' # "lost"
<1>1. CASE Controller
  <2>1. CASE \/ WaitApply \/ ReadOutputs \/ WaitNodes \/ ApplyModels \/ WaitServing
             \/ DeployClient
    BY <2>1
    DEF WaitApply, ReadOutputs, WaitNodes, ApplyModels, WaitServing, DeployClient, Phase,
        podVars
  <2>2. CASE \/ FirstPoll \/ Sleep \/ Poll \/ CollectPods \/ LatePoll \/ Answered
             \/ WriteMarker
    BY <2>2 DEF FirstPoll, Sleep, Poll, CollectPods, LatePoll, Answered, WriteMarker, podVars
  <2>3. CASE CollectMetrics \/ CollectPartly \/ Ask
    BY <2>3 DEF CollectMetrics, CollectPartly, Ask
  <2>4. CASE \/ StartProgram \/ CreatePod \/ SeeExit \/ AcceptItem \/ Abort \/ Preserve
    BY <2>4 DEF StartProgram, CreatePod, SeeExit, AcceptItem, Abort, Preserve, podVars
  <2>5. CASE NextItem \/ DropPod BY <2>5 DEF NextItem, DropPod, DeletePod
  <2>6. QED BY <1>1, <2>1, <2>2, <2>3, <2>4, <2>5 DEF Controller
<1>2. CASE Environment
  <2>1. CASE Rerun \/ PodSends \/ PodFinishes \/ PodEnds \/ ClientTimeout \/ Outside
    BY <2>1 DEF Rerun, PodSends, PodFinishes, PodEnds, ClientTimeout, Outside, podVars
  <2>2. CASE \E r \in flying : Answer(r) BY <2>2 DEF Answer
  <2>3. CASE \E d \in Decoder : Restart(d) BY <2>3 DEF Restart
  <2>4. QED BY <1>2, <2>1, <2>2, <2>3 DEF Environment
<1>3. CASE DeadlinePasses BY <1>3 DEF DeadlinePasses, podVars
<1>4. QED BY <1>1, <1>2, <1>3 DEF Next

(* A Pod that alone has the reports of its item is never deleted once the  *)
(* item is validated: the reports were copied before.                      *)
THEOREM ValidatedAreRetained == Spec => ValidatedRetained
<1>1. ServingInv /\ [Next]_servingVars
        => [report' = "lost" => kind \notin validated]_servingVars
  BY CopiedIsKept DEF ServingInv, ValidatedInv
<1>2. QED BY <1>1, ServingInvariance, PTL DEF Spec, ValidatedRetained
=============================================================================
