------------------------------- MODULE Engines -------------------------------
(***************************************************************************)
(* The deployment a serving session measures, as far as its programs see   *)
(* it: two decoders that receive requests and pull the prefilled cache     *)
(* with NIXL transfers, and the endpoint picker (EPP) that routes.  None   *)
(* of it is under src/; it is what run-serving.py and run-measurements.py  *)
(* poll.  A /metrics page lags behind what the engine did by at most one   *)
(* reporting interval, which a settle interval covers.                     *)
(***************************************************************************)
EXTENDS Naturals, Functions

CONSTANTS
  Decoder,      \* the decode workers, "local" and "remote"
  Policy,       \* contents of the EPP's ConfigMap
  Outcome,      \* what one request may do: [good, bad] numbers of transfers
  MaxIncidents  \* bound on what goes wrong with the containers

VARIABLES
  done,      \* transfers each decoder has made since its container started
  shown,     \* the part of them its metrics page shows
  born,      \* restart count of each decoder's container
  epp,       \* restart count of the EPP and the policy it has loaded
  configMap, \* [policy, edits]: the ConfigMap of the EPP
  flying,    \* requests in an engine: [by, to]
  truth      \* what the requests of each kind looked at really did (history)

engineVars == <<done, shown, born, epp, configMap, flying, truth>>

NoTransfers == [good |-> 0, bad |-> 0]
Untouched   == [moved |-> [d \in Decoder |-> 0], bad |-> 0, served |-> {}, under |-> {}]

Plus(a, b) == [good |-> a.good + b.good, bad |-> a.bad + b.bad]

(* Every container of the deployment with its restart count. *)
Who == [decoders |-> born, epp |-> epp.born]

(* One read of all metrics pages. *)
Sample == [shown |-> shown, busy |-> {r.to : r \in flying}]

Fresh == epp.born = 0 /\ \A d \in Decoder : born[d] = 0

InitEngines(kinds, policy) ==
  /\ done = [d \in Decoder |-> NoTransfers]
  /\ shown = done
  /\ born = [d \in Decoder |-> 0]
  /\ epp = [born |-> 0, loaded |-> policy]
  /\ configMap = [policy |-> policy, edits |-> 0]
  /\ flying = {}
  /\ truth = [k \in kinds |-> Untouched]

(* A request of kind k reaches decoder d. *)
Receive(k, d) ==
  /\ [by |-> k, to |-> d] \notin flying
  /\ flying' = flying \cup {[by |-> k, to |-> d]}
  /\ truth' = [j \in DOMAIN truth |->
                  IF j = k THEN [truth[j] EXCEPT !.served = @ \cup {Who},
                                                 !.under = @ \cup {epp.loaded}]
                           ELSE truth[j]]
  /\ UNCHANGED <<done, shown, born, epp, configMap>>

Finish(r) ==
  /\ r \in flying
  /\ flying' = flying \ {r}
  /\ \E o \in Outcome :
       /\ done' = [done EXCEPT ![r.to] = Plus(@, o)]
       /\ truth' = [j \in DOMAIN truth |->
                      IF j = r.by THEN [truth[j] EXCEPT !.moved[r.to] = @ + o.good,
                                                        !.bad = @ + o.bad]
                                  ELSE truth[j]]
  /\ UNCHANGED <<shown, born, epp, configMap>>

Report(d) ==
  /\ shown[d] # done[d]
  /\ shown' = [shown EXCEPT ![d] = done[d]]
  /\ UNCHANGED <<done, born, epp, configMap, flying, truth>>

(* One settle interval is over: all that was done before it is reported. *)
ReportAll == shown' = done /\ UNCHANGED <<done, born, epp, configMap, flying, truth>>

(* Counters from the shown page on: only differences to it are looked at. *)
Rebase ==
  /\ done' = [d \in Decoder |-> [good |-> done[d].good - shown[d].good,
                                 bad |-> done[d].bad - shown[d].bad]]
  /\ shown' = [d \in Decoder |-> NoTransfers]

(* All that was done is reported, and only what is added to it matters:    *)
(* the counters may as well start from zero.                               *)
CountFromHere == done' = [d \in Decoder |-> NoTransfers] /\ shown' = done'

(* The container of a decoder restarts: counters from zero, requests lost. *)
RestartDecoder(d) ==
  /\ born' = [born EXCEPT ![d] = @ + 1]
  /\ done' = [done EXCEPT ![d] = NoTransfers]
  /\ shown' = [shown EXCEPT ![d] = NoTransfers]
  /\ flying' = {r \in flying : r.to # d}
  /\ UNCHANGED <<epp, configMap, truth>>

(* Policies are switched from outside, by an edit and a restart of the EPP. *)
EditConfigMap ==
  /\ \E p \in Policy \ {configMap.policy} :
       configMap' = [policy |-> p, edits |-> configMap.edits + 1]
  /\ UNCHANGED <<done, shown, born, epp, flying, truth>>

RestartEpp ==
  /\ epp' = [born |-> epp.born + 1, loaded |-> configMap.policy]
  /\ UNCHANGED <<done, shown, born, configMap, flying, truth>>
=============================================================================
