---------------------------- MODULE IpcDiagnostic ----------------------------
(***************************************************************************)
(* Raw CUDA IPC between two processes of one host.  run-ipc-diagnostic.py  *)
(* on the Mac runs one case after another: in the Pods it starts           *)
(* raw-ipc.py twice, a producer that exports an allocation and a consumer  *)
(* that opens it, carries their packets between the Pods, and ends both.   *)
(* The export must outlive the import.                                     *)
(*                                                                         *)
(* Time counts from the start of the producer's command.  A command may    *)
(* start, finish or lose its connection at any moment within its timeout;  *)
(* one that has ended for the Mac does not start in the Pod any more.      *)
(***************************************************************************)
EXTENDS Naturals

CONSTANTS
  MetadataWait,  \* 15 s: for the producer's packet
  CopyWait,      \* 5 s: copy_json
  ExecWait,      \* 45 s: the consumer's command
  ReadWait,      \* 5 s: remote_json of a result
  StopWait,      \* 12 s: stop_role
  ImporterTime,  \* 35 s: the consumer's own alarm,
  ImporterLimit, \* 40 s: and the timeout around it
  ExporterTime,  \* 90 s: the producer's own alarm,
  ExporterLimit, \* 100 s: and the timeout around it
  CaseWait       \* 110 s: communicate with the producer's command

ASSUME IpcAssumption ==
  /\ {MetadataWait, CopyWait, ExecWait, ReadWait, StopWait, ImporterTime, ImporterLimit,
      ExporterTime, ExporterLimit, CaseWait} \subseteq Nat
  /\ MetadataWait + CopyWait + ExecWait + 2 * ReadWait + StopWait < ExporterTime
  /\ MetadataWait + 2 * CopyWait + ExecWait + 2 * ReadWait + StopWait < CaseWait
  /\ ImporterTime < ImporterLimit /\ ExporterTime < ExporterLimit /\ ExporterLimit < CaseWait

VARIABLES
  coordinator, \* [at, case, until, splitFirst, passed: the cases that did]
  now,         \* time since the case has started
  exporter,    \* the producer: [at, began, stuck, ok]
  importer,    \* the consumer: the same, and open: it holds the import
  done,        \* <stem>.done.json of the consumer: "none", "ok" or "failed"
  doneBack,    \* the same file in the producer's Pod, when that is another
  seen         \* the case's record: [started, exec, result, ack, unconfirmed, export, error]

ipcVars == <<coordinator, now, exporter, importer, done, doneBack, seen>>
records == <<done, doneBack, seen>>

Cases   == {"a", "b", "c", "matched", "b2"}
Running == {"run", "export", "hung"}
Waiting == {"metadata", "copy", "exec", "result", "ack", "copy-back", "stop", "producer",
            "stop-producer", "produced"}
Gone(p)   == p.at \in {"none", "gone"}
SplitPods == coordinator.case = "c"
Visible   == IF SplitPods THEN doneBack ELSE done
Process0  == [at |-> "none", began |-> 0, stuck |-> FALSE, ok |-> FALSE]
Importer0 == [at |-> "none", began |-> 0, stuck |-> FALSE, ok |-> FALSE, open |-> FALSE]
Record0   == [started |-> FALSE, exec |-> FALSE, result |-> "none", ack |-> FALSE,
              unconfirmed |-> FALSE, export |-> FALSE, error |-> FALSE]

IpcInit ==
  /\ \E first \in BOOLEAN :
       coordinator = [at |-> "admit", case |-> IF first THEN "c" ELSE "a", until |-> 0,
                      splitFirst |-> first, passed |-> {}]
  /\ now = 0 /\ exporter = Process0 /\ importer = Importer0
  /\ done = "none" /\ doneBack = "none" /\ seen = Record0

GoTo(place, wait) == coordinator' = [coordinator EXCEPT !.at = place, !.until = now + wait]

-----------------------------------------------------------------------------
(* raw-ipc.py producer *)

exporterOnly == <<coordinator, now, importer, records>>

ExporterStarts ==
  /\ exporter.at = "starting"
  /\ exporter' = [exporter EXCEPT !.at = "run", !.began = now]
  /\ UNCHANGED exporterOnly

Export ==
  /\ exporter.at = "run"
  /\ exporter' = [exporter EXCEPT !.at = "export"]
  /\ UNCHANGED exporterOnly

(* Acknowledged: frees the allocation and ends well if the consumer did. *)
ExporterAcknowledged ==
  /\ exporter.at = "export" /\ Visible # "none"
  /\ exporter' = [exporter EXCEPT !.at = "gone", !.ok = Visible = "ok"]
  /\ UNCHANGED exporterOnly

(* A driver error before the export, or the alarm; an allocation that is   *)
(* exported stays until the process ends.                                  *)
ExporterFails ==
  /\ \/ exporter.at = "run"
     \/ exporter.at = "export" /\ now = exporter.began + ExporterTime
  /\ exporter' = [exporter EXCEPT !.at = "gone"]
  /\ UNCHANGED exporterOnly

(* A driver call that does not return, and may not even die: before the    *)
(* export, or when it is freed.                                            *)
ExporterHangs ==
  /\ exporter.at = "run" \/ (exporter.at = "export" /\ Visible # "none")
  /\ \E s \in BOOLEAN : exporter' = [exporter EXCEPT !.at = "hung", !.stuck = s]
  /\ UNCHANGED exporterOnly

ExporterKilled ==
  /\ exporter.at = "hung" /\ ~exporter.stuck /\ now = exporter.began + ExporterLimit
  /\ exporter' = [exporter EXCEPT !.at = "gone"]
  /\ UNCHANGED exporterOnly

-----------------------------------------------------------------------------
(* raw-ipc.py consumer *)

importerOnly == <<coordinator, now, exporter, doneBack, seen>>

ImporterStarts ==
  /\ importer.at = "starting"
  /\ importer' = [importer EXCEPT !.at = "run", !.began = now]
  /\ UNCHANGED <<importerOnly, done>>

OpenImport ==
  /\ importer.at = "run" /\ ~importer.open
  /\ importer' = [importer EXCEPT !.open = TRUE]
  /\ UNCHANGED <<importerOnly, done>>

(* The payload is right or not, or the alarm has gone off: the import is   *)
(* closed, then the acknowledgement is written.                            *)
CloseImport ==
  /\ importer.at = "run"
  /\ \E ok \in {importer.open, FALSE} :
       /\ importer' = [importer EXCEPT !.at = "gone", !.open = FALSE, !.ok = ok]
       /\ done' = IF ok THEN "ok" ELSE "failed"
  /\ UNCHANGED importerOnly

(* cuIpcCloseMemHandle fails: no acknowledgement. *)
CloseFails ==
  /\ importer.at = "run" /\ importer.open
  /\ importer' = [importer EXCEPT !.at = "gone", !.open = FALSE]
  /\ UNCHANGED <<importerOnly, done>>

ImporterHangs ==
  /\ importer.at = "run"
  /\ \E s \in BOOLEAN : importer' = [importer EXCEPT !.at = "hung", !.stuck = s]
  /\ UNCHANGED <<importerOnly, done>>

ImporterKilled ==
  /\ importer.at = "hung" /\ ~importer.stuck /\ now = importer.began + ImporterLimit
  /\ importer' = [importer EXCEPT !.at = "gone", !.open = FALSE]
  /\ UNCHANGED <<importerOnly, done>>

-----------------------------------------------------------------------------
(* run_case *)

StartCase ==
  /\ coordinator.at = "admit"
  /\ now' = 0
  /\ coordinator' = [coordinator EXCEPT !.at = "metadata", !.until = MetadataWait]
  /\ exporter' = [Process0 EXCEPT !.at = "starting"] /\ importer' = Importer0
  /\ done' = "none" /\ doneBack' = "none" /\ seen' = Record0

ReadMetadata ==
  /\ coordinator.at = "metadata" /\ exporter.at = "export"
  /\ GoTo("copy", IF SplitPods THEN CopyWait ELSE 0)
  /\ UNCHANGED <<now, exporter, importer, records>>

(* The time is over, or the copy to the consumer's Pod fails. *)
NoMetadata ==
  /\ \/ coordinator.at = "metadata" /\ now = coordinator.until
     \/ coordinator.at = "copy" /\ SplitPods
  /\ seen' = [seen EXCEPT !.error = TRUE]
  /\ GoTo("producer", CaseWait - now)
  /\ UNCHANGED <<now, exporter, importer, done, doneBack>>

ExecConsumer ==
  /\ coordinator.at = "copy"
  /\ GoTo("exec", ExecWait)
  /\ importer' = [importer EXCEPT !.at = "starting"]
  /\ seen' = [seen EXCEPT !.started = TRUE]
  /\ UNCHANGED <<now, exporter, done, doneBack>>

(* The consumer has ended; or the connection breaks or times out.          *)
ConsumerReturns ==
  /\ coordinator.at = "exec"
  /\ \/ /\ importer.at = "gone"
        /\ seen' = [seen EXCEPT !.exec = importer.ok] /\ UNCHANGED importer
     \/ /\ importer' = [importer EXCEPT !.at = IF @ = "starting" THEN "gone" ELSE @]
        /\ UNCHANGED seen
  /\ GoTo("result", ReadWait)
  /\ UNCHANGED <<now, exporter, done, doneBack>>

(* consumer.json, if it can be read. *)
ReadResult ==
  /\ coordinator.at = "result"
  /\ \E found \in {"none", IF importer.ok THEN "ok" ELSE "none"} :
       seen' = [seen EXCEPT !.result = found]
  /\ GoTo("ack", ReadWait)
  /\ UNCHANGED <<now, exporter, importer, done, doneBack>>

(* Faulty variant: a consumer without acknowledgement is left to itself. *)
StopLater == GoTo("producer", CaseWait - now)

StopNow == GoTo("stop", StopWait)

ReadDone ==
  /\ coordinator.at = "ack"
  /\ \/ /\ done # "none"
        /\ IF SplitPods THEN GoTo("copy-back", CopyWait) /\ UNCHANGED seen
           ELSE /\ seen' = [seen EXCEPT !.ack = TRUE]
                /\ GoTo("producer", CaseWait - now)
     \/ /\ seen' = [seen EXCEPT !.error = TRUE]
        /\ StopNow
  /\ UNCHANGED <<now, exporter, importer, done, doneBack>>

CopyDone ==
  /\ coordinator.at = "copy-back"
  /\ \/ /\ doneBack' = done
        /\ seen' = [seen EXCEPT !.ack = TRUE]
        /\ GoTo("producer", CaseWait - now)
     \/ /\ seen' = [seen EXCEPT !.error = TRUE]
        /\ StopNow
        /\ UNCHANGED doneBack
  /\ UNCHANGED <<now, exporter, importer, done>>

(* Faulty variant: the consumer is signalled until it has gone. *)
StopUntilGone ==
  /\ coordinator.at = "stop" /\ ~importer.stuck
  /\ importer' = [importer EXCEPT !.at = "gone", !.open = FALSE]
  /\ GoTo("producer", CaseWait - now)
  /\ UNCHANGED <<now, exporter, done, doneBack, seen>>

(* stop_role: confirmed when no process of the role is left.  Its command  *)
(* may fail before or after it has signalled.                              *)
StopConsumer ==
  /\ coordinator.at = "stop"
  /\ \/ /\ ~importer.stuck
        /\ importer' = [importer EXCEPT !.at = "gone", !.open = FALSE]
        /\ UNCHANGED seen
     \/ /\ importer' \in {importer, IF importer.stuck THEN importer
                                    ELSE [importer EXCEPT !.at = "gone", !.open = FALSE]}
        /\ seen' = [seen EXCEPT !.unconfirmed = TRUE]
  /\ GoTo("producer", CaseWait - now)
  /\ UNCHANGED <<now, exporter, done, doneBack>>

(* The producer's command has ended or lost its connection. *)
ProducerReturns ==
  /\ coordinator.at = "producer"
  /\ \/ exporter.at = "gone" /\ seen' = [seen EXCEPT !.export = exporter.ok] /\ UNCHANGED exporter
     \/ /\ exporter' = [exporter EXCEPT !.at = IF @ = "starting" THEN "gone" ELSE @]
        /\ UNCHANGED seen
  /\ GoTo("produced", ReadWait)
  /\ UNCHANGED <<now, importer, done, doneBack>>

(* Faulty variant: the producer's command has no time limit of its own. *)
NeverOverdue == FALSE

Overdue == now = coordinator.until

ProducerOverdue ==
  /\ coordinator.at = "producer" /\ Overdue
  /\ seen' = [seen EXCEPT !.error = TRUE]
  /\ GoTo("stop-producer", StopWait)
  /\ UNCHANGED <<now, exporter, importer, done, doneBack>>

StopProducer ==
  /\ coordinator.at = "stop-producer"
  /\ exporter' \in {exporter, IF exporter.stuck THEN exporter ELSE [exporter EXCEPT !.at = "gone"]}
  /\ GoTo("produced", ReadWait)
  /\ UNCHANGED <<now, importer, records>>

Passed == /\ seen.exec /\ seen.export /\ seen.result = "ok"
          /\ ~seen.error /\ ~seen.unconfirmed

FinishCase ==
  /\ coordinator.at = "produced"
  /\ coordinator' = [coordinator EXCEPT !.at = "finished",
                       !.passed = IF Passed THEN @ \cup {coordinator.case} ELSE @]
  /\ UNCHANGED <<now, exporter, importer, records>>

-----------------------------------------------------------------------------
(* execute and execute_split_first *)

Ok(case) == case \in coordinator.passed

(* The next case in the same Pods. *)
SamePodsNext ==
  CASE coordinator.case = "a" /\ Ok("a") -> {IF coordinator.splitFirst THEN "matched" ELSE "b"}
    [] coordinator.case = "matched" /\ Ok("matched") /\ ~Ok("c") -> {"b2"}
    [] OTHER -> {}

(* The next case in new Pods, once the old ones are deleted. *)
NewPodsNext ==
  CASE coordinator.case = "b" /\ Ok("b") -> {"c"}
    [] coordinator.case = "c" /\ coordinator.splitFirst -> {"a"}
    [] coordinator.case = "c" /\ ~coordinator.splitFirst /\ ~Ok("c") -> {"matched"}
    [] OTHER -> {}

NextCase ==
  /\ coordinator.at = "finished"
  /\ \/ \E case \in SamePodsNext :
          coordinator' = [coordinator EXCEPT !.at = "admit", !.case = case]
     \/ NewPodsNext # {} /\ coordinator' = [coordinator EXCEPT !.at = "delete"]
  /\ UNCHANGED <<now, exporter, importer, records>>

(* Faulty variant: the deletion is submitted, not awaited. *)
DeletionSubmitted ==
  /\ coordinator.at = "delete"
  /\ \E case \in NewPodsNext : coordinator' = [coordinator EXCEPT !.at = "admit", !.case = case]
  /\ UNCHANGED <<now, exporter, importer, records>>

(* delete: until no Pod is listed, and so no process of theirs is left. *)
PodsDeleted ==
  /\ coordinator.at = "delete" /\ Gone(exporter) /\ Gone(importer)
  /\ \E case \in NewPodsNext : coordinator' = [coordinator EXCEPT !.at = "admit", !.case = case]
  /\ UNCHANGED <<now, exporter, importer, records>>

PodEnds ==
  /\ coordinator.at = "delete"
  /\ \/ /\ ~exporter.stuck /\ exporter' = [exporter EXCEPT !.at = "gone"]
        /\ UNCHANGED importer
     \/ /\ ~importer.stuck /\ importer' = [importer EXCEPT !.at = "gone", !.open = FALSE]
        /\ UNCHANGED exporter
  /\ UNCHANGED <<coordinator, now, records>>

(* A case that fails, a limitation, a failed command, no time left. *)
IpcEnd ==
  /\ coordinator.at \in {"admit", "finished", "delete"}
  /\ coordinator' = [coordinator EXCEPT !.at = "ended"]
  /\ UNCHANGED <<now, exporter, importer, records>>

(* Time passes up to the next timer. *)
IpcTick ==
  /\ coordinator.at \in Waiting
  /\ IF coordinator.at = "producer" THEN ~Overdue ELSE now < coordinator.until
  /\ exporter.at \in {"run", "export"} => now < exporter.began + ExporterTime
  /\ exporter.at = "hung" /\ ~exporter.stuck => now < exporter.began + ExporterLimit
  /\ importer.at = "run" => now < importer.began + ImporterTime
  /\ importer.at = "hung" /\ ~importer.stuck => now < importer.began + ImporterLimit
  /\ now' = now + 1
  /\ UNCHANGED <<coordinator, exporter, importer, records>>

-----------------------------------------------------------------------------
Programs ==
  \/ ExporterStarts \/ Export \/ ExporterAcknowledged \/ ExporterFails \/ ExporterHangs
  \/ ExporterKilled \/ ImporterStarts \/ OpenImport \/ CloseImport \/ CloseFails
  \/ ImporterHangs \/ ImporterKilled

Coordinating ==
  \/ StartCase \/ ReadMetadata \/ NoMetadata \/ ExecConsumer \/ ConsumerReturns \/ ReadResult
  \/ ReadDone \/ CopyDone \/ StopConsumer \/ ProducerReturns \/ ProducerOverdue \/ StopProducer
  \/ FinishCase \/ NextCase \/ PodsDeleted \/ PodEnds \/ IpcEnd

IpcNext == Programs \/ Coordinating \/ IpcTick

IpcSpec == IpcInit /\ [][IpcNext]_ipcVars

-----------------------------------------------------------------------------
(* A case stays within its bounds whatever hangs in the driver. *)
IpcTypeOK ==
  /\ coordinator.at \in Waiting \cup {"admit", "finished", "delete", "ended"}
  /\ coordinator.case \in Cases /\ coordinator.passed \subseteq Cases
  /\ now \in 0..(CaseWait + StopWait + ReadWait)
  /\ {exporter.at, importer.at} \subseteq {"none", "starting", "gone"} \cup Running
  /\ importer.open => importer.at \in Running
  /\ {done, doneBack} \subseteq {"none", "ok", "failed"}

(* While the consumer holds the import, the producer holds the export:     *)
(* whatever fails, hangs or is lost between the three programs, the import *)
(* is gone before the producer's alarm ends the export.  Only when the     *)
(* coordinator has recorded that it could not confirm the consumer's stop  *)
(* may it be otherwise.                                                    *)
ImportsBacked == importer.open => exporter.at = "export" \/ seen.unconfirmed

(* A case that has been started comes to its end and is judged, whatever   *)
(* hangs, is lost or cannot be killed: nobody waits for somebody who waits *)
(* for him, and no time limit is missing.                                  *)
CaseEnds == coordinator.at \in Waiting ~> coordinator.at = "finished"

(* A case starts when no process of an earlier one is left on the GPUs. *)
CasesApart == coordinator.at = "admit" => Gone(exporter) /\ Gone(importer)
=============================================================================
