--------------------------- MODULE SingleHostProofs ---------------------------
(***************************************************************************)
(* Proofs about the CUDA IPC diagnostic, for all time limits that are      *)
(* ordered as IpcAssumption asks, and that neither program of a GPU host   *)
(* disturbs what is proved of the other.                                   *)
(***************************************************************************)
EXTENDS SingleHost, LayoutSessionProofs

-----------------------------------------------------------------------------
(* The diagnostic *)

(* The case is over and its verdict is in coordinator.passed. *)
Judged == {"finished", "delete", "ended"}

(* The consumer runs and has not been given up. *)
Watched == {"exec", "result", "ack", "stop"}

(* How long it takes until the consumer's command has ended, until its     *)
(* acknowledgement has been looked for, and until it has been stopped.     *)
ExecBy == MetadataWait + CopyWait + ExecWait
AckBy  == ExecBy + 2 * ReadWait
StopBy == AckBy + StopWait

Coordinators == [at : Waiting \cup {"admit", "finished", "delete", "ended"}, case : Cases,
                 until : Int, splitFirst : BOOLEAN, passed : SUBSET Cases]
Exporters == [at : {"none", "starting", "gone"} \cup Running, began : Nat,
              stuck : BOOLEAN, ok : BOOLEAN]
Importers == [at : {"none", "starting", "gone"} \cup Running, began : Nat,
              stuck : BOOLEAN, ok : BOOLEAN, open : BOOLEAN]
CaseRecords == [started : BOOLEAN, exec : BOOLEAN, result : {"none", "ok"}, ack : BOOLEAN,
                unconfirmed : BOOLEAN, export : BOOLEAN, error : BOOLEAN]
Marks == {"none", "ok", "failed"}

IpcTypes ==
  /\ coordinator \in Coordinators /\ now \in Nat
  /\ exporter \in Exporters /\ importer \in Importers
  /\ done \in Marks /\ doneBack \in Marks /\ seen \in CaseRecords

(* No wait is overrun, and the waits add up. *)
TimersInv ==
  /\ coordinator.at \in Waiting => now <= coordinator.until
  /\ now <= CaseWait + StopWait + ReadWait
  /\ coordinator.at = "metadata" => coordinator.until <= MetadataWait
  /\ coordinator.at = "copy" => coordinator.until <= MetadataWait + CopyWait
  /\ coordinator.at = "exec" => coordinator.until <= ExecBy
  /\ coordinator.at = "result" => coordinator.until <= ExecBy + ReadWait
  /\ coordinator.at = "ack" => coordinator.until <= AckBy
  /\ coordinator.at = "copy-back" => coordinator.until <= AckBy + CopyWait
  /\ coordinator.at = "stop" => coordinator.until <= StopBy + CopyWait
  /\ coordinator.at = "stop" /\ importer.at # "gone" => coordinator.until <= StopBy
  /\ coordinator.at = "producer" => coordinator.until = CaseWait
  /\ coordinator.at = "stop-producer" => coordinator.until = CaseWait + StopWait
  /\ coordinator.at = "produced" => coordinator.until <= CaseWait + StopWait + ReadWait

(* A consumer that may hold an import is watched, and the producer is      *)
(* still in its export, unless the record says otherwise.                  *)
WatchInv ==
  /\ importer.open => importer.at \in Running
  /\ importer.at \notin {"none", "gone"} =>
       seen.unconfirmed \/ (coordinator.at \in Watched /\ exporter.at = "export")
  /\ coordinator.at = "copy" => exporter.at = "export"
  /\ coordinator.at \in {"metadata", "copy"} => importer.at = "none" /\ done = "none"
  /\ coordinator.at = "metadata" => exporter.at # "none"

(* Acknowledgements, and results of a command, are those of processes that *)
(* have ended.                                                             *)
RolesInv ==
  /\ done # "none" => importer.at = "gone"
  /\ doneBack # "none" => done # "none"
  /\ coordinator.at = "copy-back" => done # "none"
  /\ seen.exec => importer.at = "gone"
  /\ seen.export => exporter.at = "gone"

(* No case is run twice, and only a case whose processes are gone has      *)
(* passed.                                                                 *)
CasesInv ==
  /\ coordinator.at = "admit" => Gone(exporter) /\ Gone(importer)
  /\ coordinator.case = "b" => ~coordinator.splitFirst
  /\ "matched" \in coordinator.passed =>
       coordinator.case = "b2" \/ (coordinator.case = "matched" /\ coordinator.at \in Judged)
  /\ "a" \in coordinator.passed =>
       /\ coordinator.case = "a" => coordinator.at \in Judged
       /\ coordinator.case = "c" => ~coordinator.splitFirst
  /\ coordinator.at = "finished" /\ coordinator.case \in {"a", "matched"}
        /\ coordinator.case \in coordinator.passed
       => Gone(exporter) /\ Gone(importer)

IpcInv == IpcTypes /\ TimersInv /\ WatchInv /\ RolesInv /\ CasesInv

-----------------------------------------------------------------------------
(* The time limits, and that the producer's alarm is the last of them. *)
LEMMA Limits ==
  /\ MetadataWait \in Nat /\ CopyWait \in Nat /\ ExecWait \in Nat /\ ReadWait \in Nat
  /\ StopWait \in Nat /\ ImporterTime \in Nat /\ ImporterLimit \in Nat
  /\ ExporterTime \in Nat /\ ExporterLimit \in Nat /\ CaseWait \in Nat
  /\ StopBy < ExporterTime /\ StopBy + CopyWait < CaseWait
BY IpcAssumption DEF IpcAssumption, ExecBy, AckBy, StopBy

(* A wait of the coordinator, however long, leaves it well typed. *)
LEMMA GoToTyped ==
  ASSUME coordinator \in Coordinators, now \in Nat,
         NEW place \in Waiting, NEW wait \in Int, GoTo(place, wait)
  PROVE  coordinator' \in Coordinators
<1>1. now + wait \in Int OBVIOUS
<1>2. QED BY <1>1 DEF GoTo, Coordinators

(* The next case is one of the cases. *)
LEMMA NextTyped == NewPodsNext \subseteq Cases /\ SamePodsNext \subseteq Cases
BY DEF NewPodsNext, SamePodsNext, Cases

(* The producer starts; nothing depends on when it does. *)
LEMMA ExporterStartsKeeps == IpcInv /\ ExporterStarts => IpcInv'
<1> SUFFICES ASSUME IpcInv, ExporterStarts PROVE IpcInv' OBVIOUS
<1> USE DEF IpcInv, IpcTypes, ExporterStarts
<1>1. IpcTypes' BY DEF exporterOnly, records, Exporters, Running
<1>2. TimersInv' BY DEF TimersInv, exporterOnly, records, Exporters
<1>3. WatchInv' BY DEF WatchInv, exporterOnly, records, Exporters
<1>4. RolesInv' BY DEF RolesInv, exporterOnly, records, Exporters
<1>5. CasesInv' BY DEF CasesInv, exporterOnly, records, Exporters, Gone, Judged
<1>6. QED BY <1>1, <1>2, <1>3, <1>4, <1>5

(* The export begins; no consumer is there yet. *)
LEMMA ExportKeeps == IpcInv /\ Export => IpcInv'
<1> SUFFICES ASSUME IpcInv, Export PROVE IpcInv' OBVIOUS
<1> USE DEF IpcInv, IpcTypes, Export
<1>1. IpcTypes' BY DEF exporterOnly, records, Exporters, Running
<1>2. TimersInv' BY DEF TimersInv, exporterOnly, records, Exporters
<1>3. WatchInv' BY DEF WatchInv, exporterOnly, records, Exporters
<1>4. RolesInv' BY DEF RolesInv, exporterOnly, records, Exporters
<1>5. CasesInv' BY DEF CasesInv, exporterOnly, records, Exporters, Gone, Judged
<1>6. QED BY <1>1, <1>2, <1>3, <1>4, <1>5

(* An acknowledgement is there only when the consumer has gone. *)
LEMMA ExporterAcknowledgedKeeps == IpcInv /\ ExporterAcknowledged => IpcInv'
<1> SUFFICES ASSUME IpcInv, ExporterAcknowledged PROVE IpcInv' OBVIOUS
<1> USE DEF IpcInv, IpcTypes, ExporterAcknowledged
<1>1. IpcTypes' BY DEF exporterOnly, records, Exporters, Running
<1>2. TimersInv' BY DEF TimersInv, exporterOnly, records, Visible, SplitPods, Exporters
<1>3. WatchInv'
  BY DEF WatchInv, exporterOnly, records, Visible, SplitPods, Exporters, Running, Watched,
         RolesInv
<1>4. RolesInv' BY DEF RolesInv, exporterOnly, records, Visible, SplitPods, Exporters
<1>5. CasesInv'
  BY DEF CasesInv, exporterOnly, records, Visible, SplitPods, Exporters, Gone, Judged
<1>6. QED BY <1>1, <1>2, <1>3, <1>4, <1>5

(* Before the export there is no consumer, and the alarm comes later than all
   that the coordinator does while there is one. *)
LEMMA ExporterFailsKeeps == IpcInv /\ ExporterFails => IpcInv'
<1> SUFFICES ASSUME IpcInv, ExporterFails PROVE IpcInv' OBVIOUS
<1> USE DEF IpcInv, IpcTypes, ExporterFails
<1>1. IpcTypes' BY DEF exporterOnly, records, Exporters, Running
<1>2. TimersInv' BY DEF TimersInv, exporterOnly, records, Exporters
<1>3. WatchInv'
  BY Limits DEF WatchInv, exporterOnly, records, Exporters, Running, Watched, RolesInv, TimersInv,
         ExecBy, AckBy, StopBy, Waiting, CasesInv, Gone, Cases, Coordinators, Importers,
         CaseRecords
<1>4. RolesInv' BY DEF RolesInv, exporterOnly, records, Exporters
<1>5. CasesInv' BY DEF CasesInv, exporterOnly, records, Exporters, Gone, Judged
<1>6. QED BY <1>1, <1>2, <1>3, <1>4, <1>5

(* A hanging driver call before the export, or in freeing it: as above. *)
LEMMA ExporterHangsKeeps == IpcInv /\ ExporterHangs => IpcInv'
<1> SUFFICES ASSUME IpcInv, ExporterHangs PROVE IpcInv' OBVIOUS
<1> USE DEF IpcInv, IpcTypes, ExporterHangs
<1>1. IpcTypes' BY DEF exporterOnly, records, Exporters, Running
<1>2. TimersInv' BY DEF TimersInv, exporterOnly, records, Visible, SplitPods, Exporters
<1>3. WatchInv'
  BY DEF WatchInv, exporterOnly, records, Visible, SplitPods, Exporters, Running, Watched,
         RolesInv
<1>4. RolesInv' BY DEF RolesInv, exporterOnly, records, Visible, SplitPods, Exporters
<1>5. CasesInv'
  BY DEF CasesInv, exporterOnly, records, Visible, SplitPods, Exporters, Gone, Judged
<1>6. QED BY <1>1, <1>2, <1>3, <1>4, <1>5

(* The timeout ends only a process that is not in its export any more. *)
LEMMA ExporterKilledKeeps == IpcInv /\ ExporterKilled => IpcInv'
<1> SUFFICES ASSUME IpcInv, ExporterKilled PROVE IpcInv' OBVIOUS
<1> USE DEF IpcInv, IpcTypes, ExporterKilled
<1>1. IpcTypes' BY DEF exporterOnly, records, Exporters, Running
<1>2. TimersInv' BY DEF TimersInv, exporterOnly, records, Exporters
<1>3. WatchInv' BY DEF WatchInv, exporterOnly, records, Exporters
<1>4. RolesInv' BY DEF RolesInv, exporterOnly, records, Exporters
<1>5. CasesInv' BY DEF CasesInv, exporterOnly, records, Exporters, Gone, Judged
<1>6. QED BY <1>1, <1>2, <1>3, <1>4, <1>5

(* The consumer is watched from its start. *)
LEMMA ImporterStartsKeeps == IpcInv /\ ImporterStarts => IpcInv'
<1> SUFFICES ASSUME IpcInv, ImporterStarts PROVE IpcInv' OBVIOUS
<1> USE DEF IpcInv, IpcTypes, ImporterStarts
<1>1. IpcTypes' BY DEF importerOnly, Importers, Running
<1>2. TimersInv' BY DEF TimersInv, importerOnly, Importers
<1>3. WatchInv' BY DEF WatchInv, importerOnly, Importers, Running, Watched
<1>4. RolesInv' BY DEF RolesInv, importerOnly, Importers
<1>5. CasesInv' BY DEF CasesInv, importerOnly, Importers, Gone, Judged
<1>6. QED BY <1>1, <1>2, <1>3, <1>4, <1>5

(* A consumer that opens the import is a watched one. *)
LEMMA OpenImportKeeps == IpcInv /\ OpenImport => IpcInv'
<1> SUFFICES ASSUME IpcInv, OpenImport PROVE IpcInv' OBVIOUS
<1> USE DEF IpcInv, IpcTypes, OpenImport
<1>1. IpcTypes' BY DEF importerOnly, Importers, Running
<1>2. TimersInv' BY DEF TimersInv, importerOnly, Importers
<1>3. WatchInv' BY DEF WatchInv, importerOnly, Importers
<1>4. RolesInv' BY DEF RolesInv, importerOnly, Importers
<1>5. CasesInv' BY DEF CasesInv, importerOnly, Importers, Gone, Judged
<1>6. QED BY <1>1, <1>2, <1>3, <1>4, <1>5

(* The acknowledgement is written by a consumer that has closed its import. *)
LEMMA CloseImportKeeps == IpcInv /\ CloseImport => IpcInv'
<1> SUFFICES ASSUME IpcInv, CloseImport PROVE IpcInv' OBVIOUS
<1> USE DEF IpcInv, IpcTypes, CloseImport
<1>1. IpcTypes' BY DEF importerOnly, Importers, Running, Marks
<1>2. TimersInv' BY DEF TimersInv, importerOnly, Importers
<1>3. WatchInv' BY DEF WatchInv, importerOnly, Importers
<1>4. RolesInv' BY DEF RolesInv, importerOnly, Importers
<1>5. CasesInv' BY DEF CasesInv, importerOnly, Importers, Gone, Judged
<1>6. QED BY <1>1, <1>2, <1>3, <1>4, <1>5

(* A consumer that fails to close has gone, without an acknowledgement. *)
LEMMA CloseFailsKeeps == IpcInv /\ CloseFails => IpcInv'
<1> SUFFICES ASSUME IpcInv, CloseFails PROVE IpcInv' OBVIOUS
<1> USE DEF IpcInv, IpcTypes, CloseFails
<1>1. IpcTypes' BY DEF importerOnly, Importers, Running
<1>2. TimersInv' BY DEF TimersInv, importerOnly, Importers
<1>3. WatchInv' BY DEF WatchInv, importerOnly, Importers
<1>4. RolesInv' BY DEF RolesInv, importerOnly, Importers
<1>5. CasesInv' BY DEF CasesInv, importerOnly, Importers, Gone, Judged
<1>6. QED BY <1>1, <1>2, <1>3, <1>4, <1>5

(* A consumer that hangs is watched as before. *)
LEMMA ImporterHangsKeeps == IpcInv /\ ImporterHangs => IpcInv'
<1> SUFFICES ASSUME IpcInv, ImporterHangs PROVE IpcInv' OBVIOUS
<1> USE DEF IpcInv, IpcTypes, ImporterHangs
<1>1. IpcTypes' BY DEF importerOnly, Importers, Running
<1>2. TimersInv' BY DEF TimersInv, importerOnly, Importers
<1>3. WatchInv' BY DEF WatchInv, importerOnly, Importers, Running, Watched
<1>4. RolesInv' BY DEF RolesInv, importerOnly, Importers
<1>5. CasesInv' BY DEF CasesInv, importerOnly, Importers, Gone, Judged
<1>6. QED BY <1>1, <1>2, <1>3, <1>4, <1>5

(* The timeout around the consumer ends it with its import. *)
LEMMA ImporterKilledKeeps == IpcInv /\ ImporterKilled => IpcInv'
<1> SUFFICES ASSUME IpcInv, ImporterKilled PROVE IpcInv' OBVIOUS
<1> USE DEF IpcInv, IpcTypes, ImporterKilled
<1>1. IpcTypes' BY DEF importerOnly, Importers, Running
<1>2. TimersInv' BY DEF TimersInv, importerOnly, Importers
<1>3. WatchInv' BY DEF WatchInv, importerOnly, Importers
<1>4. RolesInv' BY DEF RolesInv, importerOnly, Importers
<1>5. CasesInv' BY DEF CasesInv, importerOnly, Importers, Gone, Judged
<1>6. QED BY <1>1, <1>2, <1>3, <1>4, <1>5

(* A case starts with nothing left of the one before. *)
LEMMA StartCaseKeeps == IpcInv /\ StartCase => IpcInv'
<1> SUFFICES ASSUME IpcInv, StartCase PROVE IpcInv' OBVIOUS
<1> USE DEF IpcInv, IpcTypes, StartCase
<1>1. IpcTypes'
  <2>1. MetadataWait \in Int BY Limits
  <2>2. coordinator' \in Coordinators BY <2>1 DEF Coordinators, Waiting
  <2>3. exporter' \in Exporters BY DEF Exporters, Process0
  <2>4. importer' \in Importers BY DEF Importers, Importer0
  <2>5. seen' \in CaseRecords BY DEF CaseRecords, Record0
  <2>6. QED BY <2>1, <2>2, <2>3, <2>4, <2>5 DEF Marks
<1>2. TimersInv'
  BY Limits DEF TimersInv, Process0, Importer0, Record0, Coordinators, Exporters, Importers,
         CaseRecords, Waiting, ExecBy, AckBy, StopBy
<1>3. WatchInv'
  BY DEF WatchInv, Process0, Importer0, Record0, Coordinators, Exporters, Importers, CaseRecords
<1>4. RolesInv'
  BY DEF RolesInv, Process0, Importer0, Record0, Coordinators, Exporters, Importers, CaseRecords
<1>5. CasesInv'
  BY DEF CasesInv, Process0, Importer0, Record0, Coordinators, Exporters, Importers, CaseRecords,
         Gone, Judged
<1>6. QED BY <1>1, <1>2, <1>3, <1>4, <1>5

(* The packet is read while the producer is in its export. *)
LEMMA ReadMetadataKeeps == IpcInv /\ ReadMetadata => IpcInv'
<1> SUFFICES ASSUME IpcInv, ReadMetadata PROVE IpcInv' OBVIOUS
<1> USE DEF IpcInv, IpcTypes, ReadMetadata
<1>1. IpcTypes'
  <2>1. coordinator' \in Coordinators BY GoToTyped, Limits DEF Waiting
  <2>2. QED BY <2>1 DEF records
<1>2. TimersInv'
  BY Limits DEF TimersInv, records, GoTo, SplitPods, Coordinators, Waiting, ExecBy, AckBy, StopBy
<1>3. WatchInv' BY DEF WatchInv, records, GoTo, SplitPods, Coordinators
<1>4. RolesInv' BY DEF RolesInv, records, GoTo, SplitPods, Coordinators
<1>5. CasesInv' BY DEF CasesInv, records, GoTo, SplitPods, Coordinators, Gone, Judged
<1>6. QED BY <1>1, <1>2, <1>3, <1>4, <1>5

(* Without the packet there is no consumer to watch. *)
LEMMA NoMetadataKeeps == IpcInv /\ NoMetadata => IpcInv'
<1> SUFFICES ASSUME IpcInv, NoMetadata PROVE IpcInv' OBVIOUS
<1> USE DEF IpcInv, IpcTypes, NoMetadata
<1>1. IpcTypes'
  <2>1. coordinator' \in Coordinators BY GoToTyped, Limits DEF Waiting
  <2>2. seen' \in CaseRecords BY DEF CaseRecords
  <2>3. QED BY <2>1, <2>2
<1>2. TimersInv'
  BY Limits DEF TimersInv, GoTo, SplitPods, Coordinators, CaseRecords, Waiting, ExecBy, AckBy,
         StopBy
<1>3. WatchInv' BY DEF WatchInv, GoTo, SplitPods, Coordinators, CaseRecords
<1>4. RolesInv' BY DEF RolesInv, GoTo, SplitPods, Coordinators, CaseRecords
<1>5. CasesInv' BY DEF CasesInv, GoTo, SplitPods, Coordinators, CaseRecords, Gone, Judged
<1>6. QED BY <1>1, <1>2, <1>3, <1>4, <1>5

(* The consumer is started while the export is still there. *)
LEMMA ExecConsumerKeeps == IpcInv /\ ExecConsumer => IpcInv'
<1> SUFFICES ASSUME IpcInv, ExecConsumer PROVE IpcInv' OBVIOUS
<1> USE DEF IpcInv, IpcTypes, ExecConsumer
<1>1. IpcTypes'
  <2>1. coordinator' \in Coordinators BY GoToTyped, Limits DEF Waiting
  <2>2. importer' \in Importers BY DEF Importers
  <2>3. seen' \in CaseRecords BY DEF CaseRecords
  <2>4. QED BY <2>1, <2>2, <2>3
<1>2. TimersInv'
  BY Limits DEF TimersInv, GoTo, Coordinators, Importers, CaseRecords, Waiting, ExecBy, AckBy,
         StopBy
<1>3. WatchInv' BY DEF WatchInv, GoTo, Coordinators, Importers, CaseRecords, Running, Watched
<1>4. RolesInv' BY DEF RolesInv, GoTo, Coordinators, Importers, CaseRecords, WatchInv
<1>5. CasesInv' BY DEF CasesInv, GoTo, Coordinators, Importers, CaseRecords, Gone, Judged
<1>6. QED BY <1>1, <1>2, <1>3, <1>4, <1>5

(* A consumer whose command has ended is gone or still watched. *)
LEMMA ConsumerReturnsKeeps == IpcInv /\ ConsumerReturns => IpcInv'
<1> SUFFICES ASSUME IpcInv, ConsumerReturns PROVE IpcInv' OBVIOUS
<1> USE DEF IpcInv, IpcTypes, ConsumerReturns
<1>1. IpcTypes'
  <2>1. coordinator' \in Coordinators BY GoToTyped, Limits DEF Waiting
  <2>2. importer' \in Importers BY DEF Importers
  <2>3. seen' \in CaseRecords BY DEF CaseRecords, Importers
  <2>4. QED BY <2>1, <2>2, <2>3
<1>2. TimersInv'
  BY Limits DEF TimersInv, GoTo, Coordinators, Importers, CaseRecords, Waiting, ExecBy, AckBy,
         StopBy
<1>3. WatchInv' BY DEF WatchInv, GoTo, Coordinators, Importers, CaseRecords, Running, Watched
<1>4. RolesInv' BY DEF RolesInv, GoTo, Coordinators, Importers, CaseRecords
<1>5. CasesInv' BY DEF CasesInv, GoTo, Coordinators, Importers, CaseRecords, Gone, Judged
<1>6. QED BY <1>1, <1>2, <1>3, <1>4, <1>5

(* Reading the result takes time and changes nothing else. *)
LEMMA ReadResultKeeps == IpcInv /\ ReadResult => IpcInv'
<1> SUFFICES ASSUME IpcInv, ReadResult PROVE IpcInv' OBVIOUS
<1> USE DEF IpcInv, IpcTypes, ReadResult
<1>1. IpcTypes'
  <2>1. coordinator' \in Coordinators BY GoToTyped, Limits DEF Waiting
  <2>2. seen' \in CaseRecords BY DEF CaseRecords, Importers
  <2>3. QED BY <2>1, <2>2
<1>2. TimersInv'
  BY Limits DEF TimersInv, GoTo, Coordinators, CaseRecords, Waiting, ExecBy, AckBy, StopBy
<1>3. WatchInv' BY DEF WatchInv, GoTo, Coordinators, CaseRecords, Running, Watched
<1>4. RolesInv' BY DEF RolesInv, GoTo, Coordinators, CaseRecords
<1>5. CasesInv' BY DEF CasesInv, GoTo, Coordinators, CaseRecords, Gone, Judged
<1>6. QED BY <1>1, <1>2, <1>3, <1>4, <1>5

(* With the acknowledgement the consumer has gone; without it, it is stopped. *)
LEMMA ReadDoneKeeps == IpcInv /\ ReadDone => IpcInv'
<1> SUFFICES ASSUME IpcInv, ReadDone PROVE IpcInv' OBVIOUS
<1> USE DEF IpcInv, IpcTypes, ReadDone
<1>1. IpcTypes'
  <2>1. coordinator' \in Coordinators BY GoToTyped, Limits DEF Waiting, StopNow
  <2>2. seen' \in CaseRecords BY DEF CaseRecords
  <2>3. QED BY <2>1, <2>2
<1>2. TimersInv'
  <2> USE Limits DEF GoTo, StopNow, TimersInv, RolesInv, Coordinators, ExecBy, AckBy, StopBy
  <2>1. CASE done # "none" /\ SplitPods /\ GoTo("copy-back", CopyWait) BY <2>1
  <2>2. CASE GoTo("producer", CaseWait - now) BY <2>2
  <2>3. CASE StopNow BY <2>3
  <2>4. QED BY <2>1, <2>2, <2>3
<1>3. WatchInv'
  BY DEF WatchInv, GoTo, StopNow, SplitPods, Coordinators, CaseRecords, Running, Watched, RolesInv
<1>4. RolesInv' BY DEF RolesInv, GoTo, StopNow, SplitPods, Coordinators, CaseRecords
<1>5. CasesInv' BY DEF CasesInv, GoTo, StopNow, SplitPods, Coordinators, CaseRecords, Gone, Judged
<1>6. QED BY <1>1, <1>2, <1>3, <1>4, <1>5

(* The acknowledgement reaches the Pod of the producer when the consumer has
   gone. *)
LEMMA CopyDoneKeeps == IpcInv /\ CopyDone => IpcInv'
<1> SUFFICES ASSUME IpcInv, CopyDone PROVE IpcInv' OBVIOUS
<1> USE DEF IpcInv, IpcTypes, CopyDone
<1>1. IpcTypes'
  <2>1. coordinator' \in Coordinators BY GoToTyped, Limits DEF Waiting, StopNow
  <2>2. seen' \in CaseRecords BY DEF CaseRecords
  <2>3. QED BY <2>1, <2>2
<1>2. TimersInv'
  <2> USE Limits DEF GoTo, StopNow, TimersInv, RolesInv, Coordinators, ExecBy, AckBy, StopBy
  <2>1. CASE GoTo("producer", CaseWait - now) BY <2>1
  <2>2. CASE StopNow BY <2>2
  <2>3. QED BY <2>1, <2>2
<1>3. WatchInv' BY DEF WatchInv, GoTo, StopNow, Coordinators, CaseRecords, Running, Watched
<1>4. RolesInv' BY DEF RolesInv, GoTo, StopNow, Coordinators, CaseRecords
<1>5. CasesInv' BY DEF CasesInv, GoTo, StopNow, Coordinators, CaseRecords, Gone, Judged
<1>6. QED BY <1>1, <1>2, <1>3, <1>4, <1>5

(* The consumer has gone, or the record says that this is not confirmed. *)
LEMMA StopConsumerKeeps == IpcInv /\ StopConsumer => IpcInv'
<1> SUFFICES ASSUME IpcInv, StopConsumer PROVE IpcInv' OBVIOUS
<1> USE DEF IpcInv, IpcTypes, StopConsumer
<1>1. IpcTypes'
  <2>1. coordinator' \in Coordinators BY GoToTyped, Limits DEF Waiting
  <2>2. importer' \in Importers BY DEF Importers
  <2>3. seen' \in CaseRecords BY DEF CaseRecords
  <2>4. QED BY <2>1, <2>2, <2>3
<1>2. TimersInv'
  BY Limits DEF TimersInv, GoTo, Coordinators, Importers, CaseRecords, Waiting, ExecBy, AckBy,
         StopBy
<1>3. WatchInv' BY DEF WatchInv, GoTo, Coordinators, Importers, CaseRecords
<1>4. RolesInv' BY DEF RolesInv, GoTo, Coordinators, Importers, CaseRecords
<1>5. CasesInv' BY DEF CasesInv, GoTo, Coordinators, Importers, CaseRecords, Gone, Judged
<1>6. QED BY <1>1, <1>2, <1>3, <1>4, <1>5

(* The producer has gone, or the connection to it. *)
LEMMA ProducerReturnsKeeps == IpcInv /\ ProducerReturns => IpcInv'
<1> SUFFICES ASSUME IpcInv, ProducerReturns PROVE IpcInv' OBVIOUS
<1> USE DEF IpcInv, IpcTypes, ProducerReturns
<1>1. IpcTypes'
  <2>1. coordinator' \in Coordinators BY GoToTyped, Limits DEF Waiting
  <2>2. exporter' \in Exporters BY DEF Exporters
  <2>3. seen' \in CaseRecords BY DEF CaseRecords, Exporters
  <2>4. QED BY <2>1, <2>2, <2>3
<1>2. TimersInv'
  BY Limits DEF TimersInv, GoTo, Coordinators, Exporters, CaseRecords, Waiting, ExecBy, AckBy,
         StopBy
<1>3. WatchInv' BY DEF WatchInv, GoTo, Coordinators, Exporters, CaseRecords, Running, Watched
<1>4. RolesInv' BY DEF RolesInv, GoTo, Coordinators, Exporters, CaseRecords
<1>5. CasesInv' BY DEF CasesInv, GoTo, Coordinators, Exporters, CaseRecords, Gone, Judged
<1>6. QED BY <1>1, <1>2, <1>3, <1>4, <1>5

(* The producer is overdue only when the whole case is. *)
LEMMA ProducerOverdueKeeps == IpcInv /\ ProducerOverdue => IpcInv'
<1> SUFFICES ASSUME IpcInv, ProducerOverdue PROVE IpcInv' OBVIOUS
<1> USE DEF IpcInv, IpcTypes, ProducerOverdue
<1>1. IpcTypes'
  <2>1. coordinator' \in Coordinators BY GoToTyped, Limits DEF Waiting
  <2>2. seen' \in CaseRecords BY DEF CaseRecords
  <2>3. QED BY <2>1, <2>2
<1>2. TimersInv'
  BY Limits DEF TimersInv, GoTo, Overdue, Coordinators, CaseRecords, Waiting, ExecBy, AckBy,
         StopBy
<1>3. WatchInv' BY DEF WatchInv, GoTo, Overdue, Coordinators, CaseRecords, Running, Watched
<1>4. RolesInv' BY DEF RolesInv, GoTo, Overdue, Coordinators, CaseRecords
<1>5. CasesInv' BY DEF CasesInv, GoTo, Overdue, Coordinators, CaseRecords, Gone, Judged
<1>6. QED BY <1>1, <1>2, <1>3, <1>4, <1>5

(* No consumer is watched any more when the producer is stopped. *)
LEMMA StopProducerKeeps == IpcInv /\ StopProducer => IpcInv'
<1> SUFFICES ASSUME IpcInv, StopProducer PROVE IpcInv' OBVIOUS
<1> USE DEF IpcInv, IpcTypes, StopProducer
<1>1. IpcTypes'
  <2>1. coordinator' \in Coordinators BY GoToTyped, Limits DEF Waiting
  <2>2. exporter' \in Exporters BY DEF Exporters
  <2>3. QED BY <2>1, <2>2 DEF records
<1>2. TimersInv'
  BY Limits DEF TimersInv, records, GoTo, Coordinators, Exporters, Waiting, ExecBy, AckBy, StopBy
<1>3. WatchInv' BY DEF WatchInv, records, GoTo, Coordinators, Exporters, Running, Watched
<1>4. RolesInv' BY DEF RolesInv, records, GoTo, Coordinators, Exporters
<1>5. CasesInv' BY DEF CasesInv, records, GoTo, Coordinators, Exporters, Gone, Judged
<1>6. QED BY <1>1, <1>2, <1>3, <1>4, <1>5

(* A case passes only when both of its processes have gone. *)
LEMMA FinishCaseKeeps == IpcInv /\ FinishCase => IpcInv'
<1> SUFFICES ASSUME IpcInv, FinishCase PROVE IpcInv' OBVIOUS
<1> USE DEF IpcInv, IpcTypes, FinishCase
<1>1. IpcTypes'
  <2>1. coordinator' \in Coordinators BY DEF Coordinators
  <2>2. QED BY <2>1 DEF records
<1>2. TimersInv' BY DEF TimersInv, records, Passed, Coordinators
<1>3. WatchInv' BY DEF WatchInv, records, Passed, Coordinators, Running, Watched
<1>4. RolesInv' BY DEF RolesInv, records, Passed, Coordinators
<1>5. CasesInv' BY DEF CasesInv, records, Passed, Coordinators, Gone, Judged, RolesInv
<1>6. QED BY <1>1, <1>2, <1>3, <1>4, <1>5

(* The next case in the same Pods follows one that has passed. *)
LEMMA NextCaseKeeps == IpcInv /\ NextCase => IpcInv'
<1> SUFFICES ASSUME IpcInv, NextCase PROVE IpcInv' OBVIOUS
<1> USE DEF IpcInv, IpcTypes, NextCase
<1>1. IpcTypes'
  <2>1. coordinator' \in Coordinators BY NextTyped DEF Coordinators
  <2>2. QED BY <2>1 DEF records
<1>2. TimersInv'
  BY Limits DEF TimersInv, records, Ok, NewPodsNext, SamePodsNext, Coordinators, Waiting, ExecBy,
         AckBy, StopBy
<1>3. WatchInv'
  BY DEF WatchInv, records, Ok, NewPodsNext, SamePodsNext, Coordinators, Running, Watched
<1>4. RolesInv' BY DEF RolesInv, records, Ok, NewPodsNext, SamePodsNext, Coordinators
<1>5. CasesInv' BY DEF CasesInv, records, Ok, NewPodsNext, SamePodsNext, Coordinators
<1>6. QED BY <1>1, <1>2, <1>3, <1>4, <1>5

(* The next case in new Pods waits for the old ones. *)
LEMMA PodsDeletedKeeps == IpcInv /\ PodsDeleted => IpcInv'
<1> SUFFICES ASSUME IpcInv, PodsDeleted PROVE IpcInv' OBVIOUS
<1> USE DEF IpcInv, IpcTypes, PodsDeleted
<1>1. IpcTypes'
  <2>1. coordinator' \in Coordinators BY NextTyped DEF Coordinators
  <2>2. QED BY <2>1 DEF records
<1>2. TimersInv'
  BY Limits DEF TimersInv, records, Ok, NewPodsNext, Coordinators, Waiting, ExecBy, AckBy, StopBy
<1>3. WatchInv' BY DEF WatchInv, records, Ok, NewPodsNext, Coordinators, Running, Watched
<1>4. RolesInv' BY DEF RolesInv, records, Ok, NewPodsNext, Coordinators
<1>5. CasesInv' BY DEF CasesInv, records, Ok, NewPodsNext, Coordinators
<1>6. QED BY <1>1, <1>2, <1>3, <1>4, <1>5

(* What ends with its Pod stays gone. *)
LEMMA PodEndsKeeps == IpcInv /\ PodEnds => IpcInv'
<1> SUFFICES ASSUME IpcInv, PodEnds PROVE IpcInv' OBVIOUS
<1> USE DEF IpcInv, IpcTypes, PodEnds
<1>1. IpcTypes'
  <2>1. exporter' \in Exporters BY DEF Exporters
  <2>2. importer' \in Importers BY DEF Importers
  <2>3. QED BY <2>1, <2>2 DEF records
<1>2. TimersInv' BY DEF TimersInv, records, Exporters, Importers
<1>3. WatchInv' BY DEF WatchInv, records, Exporters, Importers, Running, Watched
<1>4. RolesInv' BY DEF RolesInv, records, Exporters, Importers
<1>5. CasesInv' BY DEF CasesInv, records, Exporters, Importers
<1>6. QED BY <1>1, <1>2, <1>3, <1>4, <1>5

(* Nothing follows. *)
LEMMA IpcEndKeeps == IpcInv /\ IpcEnd => IpcInv'
<1> SUFFICES ASSUME IpcInv, IpcEnd PROVE IpcInv' OBVIOUS
<1> USE DEF IpcInv, IpcTypes, IpcEnd
<1>1. IpcTypes'
  <2>1. coordinator' \in Coordinators BY DEF Coordinators
  <2>2. QED BY <2>1 DEF records
<1>2. TimersInv' BY Limits DEF TimersInv, records, Coordinators, Waiting, ExecBy, AckBy, StopBy
<1>3. WatchInv' BY DEF WatchInv, records, Coordinators, Running, Watched
<1>4. RolesInv' BY DEF RolesInv, records, Coordinators
<1>5. CasesInv' BY DEF CasesInv, records, Coordinators, Gone, Judged
<1>6. QED BY <1>1, <1>2, <1>3, <1>4, <1>5

(* Time stops at the end of the wait. *)
LEMMA IpcTickKeeps == IpcInv /\ IpcTick => IpcInv'
<1> SUFFICES ASSUME IpcInv, IpcTick PROVE IpcInv' OBVIOUS
<1> USE DEF IpcInv, IpcTypes, IpcTick
<1>1. IpcTypes' BY DEF records
<1>2. TimersInv'
  BY Limits DEF TimersInv, records, Overdue, Waiting, ExecBy, AckBy, StopBy, RolesInv, WatchInv,
         Running, CasesInv, Gone, Cases, Coordinators, Exporters, Importers, CaseRecords
<1>3. WatchInv' BY DEF WatchInv, records, Overdue
<1>4. RolesInv' BY DEF RolesInv, records, Overdue
<1>5. CasesInv' BY DEF CasesInv, records, Overdue
<1>6. QED BY <1>1, <1>2, <1>3, <1>4, <1>5

-----------------------------------------------------------------------------
(* At first there are no processes and no files. *)
LEMMA IpcInitKeeps == IpcInit => IpcInv
<1> SUFFICES ASSUME IpcInit PROVE IpcInv OBVIOUS
<1> USE DEF IpcInit
<1>1. IpcTypes
  <2>1. coordinator \in Coordinators BY DEF Coordinators, Cases
  <2>2. exporter \in Exporters /\ importer \in Importers
    BY DEF Exporters, Importers, Process0, Importer0
  <2>3. seen \in CaseRecords BY DEF CaseRecords, Record0
  <2>4. QED BY <2>1, <2>2, <2>3 DEF IpcTypes, Marks
<1>2. TimersInv BY Limits DEF TimersInv, Waiting
<1>3. WatchInv /\ RolesInv BY DEF WatchInv, RolesInv, Importer0, Record0
<1>4. CasesInv BY DEF CasesInv, Gone, Process0, Importer0
<1>5. QED BY <1>1, <1>2, <1>3, <1>4 DEF IpcInv

(* Every step of the three programs, and of time, preserves the invariant. *)
LEMMA IpcNextKeeps == IpcInv /\ [IpcNext]_ipcVars => IpcInv'
<1> SUFFICES ASSUME IpcInv, [IpcNext]_ipcVars PROVE IpcInv' OBVIOUS
<1>1. CASE ExporterStarts BY <1>1, ExporterStartsKeeps
<1>2. CASE Export BY <1>2, ExportKeeps
<1>3. CASE ExporterAcknowledged BY <1>3, ExporterAcknowledgedKeeps
<1>4. CASE ExporterFails BY <1>4, ExporterFailsKeeps
<1>5. CASE ExporterHangs BY <1>5, ExporterHangsKeeps
<1>6. CASE ExporterKilled BY <1>6, ExporterKilledKeeps
<1>7. CASE ImporterStarts BY <1>7, ImporterStartsKeeps
<1>8. CASE OpenImport BY <1>8, OpenImportKeeps
<1>9. CASE CloseImport BY <1>9, CloseImportKeeps
<1>10. CASE CloseFails BY <1>10, CloseFailsKeeps
<1>11. CASE ImporterHangs BY <1>11, ImporterHangsKeeps
<1>12. CASE ImporterKilled BY <1>12, ImporterKilledKeeps
<1>13. CASE StartCase BY <1>13, StartCaseKeeps
<1>14. CASE ReadMetadata BY <1>14, ReadMetadataKeeps
<1>15. CASE NoMetadata BY <1>15, NoMetadataKeeps
<1>16. CASE ExecConsumer BY <1>16, ExecConsumerKeeps
<1>17. CASE ConsumerReturns BY <1>17, ConsumerReturnsKeeps
<1>18. CASE ReadResult BY <1>18, ReadResultKeeps
<1>19. CASE ReadDone BY <1>19, ReadDoneKeeps
<1>20. CASE CopyDone BY <1>20, CopyDoneKeeps
<1>21. CASE StopConsumer BY <1>21, StopConsumerKeeps
<1>22. CASE ProducerReturns BY <1>22, ProducerReturnsKeeps
<1>23. CASE ProducerOverdue BY <1>23, ProducerOverdueKeeps
<1>24. CASE StopProducer BY <1>24, StopProducerKeeps
<1>25. CASE FinishCase BY <1>25, FinishCaseKeeps
<1>26. CASE NextCase BY <1>26, NextCaseKeeps
<1>27. CASE PodsDeleted BY <1>27, PodsDeletedKeeps
<1>28. CASE PodEnds BY <1>28, PodEndsKeeps
<1>29. CASE IpcEnd BY <1>29, IpcEndKeeps
<1>30. CASE IpcTick BY <1>30, IpcTickKeeps
<1>31. CASE UNCHANGED ipcVars
  BY <1>31 DEF IpcInv, IpcTypes, TimersInv, WatchInv, RolesInv, CasesInv, Gone, ipcVars, records
<1>32. QED
  BY <1>1, <1>2, <1>3, <1>4, <1>5, <1>6, <1>7, <1>8, <1>9, <1>10, <1>11, <1>12, <1>13, <1>14,
     <1>15, <1>16, <1>17, <1>18, <1>19, <1>20, <1>21, <1>22, <1>23, <1>24, <1>25, <1>26, <1>27,
     <1>28, <1>29, <1>30, <1>31
  DEF IpcNext, Programs, Coordinating

(* The strengthened invariant holds in every reachable state. *)
THEOREM IpcInvariance == IpcSpec => []IpcInv
<1>1. QED BY IpcInitKeeps, IpcNextKeeps, PTL DEF IpcSpec

(* It implies the three properties that the runs check. *)
LEMMA IpcInvImplies == IpcInv => IpcTypeOK /\ ImportsBacked /\ CasesApart
<1> SUFFICES ASSUME IpcInv PROVE IpcTypeOK /\ ImportsBacked /\ CasesApart OBVIOUS
<1> USE DEF IpcInv
<1>1. IpcTypeOK
  BY Limits DEF IpcTypeOK, IpcTypes, TimersInv, WatchInv, Coordinators, Exporters, Importers,
     Marks
<1>2. ImportsBacked BY DEF ImportsBacked, WatchInv, Running
<1>3. CasesApart BY DEF CasesApart, CasesInv
<1>4. QED BY <1>1, <1>2, <1>3

(* Every case of run-ipc-diagnostic.py ends within its bounds, whatever    *)
(* hangs in the driver.                                                    *)
THEOREM CasesEnd == IpcSpec => []IpcTypeOK
<1>1. QED BY IpcInvariance, IpcInvImplies, PTL

(* The consumer's import never outlives the producer's export, unless the  *)
(* record of the case says that the consumer's stop is not confirmed.      *)
THEOREM ImportsAlwaysBacked == IpcSpec => []ImportsBacked
<1>1. QED BY IpcInvariance, IpcInvImplies, PTL

(* No case starts beside processes of an earlier one. *)
THEOREM CasesNeverMeet == IpcSpec => []CasesApart
<1>1. QED BY IpcInvariance, IpcInvImplies, PTL

-----------------------------------------------------------------------------
(* The host *)

(* What holds of each program alone holds of the host. *)
THEOREM HostInvariance == HostSpec => [](LayoutInv /\ IpcInv)
<1>1. HostInit => LayoutInv /\ IpcInv BY InitKeeps, IpcInitKeeps DEF HostInit
<1>2. ASSUME LayoutInv /\ IpcInv, [HostNext]_hostVars
      PROVE  (LayoutInv /\ IpcInv)'
  <2>1. [Next]_vars /\ [IpcNext]_ipcVars
    BY <1>2 DEF HostNext, MeasureLayouts, DiagnoseIpc, hostVars
  <2>2. QED BY <1>2, <2>1, NextKeeps, IpcNextKeeps
<1>3. QED BY <1>1, <1>2, PTL DEF HostSpec

(* Whichever program session.json names, it keeps its promises on the host *)
(* it shares a model, and a machine, with the other.                       *)
THEOREM HostIsSafe ==
  HostSpec => [](/\ HostTypeOK
                 /\ EpochsDisjoint /\ SignalsOwn /\ QualifiedWhole
                 /\ ImportsBacked /\ CasesApart)
<1>1. QED BY HostInvariance, LayoutInvImplies, IpcInvImplies, PTL DEF HostTypeOK
===============================================================================
