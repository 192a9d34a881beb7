---------------------------- MODULE ReceiptLedger ----------------------------
(***************************************************************************)
(* The file receipt ledger of the coordinator                              *)
(* (crates/gz-measure-service/src/receipt.rs, ReceiptLedger::File).        *)
(*                                                                         *)
(* receipts.log is a sequence of records; a record is its length and the   *)
(* encoded report, written in Full pieces of which any number may reach    *)
(* the file before a write fails or the machine stops.  sync_data makes    *)
(* everything written so far durable; what is not synced may be lost from  *)
(* the end.  commit runs under the coordinator's mutex, so at most one     *)
(* record is being appended.                                               *)
(***************************************************************************)
EXTENDS Integers, Sequences, FiniteSets

CONSTANTS
  Jobs,
  Reports,        \* distinct encodings a report of one job may have
  Full,           \* pieces of a complete record
  MaxRecords,     \* bound: records in the log
  MaxIoErrors     \* bound: write or sync errors that commit returns

ASSUME FullAssumption == Full \in Nat \ {0}
ASSUME LogAssumption == MaxRecords \in Nat /\ MaxIoErrors \in Nat
ASSUME NoReportAssumption == "missing" \notin Reports

VARIABLES
  log,        \* records in file order: job, report, pieces written
  synced,     \* how many records (with their pieces) sync_data covered
  receipts,   \* the in-memory map, "missing" for a job that is not in it
  phase,      \* "down", "refused", "idle", "writing" or "syncing"
  acked,      \* the report an agent or a caller was told is committed
  ioErrors

vars == <<log, synced, receipts, phase, acked, ioErrors>>

Missing == [j \in Jobs |-> "missing"]
Record == [job : Jobs, report : Reports, written : 1..Full]

TypeOK ==
  /\ log \in Seq(Record)
  /\ synced \in 0..Len(log)
  /\ receipts \in [Jobs -> Reports \cup {"missing"}]
  /\ phase \in {"down", "refused", "idle", "writing", "syncing"}
  /\ acked \in [Jobs -> Reports \cup {"missing"}]
  /\ ioErrors \in 0..MaxIoErrors

Init ==
  /\ log = <<>> /\ synced = 0
  /\ receipts = Missing /\ acked = Missing
  /\ phase = "down" /\ ioErrors = 0

-----------------------------------------------------------------------------
(* commit *)

Last == log[Len(log)]

(* Mutant: the map is not consulted first. *)
CommitAgain(j, r) ==
  /\ phase = "idle" /\ Len(log) < MaxRecords
  /\ log' = Append(log, [job |-> j, report |-> r, written |-> 1])
  /\ phase' = IF Full = 1 THEN "syncing" ELSE "writing"
  /\ UNCHANGED <<synced, receipts, acked, ioErrors>>

(* A job without a receipt: the first piece of its record is written. *)
Commit(j, r) ==
  /\ phase = "idle" /\ receipts[j] = "missing" /\ Len(log) < MaxRecords
  /\ log' = Append(log, [job |-> j, report |-> r, written |-> 1])
  /\ phase' = IF Full = 1 THEN "syncing" ELSE "writing"
  /\ UNCHANGED <<synced, receipts, acked, ioErrors>>

Write ==
  /\ phase = "writing"
  /\ log' = [log EXCEPT ![Len(log)].written = @ + 1]
  /\ phase' = IF Last.written + 1 = Full THEN "syncing" ELSE "writing"
  /\ UNCHANGED <<synced, receipts, acked, ioErrors>>

(* sync_data returned: the map is updated and submit_result acknowledges. *)
Sync ==
  /\ phase = "syncing"
  /\ synced' = Len(log)
  /\ receipts' = [receipts EXCEPT ![Last.job] = Last.report]
  /\ acked' = [acked EXCEPT ![Last.job] = Last.report]
  /\ phase' = "idle"
  /\ UNCHANGED <<log, ioErrors>>

(* A write or the sync fails: commit returns the error, and what reached the *)
(* file stays there.                                                         *)
IoError ==
  /\ phase \in {"writing", "syncing"}
  /\ ioErrors < MaxIoErrors
  /\ ioErrors' = ioErrors + 1
  /\ phase' = "idle"
  /\ UNCHANGED <<log, synced, receipts, acked>>

-----------------------------------------------------------------------------
(* The process or the machine stops.  Of the records after the synced ones    *)
(* the file keeps a prefix, whose last record may be torn.                    *)
Crash ==
  /\ phase \in {"idle", "writing", "syncing"}
  /\ \E n \in synced..Len(log) :
       \/ log' = SubSeq(log, 1, n)
       \/ /\ n > synced
          /\ \E w \in 1..log[n].written :
               log' = [SubSeq(log, 1, n) EXCEPT ![n].written = w]
  /\ phase' = "down"
  /\ receipts' = Missing
  /\ UNCHANGED <<synced, acked, ioErrors>>

(* read_receipts reads whole records up to the first torn one.  If that is    *)
(* the last, it ends the file.  If records follow, its length makes the       *)
(* reader take their bytes for its own: what it decodes is rejected, or a     *)
(* length it misreads runs past the end of the file and all is cut off there. *)
Torn == {i \in DOMAIN log : log[i].written < Full}
Valid ==
  IF Torn = {} THEN Len(log)
  ELSE (CHOOSE i \in Torn : \A k \in Torn : i <= k) - 1
Misread == Valid + 1 < Len(log)
Conflicting ==
  \E i, k \in 1..Valid : log[i].job = log[k].job /\ log[i].report # log[k].report

ReadReceipts ==
  [j \in Jobs |->
     IF \E i \in 1..Valid : log[i].job = j
     THEN log[CHOOSE i \in 1..Valid : log[i].job = j].report
     ELSE "missing"]

(* Mutant: the torn record stays in the file. *)
OpenKeepingTail ==
  /\ phase = "down"
  /\ ~Conflicting
  /\ receipts' = ReadReceipts
  /\ phase' = "idle"
  /\ UNCHANGED <<log, synced, acked, ioErrors>>

(* open_file_ledger *)
Open ==
  /\ phase = "down"
  /\ ~Conflicting
  /\ log' = SubSeq(log, 1, Valid)
  /\ synced' = Valid
  /\ receipts' = ReadReceipts
  /\ phase' = "idle"
  /\ UNCHANGED <<acked, ioErrors>>

OpenRefused ==
  /\ phase = "down"
  /\ Conflicting \/ Misread
  /\ phase' = "refused"
  /\ UNCHANGED <<log, synced, receipts, acked, ioErrors>>

(* A refused ledger stays refused until somebody repairs the file. *)
Refused == phase = "refused" /\ UNCHANGED vars

Next ==
  \/ \E j \in Jobs, r \in Reports : Commit(j, r)
  \/ Write \/ Sync \/ IoError \/ Crash \/ Open \/ OpenRefused \/ Refused

Spec == Init /\ [][Next]_vars

-----------------------------------------------------------------------------
(* The in-memory map never runs ahead of the file: every receipt it holds is  *)
(* a complete, synced record, whatever failed or crashed before, so a         *)
(* duplicate submission is never answered from a record that can still be     *)
(* lost.                                                                      *)
ReceiptsAreOnDisk ==
  \A j \in Jobs : receipts[j] # "missing" =>
    \E i \in 1..synced : log[i] = [job |-> j, report |-> receipts[j], written |-> Full]

(* A receipt, once in the map, is never replaced by another report. *)
NeverOverwritten ==
  [][\A j \in Jobs :
       receipts[j] # "missing" /\ phase' # "down" => receipts'[j] = receipts[j]]_vars

(* A committed report survives a restart: once a report was acknowledged the  *)
(* ledger can be opened after every crash, and while it is open it holds that *)
(* report.                                                                    *)
CommittedSurvives ==
  \A j \in Jobs : acked[j] # "missing" =>
    phase # "refused" /\ (phase # "down" => receipts[j] = acked[j])

(* As long as the disk reports no error that is so, wherever in an append the *)
(* process or the machine stops.                                              *)
CrashSafe == ioErrors = 0 => CommittedSurvives

(* What the ledger answers can be relied on: the map is never ahead of the    *)
(* file, and without a disk error a committed report survives every restart.  *)
Durable == TypeOK /\ ReceiptsAreOnDisk /\ CrashSafe

-----------------------------------------------------------------------------
(* Why it is so: the parts of an inductive invariant. *)

(* While a record is being appended it is the last one, not yet synced, for a *)
(* job that has no receipt.                                                   *)
AppendUnderWay ==
  phase \in {"writing", "syncing"} =>
    /\ synced < Len(log)
    /\ receipts[Last.job] = "missing"
    /\ IF phase = "writing" THEN Last.written < Full ELSE Last.written = Full

(* A ledger that is not open has no map. *)
ClosedIsEmpty == phase \in {"down", "refused"} => receipts = Missing

(* Without a disk error the file is the synced records, each complete and for *)
(* a job of its own, and at most the one being appended; an acknowledged      *)
(* report is among them, and the map of an open ledger has them all.          *)
FileWhole ==
  ioErrors = 0 =>
    /\ phase # "refused"
    /\ \A i \in 1..synced : log[i].written = Full
    /\ Len(log) <= synced + 1
    /\ phase = "idle" => Len(log) = synced
    /\ \A i, k \in 1..Len(log) : log[i].job = log[k].job => i = k
    /\ \A j \in Jobs : acked[j] # "missing" =>
         \E i \in 1..synced : log[i].job = j /\ log[i].report = acked[j]
    /\ phase \notin {"down", "refused"} =>
         \A i \in 1..synced : receipts[log[i].job] = log[i].report

LedgerInductive ==
  TypeOK /\ ReceiptsAreOnDisk /\ AppendUnderWay /\ ClosedIsEmpty /\ FileWhole
=============================================================================
