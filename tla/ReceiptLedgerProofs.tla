------------------------ MODULE ReceiptLedgerProofs ------------------------
(***************************************************************************)
(* Proofs about ReceiptLedger, for all sets of jobs and reports, records   *)
(* of any number of pieces, and any sequence of crashes and disk errors.   *)
(***************************************************************************)
EXTENDS ReceiptLedger, WellFoundedInduction, TLAPS

-----------------------------------------------------------------------------
(* A set of natural numbers that is not empty has a least element. *)
LEMMA LeastNatural ==
  ASSUME NEW S, S \subseteq Nat, S # {}
  PROVE  \E m \in S : \A n \in S : m <= n
<1> DEFINE R == {p \in Nat \X Nat : p[1] < p[2]}
<1>1. IsWellFoundedOn(R, Nat)
  BY NatLessThanWellFounded, Zenon DEF OpToRel
<1> HIDE DEF R
<1>2. PICK x \in S : \A y \in S : ~(<<y, x>> \in R)
  BY <1>1, WFMin
<1>3. \A y \in S : ~(y < x)
  BY <1>2 DEF R
<1> QED BY <1>3

(* Every record of the file has its fields. *)
LEMMA RecordsOfLog ==
  ASSUME TypeOK
  PROVE  /\ Len(log) \in Nat
         /\ \A i \in 1..Len(log) :
              /\ log[i] \in Record /\ log[i].job \in Jobs /\ log[i].report \in Reports
              /\ log[i].written \in 1..Full
<1>1. Len(log) \in Nat /\ \A i \in 1..Len(log) : log[i] \in Record
  BY DEF TypeOK
<1>2. \A r \in Record : r.job \in Jobs /\ r.report \in Reports /\ r.written \in 1..Full
  BY DEF Record
<1> QED BY <1>1, <1>2

(* read_receipts stops before the first torn record: every record it takes   *)
(* is complete, and the next one, if there is one, is torn.                  *)
LEMMA ValidPrefix ==
  ASSUME TypeOK
  PROVE  /\ Valid \in 0..Len(log)
         /\ \A i \in 1..Valid : log[i].written = Full
         /\ Valid < Len(log) => log[Valid + 1].written < Full
<1>1. Len(log) \in Nat /\ DOMAIN log = 1..Len(log)
      /\ \A i \in 1..Len(log) : log[i].written \in 1..Full
  BY RecordsOfLog DEF TypeOK
<1>2. CASE Torn = {}
  BY <1>1, <1>2, FullAssumption DEF Torn, Valid
<1>3. CASE Torn # {}
  <2>1. Torn \subseteq Nat
    BY <1>1 DEF Torn
  <2>2. \E m \in Torn : \A n \in Torn : m <= n
    BY <1>3, <2>1, LeastNatural
  <2> DEFINE first == CHOOSE i \in Torn : \A k \in Torn : i <= k
  <2>3. first \in Torn /\ \A k \in Torn : first <= k
    BY <2>2
  <2>4. Valid = first - 1
    BY <1>3 DEF Valid
  <2> HIDE DEF first
  <2> QED BY <1>1, <2>3, <2>4, FullAssumption DEF Torn
<1> QED BY <1>2, <1>3

(* What read_receipts puts into the map comes from a complete record. *)
LEMMA ReadFromFile ==
  ASSUME TypeOK, NEW j \in Jobs
  PROVE  /\ ReadReceipts[j] \in Reports \cup {"missing"}
         /\ ReadReceipts[j] # "missing" =>
              \E i \in 1..Valid : log[i].job = j /\ log[i].report = ReadReceipts[j]
         /\ ReadReceipts[j] = "missing" => \A i \in 1..Valid : log[i].job # j
<1>1. Len(log) \in Nat
      /\ \A i \in 1..Len(log) : log[i].report \in Reports
  BY RecordsOfLog
<1>2. Valid \in 0..Len(log)
  BY ValidPrefix
<1>3. CASE \E i \in 1..Valid : log[i].job = j
  <2> DEFINE at == CHOOSE i \in 1..Valid : log[i].job = j
  <2>1. at \in 1..Valid /\ log[at].job = j
    BY <1>3
  <2>2. ReadReceipts[j] = log[at].report
    BY <1>3 DEF ReadReceipts
  <2> HIDE DEF at
  <2> QED BY <1>1, <1>2, <2>1, <2>2, NoReportAssumption
<1>4. CASE ~\E i \in 1..Valid : log[i].job = j
  BY <1>4 DEF ReadReceipts
<1> QED BY <1>3, <1>4

-----------------------------------------------------------------------------
(* The first state, of an empty file, has the inductive invariant. *)
LEMMA LedgerStart == Init => LedgerInductive
<1> SUFFICES ASSUME Init PROVE LedgerInductive
  OBVIOUS
<1> USE DEF Init, Missing
<1>1. TypeOK
  BY LogAssumption DEF TypeOK
<1>2. ReceiptsAreOnDisk /\ AppendUnderWay /\ ClosedIsEmpty
  BY DEF ReceiptsAreOnDisk, AppendUnderWay, ClosedIsEmpty
<1>3. FileWhole
  BY DEF FileWhole
<1> QED BY <1>1, <1>2, <1>3 DEF LedgerInductive

(* A record that the file already had is left alone by an append and by the  *)
(* pieces that follow it.                                                    *)
LEMMA KeepsPrefix ==
  ASSUME LedgerInductive, synced' = synced, receipts' = receipts,
         \A i \in 1..synced : log'[i] = log[i]
  PROVE  ReceiptsAreOnDisk'
<1>1. ReceiptsAreOnDisk
  BY DEF LedgerInductive
<1>2. ASSUME NEW j \in Jobs, receipts'[j] # "missing"
      PROVE  \E i \in 1..synced' :
               log'[i] = [job |-> j, report |-> receipts'[j], written |-> Full]
  <2>1. PICK i \in 1..synced :
               log[i] = [job |-> j, report |-> receipts[j], written |-> Full]
    BY <1>1, <1>2 DEF ReceiptsAreOnDisk
  <2> QED BY <2>1
<1> QED BY <1>2 DEF ReceiptsAreOnDisk

(* The first piece of a record goes after everything the file has. *)
LEMMA CommitStep ==
  ASSUME LedgerInductive, NEW j \in Jobs, NEW r \in Reports, Commit(j, r)
  PROVE  LedgerInductive'
<1> DEFINE rec == [job |-> j, report |-> r, written |-> 1]
<1>0. TypeOK /\ AppendUnderWay /\ ClosedIsEmpty /\ FileWhole /\ ReceiptsAreOnDisk
  BY DEF LedgerInductive
<1>1. rec \in Record /\ rec.job = j /\ rec.report = r /\ rec.written = 1
  BY FullAssumption DEF Record
<1>2. /\ log' = Append(log, rec)
      /\ phase = "idle" /\ receipts[j] = "missing"
      /\ phase' = IF Full = 1 THEN "syncing" ELSE "writing"
      /\ synced' = synced /\ receipts' = receipts /\ acked' = acked /\ ioErrors' = ioErrors
  BY DEF Commit
<1> HIDE DEF rec
<1>3. /\ Len(log) \in Nat /\ synced \in 0..Len(log)
      /\ log' \in Seq(Record) /\ Len(log') = Len(log) + 1
      /\ \A i \in 1..Len(log) : log'[i] = log[i]
      /\ log'[Len(log) + 1] = rec
  BY <1>0, <1>1, <1>2 DEF TypeOK
<1>4. TypeOK'
  BY <1>0, <1>2, <1>3 DEF TypeOK
<1>5. ReceiptsAreOnDisk'
  BY <1>2, <1>3, KeepsPrefix
<1>6. AppendUnderWay'
  BY <1>1, <1>2, <1>3, FullAssumption DEF AppendUnderWay, Last
<1>7. ClosedIsEmpty'
  BY <1>2 DEF ClosedIsEmpty
<1>8. FileWhole'
  <2> SUFFICES ASSUME ioErrors = 0 PROVE FileWhole'
    BY <1>2 DEF FileWhole
  <2>1. Len(log) = synced
    BY <1>0, <1>2 DEF FileWhole
  <2>2. \A i \in 1..Len(log) : log[i].written = Full /\ log[i].job # j
    BY <1>0, <1>2, <2>1, NoReportAssumption, RecordsOfLog DEF FileWhole
  <2>3. \A i, k \in 1..Len(log') : log'[i].job = log'[k].job => i = k
    BY <1>0, <1>1, <1>3, <2>2 DEF FileWhole
  <2>4. \A m \in Jobs : acked'[m] # "missing" =>
           \E i \in 1..synced' : log'[i].job = m /\ log'[i].report = acked'[m]
    BY <1>0, <1>2, <1>3 DEF FileWhole
  <2>5. \A i \in 1..synced' : receipts'[log'[i].job] = log'[i].report
    BY <1>0, <1>2, <1>3 DEF FileWhole
  <2> QED BY <1>2, <1>3, <2>1, <2>2, <2>3, <2>4, <2>5 DEF FileWhole
<1> QED BY <1>4, <1>5, <1>6, <1>7, <1>8 DEF LedgerInductive

(* The next piece of the record completes it or leaves it torn. *)
LEMMA WriteStep == ASSUME LedgerInductive, Write PROVE LedgerInductive'
<1> DEFINE n == Len(log)
           rec == [log[n] EXCEPT !.written = @ + 1]
<1>0. TypeOK /\ AppendUnderWay /\ ClosedIsEmpty /\ FileWhole /\ ReceiptsAreOnDisk
  BY DEF LedgerInductive
<1>1. n \in Nat /\ synced \in 0..n /\ synced < n /\ log[n] \in Record
      /\ log[n].written \in 1..Full /\ log[n].written < Full
      /\ receipts[log[n].job] = "missing"
  BY <1>0, RecordsOfLog DEF AppendUnderWay, Write, TypeOK, Last
<1>2. /\ rec \in Record /\ rec.job = log[n].job /\ rec.report = log[n].report
      /\ rec.written = log[n].written + 1
  BY <1>1, FullAssumption DEF Record
<1>3. /\ log' = [log EXCEPT ![n] = rec]
      /\ phase = "writing"
      /\ phase' = IF log[n].written + 1 = Full THEN "syncing" ELSE "writing"
      /\ synced' = synced /\ receipts' = receipts /\ acked' = acked /\ ioErrors' = ioErrors
  BY DEF Write, Last
<1> HIDE DEF rec
<1>4. /\ log' \in Seq(Record) /\ Len(log') = n
      /\ \A i \in 1..n : log'[i] = IF i = n THEN rec ELSE log[i]
  BY <1>0, <1>1, <1>2, <1>3 DEF TypeOK
<1> HIDE DEF n
<1>5. TypeOK'
  BY <1>0, <1>1, <1>3, <1>4 DEF TypeOK
<1>6. ReceiptsAreOnDisk'
  BY <1>1, <1>3, <1>4, KeepsPrefix DEF n
<1>7. AppendUnderWay'
  BY <1>1, <1>2, <1>3, <1>4, FullAssumption DEF AppendUnderWay, Last
<1>8. ClosedIsEmpty'
  BY <1>3 DEF ClosedIsEmpty
<1>9. FileWhole'
  <2> SUFFICES ASSUME ioErrors = 0 PROVE FileWhole'
    BY <1>3 DEF FileWhole
  <2>1. \A i \in 1..n : log'[i].job = log[i].job /\ log'[i].report = log[i].report
    BY <1>1, <1>2, <1>4
  <2>2. \A i \in 1..synced : log'[i] = log[i]
    BY <1>1, <1>4
  <2>3. \A i, k \in 1..Len(log') : log'[i].job = log'[k].job => i = k
    BY <1>0, <1>4, <2>1 DEF FileWhole, n
  <2>4. \A m \in Jobs : acked'[m] # "missing" =>
           \E i \in 1..synced' : log'[i].job = m /\ log'[i].report = acked'[m]
    BY <1>0, <1>3, <2>2 DEF FileWhole
  <2>5. \A i \in 1..synced' : receipts'[log'[i].job] = log'[i].report
    BY <1>0, <1>3, <2>2 DEF FileWhole
  <2>6. \A i \in 1..synced' : log'[i].written = Full
    BY <1>0, <1>3, <2>2 DEF FileWhole
  <2>7. Len(log') <= synced' + 1
    BY <1>0, <1>3, <1>4 DEF FileWhole, n
  <2> QED BY <1>3, <2>3, <2>4, <2>5, <2>6, <2>7 DEF FileWhole
<1> QED BY <1>5, <1>6, <1>7, <1>8, <1>9 DEF LedgerInductive

(* The receipt enters the map only when its record is complete and synced. *)
LEMMA SyncStep == ASSUME LedgerInductive, Sync PROVE LedgerInductive'
<1> DEFINE n == Len(log)
<1>0. TypeOK /\ AppendUnderWay /\ ClosedIsEmpty /\ FileWhole /\ ReceiptsAreOnDisk
  BY DEF LedgerInductive
<1>1. n \in Nat /\ synced \in 0..n /\ synced < n /\ log[n] \in Record
      /\ log[n].written = Full /\ receipts[log[n].job] = "missing"
      /\ log[n].job \in Jobs /\ log[n].report \in Reports
  BY <1>0, RecordsOfLog DEF AppendUnderWay, Sync, TypeOK, Last
<1>2. log[n] = [job |-> log[n].job, report |-> log[n].report, written |-> Full]
  BY <1>1 DEF Record
<1>3. /\ receipts' = [receipts EXCEPT ![log[n].job] = log[n].report]
      /\ acked' = [acked EXCEPT ![log[n].job] = log[n].report]
      /\ synced' = n /\ phase' = "idle" /\ log' = log /\ ioErrors' = ioErrors
      /\ phase = "syncing"
  BY DEF Sync, Last
<1>4. TypeOK'
  BY <1>0, <1>1, <1>3 DEF TypeOK
<1>5. ReceiptsAreOnDisk'
  <2> SUFFICES ASSUME NEW j \in Jobs, receipts'[j] # "missing"
               PROVE  \E i \in 1..n :
                        log[i] = [job |-> j, report |-> receipts'[j], written |-> Full]
    BY <1>3 DEF ReceiptsAreOnDisk
  <2>1. CASE j = log[n].job
    BY <1>0, <1>1, <1>2, <1>3, <2>1 DEF TypeOK
  <2>2. CASE j # log[n].job
    <3>1. receipts'[j] = receipts[j]
      BY <1>0, <1>3, <2>2 DEF TypeOK
    <3> QED BY <1>0, <1>1, <3>1 DEF ReceiptsAreOnDisk
  <2> QED BY <2>1, <2>2
<1>6. AppendUnderWay' /\ ClosedIsEmpty'
  BY <1>3 DEF AppendUnderWay, ClosedIsEmpty
<1>7. FileWhole'
  <2> SUFFICES ASSUME ioErrors = 0 PROVE FileWhole'
    BY <1>3 DEF FileWhole
  <2>1. n = synced + 1
    BY <1>0, <1>1 DEF FileWhole
  <2>2. \A i \in 1..n : log[i].written = Full
    BY <1>0, <1>1, <2>1 DEF FileWhole
  <2>3. \A i \in 1..n : receipts'[log[i].job] = log[i].report
    <3> SUFFICES ASSUME NEW i \in 1..n PROVE receipts'[log[i].job] = log[i].report
      OBVIOUS
    <3>1. log[i].job \in Jobs
      BY <1>0, RecordsOfLog
    <3>2. CASE i = n
      BY <1>0, <1>1, <1>3, <3>2 DEF TypeOK
    <3>3. CASE i # n
      <4>1. log[i].job # log[n].job
        BY <1>0, <1>1, <3>3 DEF FileWhole
      <4>2. receipts[log[i].job] = log[i].report
        BY <1>0, <1>1, <1>3, <2>1, <3>3 DEF FileWhole
      <4>3. receipts \in [Jobs -> Reports \cup {"missing"}]
        BY <1>0 DEF TypeOK
      <4>4. receipts'[log[i].job] = receipts[log[i].job]
        BY <1>3, <3>1, <4>1, <4>3
      <4> QED BY <4>2, <4>4
    <3> QED BY <3>2, <3>3
  <2>4. \A m \in Jobs : acked'[m] # "missing" =>
           \E i \in 1..n : log[i].job = m /\ log[i].report = acked'[m]
    <3> SUFFICES ASSUME NEW m \in Jobs, acked'[m] # "missing"
                 PROVE  \E i \in 1..n : log[i].job = m /\ log[i].report = acked'[m]
      OBVIOUS
    <3>1. CASE m = log[n].job
      BY <1>0, <1>1, <1>3, <3>1 DEF TypeOK
    <3>2. CASE m # log[n].job
      <4>1. acked'[m] = acked[m]
        BY <1>0, <1>3, <3>2 DEF TypeOK
      <4> QED BY <1>0, <1>1, <4>1 DEF FileWhole
    <3> QED BY <3>1, <3>2
  <2>5. \A i, k \in 1..Len(log') : log'[i].job = log'[k].job => i = k
    BY <1>0, <1>3 DEF FileWhole
  <2>6. \A i \in 1..synced' : receipts'[log'[i].job] = log'[i].report
    BY <1>3, <2>3
  <2>7. \A m \in Jobs : acked'[m] # "missing" =>
           \E i \in 1..synced' : log'[i].job = m /\ log'[i].report = acked'[m]
    BY <1>3, <2>4
  <2>8. \A i \in 1..synced' : log'[i].written = Full
    BY <1>3, <2>2
  <2>9. Len(log') = synced' /\ Len(log') <= synced' + 1
    BY <1>1, <1>3
  <2> QED BY <1>3, <2>5, <2>6, <2>7, <2>8, <2>9 DEF FileWhole
<1> QED BY <1>4, <1>5, <1>6, <1>7 DEF LedgerInductive

(* commit returns the error; the map and what was synced stay as they are. *)
LEMMA IoErrorStep == ASSUME LedgerInductive, IoError PROVE LedgerInductive'
<1>0. TypeOK /\ ClosedIsEmpty /\ FileWhole /\ ReceiptsAreOnDisk
  BY DEF LedgerInductive
<1>1. ioErrors \in Nat /\ ioErrors' # 0
  BY <1>0, LogAssumption DEF TypeOK, IoError
<1>2. TypeOK'
  BY <1>0, LogAssumption DEF TypeOK, IoError
<1>3. ReceiptsAreOnDisk'
  BY KeepsPrefix DEF IoError
<1>4. AppendUnderWay' /\ ClosedIsEmpty' /\ FileWhole'
  BY <1>1 DEF AppendUnderWay, ClosedIsEmpty, FileWhole, IoError
<1> QED BY <1>2, <1>3, <1>4 DEF LedgerInductive

(* Whatever of the unsynced tail is lost or torn, the synced records stay,   *)
(* and no record is there that was not written.                              *)
LEMMA CrashedFile ==
  ASSUME LedgerInductive, Crash
  PROVE  /\ log' \in Seq(Record) /\ Len(log') \in synced..Len(log)
         /\ \A i \in 1..synced : log'[i] = log[i]
         /\ \A i \in 1..Len(log') : log'[i].job = log[i].job /\ log'[i].report = log[i].report
<1>0. TypeOK
  BY DEF LedgerInductive
<1>1. /\ Len(log) \in Nat /\ synced \in 0..Len(log)
      /\ \A i \in 1..Len(log) : log[i] \in Record
  BY <1>0, RecordsOfLog DEF TypeOK
<1>2. PICK n \in synced..Len(log) :
         \/ log' = SubSeq(log, 1, n)
         \/ /\ n > synced
            /\ \E w \in 1..log[n].written :
                 log' = [SubSeq(log, 1, n) EXCEPT ![n].written = w]
  BY DEF Crash
<1> DEFINE kept == SubSeq(log, 1, n)
<1>3. kept \in Seq(Record) /\ Len(kept) = n /\ \A i \in 1..n : kept[i] = log[i]
  BY <1>0, <1>1, <1>2 DEF TypeOK
<1>4. CASE log' = kept
  BY <1>1, <1>2, <1>3, <1>4
<1>5. CASE /\ n > synced
           /\ \E w \in 1..log[n].written : log' = [kept EXCEPT ![n].written = w]
  <2>1. PICK w \in 1..log[n].written : log' = [kept EXCEPT ![n].written = w]
    BY <1>5
  <2> DEFINE rec == [log[n] EXCEPT !.written = w]
  <2>2. n \in 1..Len(log) /\ log[n] \in Record /\ log[n].written \in 1..Full
    BY <1>0, <1>1, <1>2, <1>5, RecordsOfLog
  <2>3. rec \in Record /\ rec.job = log[n].job /\ rec.report = log[n].report
    BY <2>1, <2>2, FullAssumption DEF Record
  <2> HIDE DEF kept
  <2>4. log' = [kept EXCEPT ![n] = rec]
    <3>1. kept[n] = log[n]
      BY <1>2, <1>3, <1>5, <2>2
    <3> QED BY <2>1, <3>1
  <2> HIDE DEF rec
  <2>5. log' \in Seq(Record) /\ Len(log') = n
        /\ \A i \in 1..n : log'[i] = IF i = n THEN rec ELSE kept[i]
    BY <1>3, <2>2, <2>3, <2>4
  <2>6. \A i \in 1..synced : log'[i] = log[i]
    BY <1>1, <1>2, <1>3, <1>5, <2>5
  <2>7. \A i \in 1..n : log'[i].job = log[i].job /\ log'[i].report = log[i].report
    BY <1>3, <2>3, <2>5
  <2> QED BY <1>2, <2>5, <2>6, <2>7
<1> QED BY <1>2, <1>4, <1>5 DEF kept

(* The map is gone after a crash, and the file keeps what was synced. *)
LEMMA CrashStep == ASSUME LedgerInductive, Crash PROVE LedgerInductive'
<1>0. TypeOK /\ FileWhole
  BY DEF LedgerInductive
<1>1. /\ Len(log) \in Nat /\ synced \in 0..Len(log)
      /\ phase' = "down" /\ receipts' = Missing
      /\ synced' = synced /\ acked' = acked /\ ioErrors' = ioErrors
  BY <1>0, RecordsOfLog DEF Crash, TypeOK
<1>2. /\ log' \in Seq(Record) /\ Len(log') \in synced..Len(log)
      /\ \A i \in 1..synced : log'[i] = log[i]
      /\ \A i \in 1..Len(log') : log'[i].job = log[i].job /\ log'[i].report = log[i].report
  BY CrashedFile
<1>3. TypeOK'
  BY <1>0, <1>1, <1>2 DEF TypeOK, Missing
<1>4. ReceiptsAreOnDisk' /\ AppendUnderWay' /\ ClosedIsEmpty'
  BY <1>1 DEF ReceiptsAreOnDisk, AppendUnderWay, ClosedIsEmpty, Missing
<1>5. FileWhole'
  <2> SUFFICES ASSUME ioErrors = 0 PROVE FileWhole'
    BY <1>1 DEF FileWhole
  <2>1. \A i \in 1..synced' : log'[i].written = Full
    BY <1>0, <1>1, <1>2 DEF FileWhole
  <2>2. Len(log') <= synced' + 1
    BY <1>0, <1>1, <1>2 DEF FileWhole
  <2>3. \A i, k \in 1..Len(log') : log'[i].job = log'[k].job => i = k
    BY <1>0, <1>1, <1>2 DEF FileWhole
  <2>4. \A m \in Jobs : acked'[m] # "missing" =>
           \E i \in 1..synced' : log'[i].job = m /\ log'[i].report = acked'[m]
    BY <1>0, <1>1, <1>2 DEF FileWhole
  <2> QED BY <1>1, <2>1, <2>2, <2>3, <2>4 DEF FileWhole
<1> QED BY <1>3, <1>4, <1>5 DEF LedgerInductive

(* Without a disk error nothing synced is cut off, so the map that is read   *)
(* has every acknowledged report.                                            *)
LEMMA OpenStep == ASSUME LedgerInductive, Open PROVE LedgerInductive'
<1>0. TypeOK /\ FileWhole
  BY DEF LedgerInductive
<1>1. /\ Len(log) \in Nat /\ synced \in 0..Len(log)
      /\ phase = "down" /\ phase' = "idle" /\ receipts' = ReadReceipts
      /\ log' = SubSeq(log, 1, Valid)
      /\ synced' = Valid /\ acked' = acked /\ ioErrors' = ioErrors
  BY <1>0, RecordsOfLog DEF Open, TypeOK
<1>2. /\ Valid \in 0..Len(log)
      /\ \A i \in 1..Valid : log[i].written = Full
      /\ Valid < Len(log) => log[Valid + 1].written < Full
  BY <1>0, ValidPrefix
<1>3. log' \in Seq(Record) /\ Len(log') = Valid /\ \A i \in 1..Valid : log'[i] = log[i]
  BY <1>0, <1>1, <1>2 DEF TypeOK
<1>4. \A j \in Jobs :
         /\ receipts'[j] \in Reports \cup {"missing"}
         /\ receipts'[j] # "missing" =>
              \E i \in 1..Valid : log[i].job = j /\ log[i].report = receipts'[j]
         /\ receipts'[j] = "missing" => \A i \in 1..Valid : log[i].job # j
  BY <1>0, <1>1, ReadFromFile
<1>5. TypeOK'
  <2>1. receipts' \in [Jobs -> Reports \cup {"missing"}]
    BY <1>1, <1>4 DEF ReadReceipts
  <2> QED BY <1>0, <1>1, <1>2, <1>3, <2>1 DEF TypeOK
<1>6. ReceiptsAreOnDisk'
  <2> SUFFICES ASSUME NEW j \in Jobs, receipts'[j] # "missing"
               PROVE  \E i \in 1..synced' :
                        log'[i] = [job |-> j, report |-> receipts'[j], written |-> Full]
    BY DEF ReceiptsAreOnDisk
  <2>1. PICK i \in 1..Valid : log[i].job = j /\ log[i].report = receipts'[j]
    BY <1>4
  <2>2. log[i] \in Record /\ log[i].written = Full
    BY <1>0, <1>1, <1>2, <2>1, RecordsOfLog
  <2>3. log[i] = [job |-> j, report |-> receipts'[j], written |-> Full]
    BY <2>1, <2>2 DEF Record
  <2> QED BY <1>1, <1>3, <2>1, <2>3
<1>7. AppendUnderWay' /\ ClosedIsEmpty'
  BY <1>1 DEF AppendUnderWay, ClosedIsEmpty
<1>8. FileWhole'
  <2> SUFFICES ASSUME ioErrors = 0 PROVE FileWhole'
    BY <1>1 DEF FileWhole
  <2>1. synced <= Valid
    <3>1. \A i \in 1..synced : log[i].written = Full
      BY <1>0 DEF FileWhole
    <3>2. CASE Valid < synced
      <4>1. Valid + 1 \in 1..synced
        BY <1>1, <1>2, <3>2
      <4> QED BY <1>1, <1>2, <3>1, <3>2, <4>1, FullAssumption
    <3> QED BY <1>1, <1>2, <3>2
  <2>2. \A i, k \in 1..Len(log') : log'[i].job = log'[k].job => i = k
    BY <1>0, <1>1, <1>2, <1>3 DEF FileWhole
  <2>3. \A m \in Jobs : acked'[m] # "missing" =>
           \E i \in 1..synced' : log'[i].job = m /\ log'[i].report = acked'[m]
    BY <1>0, <1>1, <1>2, <1>3, <2>1 DEF FileWhole
  <2>4. \A i \in 1..synced' : receipts'[log'[i].job] = log'[i].report
    <3> SUFFICES ASSUME NEW i \in 1..Valid PROVE receipts'[log[i].job] = log[i].report
      BY <1>1, <1>3
    <3>1. log[i].job \in Jobs
      BY <1>0, <1>1, <1>2, RecordsOfLog
    <3>2. receipts'[log[i].job] # "missing"
      BY <1>4, <3>1
    <3>3. PICK k \in 1..Valid : log[k].job = log[i].job
                               /\ log[k].report = receipts'[log[i].job]
      BY <1>4, <3>1, <3>2
    <3>4. k = i
      BY <1>0, <1>1, <1>2, <3>3 DEF FileWhole
    <3> QED BY <3>3, <3>4
  <2>5. \A i \in 1..synced' : log'[i].written = Full
    BY <1>1, <1>2, <1>3
  <2>6. Len(log') = synced' /\ Len(log') <= synced' + 1
    BY <1>1, <1>2, <1>3
  <2> QED BY <1>1, <2>2, <2>3, <2>4, <2>5, <2>6 DEF FileWhole
<1> QED BY <1>5, <1>6, <1>7, <1>8 DEF LedgerInductive

(* A ledger is refused only after a disk error: without one no two records   *)
(* are of the same job, and nothing follows a torn record.                   *)
LEMMA OpenRefusedStep == ASSUME LedgerInductive, OpenRefused PROVE LedgerInductive'
<1>0. TypeOK /\ ClosedIsEmpty /\ FileWhole
  BY DEF LedgerInductive
<1>1. /\ Len(log) \in Nat /\ synced \in 0..Len(log)
      /\ phase = "down" /\ phase' = "refused"
      /\ UNCHANGED <<log, synced, receipts, acked, ioErrors>>
  BY <1>0, RecordsOfLog DEF OpenRefused, TypeOK
<1>2. ioErrors # 0
  <2> SUFFICES ASSUME ioErrors = 0 PROVE FALSE
    OBVIOUS
  <2>1. /\ Valid \in 0..Len(log)
        /\ Valid < Len(log) => log[Valid + 1].written < Full
    BY <1>0, ValidPrefix
  <2>2. /\ \A i \in 1..synced : log[i].written = Full
        /\ Len(log) <= synced + 1
        /\ \A i, k \in 1..Len(log) : log[i].job = log[k].job => i = k
    BY <1>0 DEF FileWhole
  <2>3. ~Conflicting
    BY <1>1, <2>1, <2>2 DEF Conflicting
  <2>4. ~Misread
    <3> SUFFICES ASSUME Valid + 1 < Len(log) PROVE FALSE
      BY DEF Misread
    <3>1. Valid + 1 \in 1..synced
      BY <1>1, <2>1, <2>2
    <3> QED BY <2>1, <2>2, <3>1, FullAssumption
  <2> QED BY <2>3, <2>4 DEF OpenRefused
<1>3. TypeOK' /\ ClosedIsEmpty'
  BY <1>0, <1>1 DEF TypeOK, ClosedIsEmpty
<1>4. ReceiptsAreOnDisk' /\ AppendUnderWay'
  BY <1>0, <1>1 DEF ReceiptsAreOnDisk, AppendUnderWay, ClosedIsEmpty, Missing
<1>5. FileWhole'
  BY <1>1, <1>2 DEF FileWhole
<1> QED BY <1>3, <1>4, <1>5 DEF LedgerInductive

-----------------------------------------------------------------------------
(* Every step keeps the inductive invariant. *)
LEMMA LedgerStep == LedgerInductive /\ [Next]_vars => LedgerInductive'
<1> SUFFICES ASSUME LedgerInductive, [Next]_vars PROVE LedgerInductive'
  OBVIOUS
<1>1. CASE UNCHANGED vars
  BY <1>1 DEF vars, LedgerInductive, TypeOK, ReceiptsAreOnDisk, AppendUnderWay,
              ClosedIsEmpty, FileWhole, Last
<1>2. CASE \E j \in Jobs, r \in Reports : Commit(j, r)
  BY <1>2, CommitStep
<1>3. CASE Write
  BY <1>3, WriteStep
<1>4. CASE Sync
  BY <1>4, SyncStep
<1>5. CASE IoError
  BY <1>5, IoErrorStep
<1>6. CASE Crash
  BY <1>6, CrashStep
<1>7. CASE Open
  BY <1>7, OpenStep
<1>8. CASE OpenRefused
  BY <1>8, OpenRefusedStep
<1>9. CASE Refused
  BY <1>1, <1>9 DEF Refused
<1> QED BY <1>1, <1>2, <1>3, <1>4, <1>5, <1>6, <1>7, <1>8, <1>9 DEF Next

(* The inductive invariant holds in every reachable state: the file is whole *)
(* up to the append under way, and every receipt of the map is on disk.      *)
THEOREM LedgerInvariant == Spec => []LedgerInductive
  BY LedgerStart, LedgerStep, PTL DEF Spec

(* The map never runs ahead of the file, and without a disk error a report   *)
(* that commit acknowledged is found again after every crash, wherever in an *)
(* append it comes.                                                          *)
THEOREM LedgerDurable == Spec => []Durable
<1>1. LedgerInductive => Durable
  <2> SUFFICES ASSUME LedgerInductive PROVE Durable
    OBVIOUS
  <2>0. TypeOK /\ ReceiptsAreOnDisk /\ FileWhole
    BY DEF LedgerInductive
  <2>1. CrashSafe
    <3> SUFFICES ASSUME ioErrors = 0, NEW j \in Jobs, acked[j] # "missing"
                 PROVE  phase # "refused" /\ (phase # "down" => receipts[j] = acked[j])
      BY DEF CrashSafe, CommittedSurvives
    <3> QED BY <2>0 DEF FileWhole
  <2> QED BY <2>0, <2>1 DEF Durable
<1> QED BY <1>1, LedgerInvariant, PTL

(* commit never replaces the receipt of a job, nor does a reopened ledger:   *)
(* the map is emptied only when the process stops.                           *)
THEOREM ReceiptsFinal == Spec => NeverOverwritten
<1>1. LedgerInductive /\ [Next]_vars =>
        [\A j \in Jobs :
           receipts[j] # "missing" /\ phase' # "down" => receipts'[j] = receipts[j]]_vars
  <2> SUFFICES ASSUME LedgerInductive, Next, NEW j \in Jobs,
                      receipts[j] # "missing", phase' # "down"
               PROVE  receipts'[j] = receipts[j]
    OBVIOUS
  <2>0. TypeOK /\ AppendUnderWay /\ ClosedIsEmpty
    BY DEF LedgerInductive
  <2>1. phase \notin {"down", "refused"}
    BY <2>0 DEF ClosedIsEmpty, Missing
  <2>2. CASE Sync
    BY <2>0, <2>2 DEF Sync, AppendUnderWay, TypeOK
  <2>3. CASE \E i \in Jobs, r \in Reports : Commit(i, r)
    BY <2>3 DEF Commit
  <2>4. CASE Write \/ IoError
    BY <2>4 DEF Write, IoError
  <2> QED BY <2>1, <2>2, <2>3, <2>4 DEF Next, Crash, Open, OpenRefused, Refused
<1> QED BY <1>1, LedgerInvariant, PTL DEF Spec, NeverOverwritten
============================================================================
