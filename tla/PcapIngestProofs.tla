---------------------------- MODULE PcapIngestProofs ----------------------------
(***************************************************************************)
(* Proofs about PcapIngest for any capture and dump files, any bounds and  *)
(* any width of the positions.                                             *)
(***************************************************************************)
EXTENDS PcapIngest, TLAPS

\* The row of a capture file never says more than the file holds.
PositionInFile ==
    \A f \in Captures : position[f] = 0 \/ (0 < position[f] /\ position[f] <= written[f])

ReaderHasFile == /\ reader.step # "idle" => reader.file \in Files
                 /\ reader.step = "open" => reader.count = 0

\* While a capture file is read: what was counted has been read now or before; the
\* position it started from is still the stored one and is within the file; and it is
\* left at or beyond that position.
ReaderTruthful ==
    reader.step \in {"read", "save", "flush"} /\ reader.file \in Captures =>
        /\ \A n \in 1 .. MaxPackets : n <= reader.count => times[<<reader.file, n>>] > 0
        /\ reader.count <= written[reader.file]
        /\ reader.start <= reader.size
        /\ reader.size <= written[reader.file]
        /\ reader.step # "flush" => position[reader.file] = reader.start
        /\ reader.step = "save" => reader.count >= reader.start

IndInv == /\ TypeOK
          /\ PositionInFile
          /\ PositionTruthful
          /\ ReaderHasFile
          /\ ReaderTruthful

Readers == [file : Files \cup {NoFile},
            step : {"idle", "open", "read", "save", "flush"},
            start : -MaxInt - 1 .. MaxInt,
            count : 0 .. MaxPackets, size : 0 .. MaxPackets]

--------------------------------------------------------------------------------

LEMMA FileKinds == /\ Captures \subseteq Files /\ DumpFiles \subseteq Files
                   /\ \A f \in Captures : f \notin DumpFiles
                   /\ NoFile \notin Files
  BY PcapIngestAssumption DEF Files

LEMMA IdleReaders ==
  /\ Idle \in Readers
  /\ \A f \in Files : [Idle EXCEPT !.file = f, !.step = "open"] \in Readers
<1>1. 0 \in 0 .. MaxPackets /\ 0 \in -MaxInt - 1 .. MaxInt
  BY PcapIngestAssumption
<1> QED
  BY <1>1 DEF Idle, Readers

LEMMA EmitType ==
  ASSUME TypeOK, NEW W \in SUBSET Packets, Emit(W)
  PROVE  open' \subseteq Packets /\ flows' \in [Packets -> Nat]
  BY DEF TypeOK, Emit

LEMMA DumpTargets ==
  ASSUME TypeOK, NEW d \in DumpTarget
  PROVE  /\ d \in DumpFiles \cup {NoFile}
         /\ d # NoFile => d \in Files
<1>1. CASE DumpFiles = {}
  BY <1>1 DEF DumpTarget
<1>2. CASE DumpFiles # {}
  <2>1. PICK flushed \in DumpFlush : d \in IF flushed = NoFile THEN NewName ELSE {flushed}
    BY <1>2 DEF DumpTarget
  <2> QED
    BY <2>1, FileKinds DEF DumpFlush, NewName, TypeOK
<1> QED
  BY <1>1, <1>2

\* A dump concerns no capture file.
LEMMA DumpStep ==
  ASSUME TypeOK, NEW d \in DumpTarget, DumpPacket(d)
  PROVE  /\ written' \in [Files -> -1 .. MaxPackets]
         /\ position' \in [Files -> -MaxInt - 1 .. MaxInt]
         /\ \A f \in Captures : written'[f] = written[f] /\ position'[f] = position[f]
<1>1. d \notin Captures
  BY DumpTargets, FileKinds
<1>2. 1 \in -1 .. MaxPackets /\ MaxInt \in -MaxInt - 1 .. MaxInt
  BY PcapIngestAssumption
<1>3. \A f \in Captures : written'[f] = written[f] /\ position'[f] = position[f]
  BY <1>1, FileKinds DEF DumpPacket
<1> QED
  BY <1>2, <1>3 DEF DumpPacket, TypeOK

\* A capture file that starts within its length is skipped up to its position exactly.
LEMMA SkipExact ==
  ASSUME IndInv, Reading, reader.file \in Captures
  PROVE  Skipped <=> reader.count + 1 <= position[reader.file]
<1>1. /\ reader.start = position[reader.file]
      /\ reader.count \in Nat /\ written[reader.file] \in -1 .. MaxPackets
      /\ reader.start \in Int /\ reader.start <= MaxPackets
  BY FileKinds, PcapIngestAssumption
     DEF IndInv, TypeOK, Reading, ReaderTruthful, PositionInFile
<1>2. reader.start # MaxInt
  BY <1>1, PcapIngestAssumption
<1> QED
  BY <1>1, <1>2 DEF Skipped, Int64Succ

\* Steps that leave the rows, the files and what was read alone, but move the reader.
LEMMA IdleInv ==
  ASSUME IndInv, TypeOK', reader' = Idle, UNCHANGED <<disk, times>>
  PROVE  IndInv'
<1>1. PositionInFile' /\ PositionTruthful'
  BY DEF IndInv, PositionInFile, PositionTruthful, disk
<1>2. ReaderHasFile' /\ ReaderTruthful'
  BY DEF Idle, ReaderHasFile, ReaderTruthful
<1> QED
  BY <1>1, <1>2 DEF IndInv

LEMMA SameReaderInv ==
  ASSUME IndInv, TypeOK', UNCHANGED <<disk, times, reader>>
  PROVE  IndInv'
<1>1. PositionInFile' /\ PositionTruthful'
  BY DEF IndInv, PositionInFile, PositionTruthful, disk
<1>2. ReaderHasFile' /\ ReaderTruthful'
  BY DEF IndInv, ReaderHasFile, ReaderTruthful, disk
<1> QED
  BY <1>1, <1>2 DEF IndInv

--------------------------------------------------------------------------------

LEMMA InitInv == Init => IndInv
<1> SUFFICES ASSUME Init PROVE IndInv
  OBVIOUS
<1>1. reader \in Readers
  BY IdleReaders DEF Init
<1>2. -1 \in -1 .. MaxPackets /\ 0 \in -MaxInt - 1 .. MaxInt /\ 0 \in 0 .. MaxFaults
  BY PcapIngestAssumption
<1>3. TypeOK
  BY <1>1, <1>2 DEF Init, TypeOK, Readers
<1>4. PositionInFile /\ PositionTruthful
  BY FileKinds DEF Init, PositionInFile, PositionTruthful
<1>5. ReaderHasFile /\ ReaderTruthful
  BY DEF Init, Idle, ReaderHasFile, ReaderTruthful
<1> QED
  BY <1>3, <1>4, <1>5 DEF IndInv

LEMMA GrowInv ==
  ASSUME IndInv, NEW f \in Captures, Create(f) \/ Append(f)
  PROVE  IndInv'
<1> USE FileKinds DEF IndInv
<1>1. /\ f \in Files /\ written[f] \in -1 .. MaxPackets - 1
      /\ Grow(f)
  BY PcapIngestAssumption DEF Create, Append
<1>2. \A g \in Files : written'[g] \in -1 .. MaxPackets /\ written'[g] >= written[g]
  BY <1>1, PcapIngestAssumption DEF Grow, TypeOK
<1>3. TypeOK'
  BY <1>1, <1>2, PcapIngestAssumption DEF Grow, TypeOK, progress, signals
<1>4. PositionInFile'
  BY <1>1, <1>2 DEF Grow, TypeOK, PositionInFile
<1>5. PositionTruthful'
  BY <1>1 DEF Grow, PositionTruthful, progress
<1>6. ReaderHasFile'
  BY <1>1 DEF Grow, ReaderHasFile
<1>7. ReaderTruthful'
  BY <1>1, <1>2 DEF Grow, ReaderTruthful, TypeOK, progress
<1> QED
  BY <1>3, <1>4, <1>5, <1>6, <1>7

LEMMA DiesInv ==
  ASSUME IndInv, Dies, faults' \in 0 .. MaxFaults
  PROVE  IndInv'
<1>1. TypeOK'
  BY IdleReaders DEF IndInv, TypeOK, Dies, Forgets, Readers, disk
<1> QED
  BY <1>1, IdleInv DEF Dies, Forgets

\* Taking up a file that was listed or reported.
LEMMA TakeInv ==
  ASSUME IndInv, NEW f \in Files,
         reader' = [Idle EXCEPT !.file = f, !.step = "open"],
         todo' \subseteq Files, pending' \subseteq Files,
         UNCHANGED <<disk, main, progress, dump, signals, faults>>
  PROVE  IndInv'
<1>1. TypeOK'
  BY IdleReaders DEF IndInv, TypeOK, Readers, disk, progress, signals
<1>2. PositionInFile' /\ PositionTruthful'
  BY DEF IndInv, PositionInFile, PositionTruthful, disk, progress
<1>3. ReaderHasFile' /\ ReaderTruthful'
  BY DEF Idle, ReaderHasFile, ReaderTruthful
<1> QED
  BY <1>1, <1>2, <1>3 DEF IndInv

LEMMA OpenProcessInv ==
  ASSUME IndInv, OpenProcess
  PROVE  IndInv'
<1> USE FileKinds DEF IndInv
<1>1. reader.file \in Files
  BY DEF OpenProcess, ReaderHasFile
<1>2. open' \subseteq Packets /\ flows' \in [Packets -> Nat]
  BY EmitType DEF OpenProcess, TypeOK
<1>3. reader' \in Readers
  <2>1. written[reader.file] \in 0 .. MaxPackets
    BY <1>1 DEF OpenProcess, TypeOK
  <2> QED
    BY <1>1, <2>1 DEF OpenProcess, TypeOK, Readers
<1>4. dump' \in DumpFiles \cup {NoFile}
  BY DEF OpenProcess, TypeOK, DumpFlush
<1>5. TypeOK'
  BY <1>2, <1>3, <1>4 DEF OpenProcess, TypeOK, Readers, disk
<1>6. PositionInFile' /\ PositionTruthful'
  BY DEF OpenProcess, PositionInFile, PositionTruthful, disk
<1>7. ReaderHasFile'
  BY <1>1 DEF OpenProcess, ReaderHasFile, TypeOK
<1>8. ReaderTruthful'
  BY <1>1, PcapIngestAssumption
     DEF OpenProcess, ReaderHasFile, ReaderTruthful, TypeOK, PositionInFile, disk
<1> QED
  BY <1>5, <1>6, <1>7, <1>8

LEMMA SkipPacketInv ==
  ASSUME IndInv, SkipPacket
  PROVE  IndInv'
<1> USE FileKinds DEF IndInv
<1>1. reader.file \in Files /\ reader.step = "read"
  BY DEF SkipPacket, Reading, ReaderHasFile
<1>2. /\ reader.count \in 0 .. MaxPackets /\ written[reader.file] \in -1 .. MaxPackets
      /\ reader.count < written[reader.file]
  BY <1>1 DEF SkipPacket, Reading, TypeOK
<1>3. /\ reader'.file = reader.file /\ reader'.step = "read"
      /\ reader'.start = reader.start /\ reader'.size = reader.size
      /\ reader'.count = reader.count + 1
      /\ reader' \in Readers
  BY <1>1, <1>2, PcapIngestAssumption DEF SkipPacket, TypeOK, Readers
<1>4. TypeOK'
  BY <1>3 DEF SkipPacket, TypeOK, Readers, disk, progress, signals
<1>5. PositionInFile' /\ PositionTruthful'
  BY DEF SkipPacket, PositionInFile, PositionTruthful, disk, progress
<1>6. ReaderHasFile'
  BY <1>1, <1>3 DEF ReaderHasFile
<1>7. ReaderTruthful'
  <2> SUFFICES ASSUME reader.file \in Captures PROVE ReaderTruthful'
    BY <1>3 DEF ReaderTruthful
  <2>1. reader.count + 1 <= position[reader.file]
    BY SkipExact DEF SkipPacket
  <2>2. \A n \in 1 .. MaxPackets : n <= reader.count + 1 => times[<<reader.file, n>>] > 0
    BY <2>1, <1>2 DEF PositionTruthful, PositionInFile, TypeOK
  <2> QED
    BY <1>1, <1>2, <1>3, <2>2 DEF SkipPacket, ReaderTruthful, disk, progress
<1> QED
  BY <1>4, <1>5, <1>6, <1>7

\* A packet that is processed: it has been counted and was beyond the position.
LEMMA NextPacketInv ==
  ASSUME IndInv, NEW step \in {"read", "save"}, NextPacket(step),
         open' \subseteq Packets, flows' \in [Packets -> Nat],
         UNCHANGED <<main, todo, signals, faults>>
  PROVE  IndInv'
<1> USE FileKinds DEF IndInv
<1>1. reader.file \in Files /\ reader.step = "read"
  BY DEF NextPacket, Reading, ReaderHasFile
<1>2. /\ reader.count \in 0 .. MaxPackets /\ written[reader.file] \in -1 .. MaxPackets
      /\ reader.count < written[reader.file]
  BY <1>1 DEF NextPacket, Reading, TypeOK
<1>3. /\ reader'.file = reader.file /\ reader'.step = step
      /\ reader'.start = reader.start /\ reader'.size = reader.size
      /\ reader'.count = reader.count + 1
      /\ reader' \in Readers
  <2>1. reader' = [reader EXCEPT !.count = @ + 1, !.step = step]
    BY DEF NextPacket
  <2>2. reader \in Readers
    BY DEF TypeOK, Readers
  <2>3. reader.count + 1 \in 0 .. MaxPackets
    BY <1>2, PcapIngestAssumption
  <2>4. /\ reader'.file = reader.file /\ reader'.step = step
        /\ reader'.start = reader.start /\ reader'.size = reader.size
        /\ reader'.count = reader.count + 1
    BY <2>1, <2>2 DEF Readers
  <2>5. reader' \in Readers
    BY <2>1, <2>2, <2>3 DEF Readers
  <2> QED
    BY <2>4, <2>5
<1>4. ThisPacket \in Packets
  BY <1>1, <1>2, PcapIngestAssumption DEF ThisPacket, Packets
<1>5. /\ times' \in [Packets -> Nat]
      /\ \A p \in Packets : times'[p] >= times[p]
      /\ times'[ThisPacket] > 0
  BY <1>4 DEF NextPacket, TypeOK
<1>6. PICK d \in DumpTarget :
         /\ DumpPacket(d) /\ dump' = d
         /\ pending' = IF d # NoFile /\ DumpWatched /\ main = "watch"
                         THEN pending \cup {d} ELSE pending
  BY DEF NextPacket
<1>7. /\ written' \in [Files -> -1 .. MaxPackets]
      /\ position' \in [Files -> -MaxInt - 1 .. MaxInt]
      /\ dump' \in DumpFiles \cup {NoFile}
      /\ pending' \subseteq Files
      /\ \A f \in Captures : written'[f] = written[f] /\ position'[f] = position[f]
  <2>1. d \in DumpFiles \cup {NoFile} /\ (d # NoFile => d \in Files)
    BY DumpTargets
  <2>2. dump' \in DumpFiles \cup {NoFile} /\ pending' \subseteq Files
    BY <1>6, <2>1 DEF TypeOK
  <2> QED
    BY <1>6, <2>2, DumpStep
<1>8. TypeOK'
  BY <1>3, <1>5, <1>7 DEF TypeOK, Readers, signals
<1>9. PositionInFile'
  BY <1>7 DEF PositionInFile
<1>10. \A f \in Captures, n \in 1 .. MaxPackets :
          /\ <<f, n>> \in Packets /\ times[<<f, n>>] \in Nat
          /\ times[<<f, n>>] > 0 => times'[<<f, n>>] > 0
  <2>1. \A f \in Captures, n \in 1 .. MaxPackets : <<f, n>> \in Packets
    BY DEF Packets
  <2>2. times \in [Packets -> Nat]
    BY DEF TypeOK
  <2>3. \A p \in Packets : times[p] \in Nat /\ (times[p] > 0 => times'[p] > 0)
    BY <2>2, <1>5
  <2> QED
    BY <2>1, <2>3
<1>11. PositionTruthful'
  BY <1>7, <1>10 DEF PositionTruthful
<1>12. ReaderHasFile'
  BY <1>1, <1>3 DEF ReaderHasFile
<1>13. ReaderTruthful'
  <2> SUFFICES ASSUME reader.file \in Captures PROVE ReaderTruthful'
    BY <1>3 DEF ReaderTruthful
  <2>1. ~(reader.count + 1 <= position[reader.file])
    BY SkipExact DEF NextPacket
  <2>2. \A n \in 1 .. MaxPackets : n <= reader.count + 1 => times'[<<reader.file, n>>] > 0
    <3> TAKE n \in 1 .. MaxPackets
    <3>1. CASE n = reader.count + 1
      BY <3>1, <1>5 DEF ThisPacket
    <3>2. CASE n <= reader.count
      BY <3>2, <1>1, <1>10 DEF ReaderTruthful
    <3> QED
      BY <3>1, <3>2, <1>2
  <2>3. /\ reader.start <= reader.size /\ reader.size <= written[reader.file]
        /\ position[reader.file] = reader.start /\ reader.start \in Int
    BY <1>1 DEF ReaderTruthful, TypeOK
  <2> QED
    BY <1>2, <1>3, <1>7, <2>1, <2>2, <2>3 DEF ReaderTruthful
<1> QED
  BY <1>8, <1>9, <1>11, <1>12, <1>13

\* The packet that ends the process was counted and dumped.
LEMMA DefragFailsInv ==
  ASSUME IndInv, DefragFails
  PROVE  IndInv'
<1> USE FileKinds DEF IndInv
<1>1. /\ Forgets /\ faults' = faults
      /\ times' = [times EXCEPT ![ThisPacket] = @ + 1]
  BY DEF DefragFails
<1>2. PICK d \in DumpTarget : DumpPacket(d)
  BY DEF DefragFails
<1>3. /\ written' \in [Files -> -1 .. MaxPackets]
      /\ position' \in [Files -> -MaxInt - 1 .. MaxInt]
      /\ \A f \in Captures : written'[f] = written[f] /\ position'[f] = position[f]
  BY <1>2, DumpStep
<1>4. times' \in [Packets -> Nat] /\ \A p \in Packets : times[p] > 0 => times'[p] > 0
  <2>1. times \in [Packets -> Nat] /\ \A p \in Packets : times[p] \in Nat
    BY DEF TypeOK
  <2>2. ThisPacket \in Packets
    BY FileKinds, PcapIngestAssumption DEF DefragFails, Packets
  <2>3. times[ThisPacket] + 1 \in Nat /\ times[ThisPacket] + 1 > 0
    BY <2>1, <2>2
  <2> HIDE DEF IndInv
  <2> QED
    BY <1>1, <2>1, <2>2, <2>3
<1>5. TypeOK'
  BY <1>1, <1>3, <1>4, IdleReaders DEF TypeOK, Forgets, Readers
<1>6. PositionInFile'
  BY <1>3 DEF PositionInFile
<1>7. PositionTruthful'
  BY <1>3, <1>4 DEF PositionTruthful, Packets
<1>8. ReaderHasFile' /\ ReaderTruthful'
  BY <1>1 DEF Forgets, Idle, ReaderHasFile, ReaderTruthful
<1> QED
  BY <1>5, <1>6, <1>7, <1>8

\* A step from the packets to the position, or past it without an update.
LEMMA EndOfFileInv ==
  ASSUME IndInv, EndOfFile
  PROVE  IndInv'
<1> USE FileKinds DEF IndInv
<1>1. /\ reader.step = "read" /\ reader.count \in Nat /\ reader.size \in Nat
      /\ reader.start \in Int /\ reader.count >= reader.size
      /\ reader' \in Readers
      /\ reader' = [reader EXCEPT !.step = "save"]
  BY DEF EndOfFile, TypeOK, Readers
<1>2. /\ reader'.file = reader.file /\ reader'.step = "save"
      /\ reader'.start = reader.start /\ reader'.size = reader.size
      /\ reader'.count = reader.count
  BY <1>1 DEF TypeOK
<1>3. TypeOK'
  BY <1>1 DEF EndOfFile, TypeOK, Readers, disk, progress, signals
<1>4. PositionInFile' /\ PositionTruthful'
  BY DEF EndOfFile, PositionInFile, PositionTruthful, disk, progress
<1>5. ReaderHasFile'
  BY <1>1, <1>2 DEF ReaderHasFile
<1>6. ReaderTruthful'
  BY <1>1, <1>2 DEF EndOfFile, ReaderTruthful, disk, progress
<1> QED
  BY <1>3, <1>4, <1>5, <1>6

LEMMA SavePositionInv ==
  ASSUME IndInv, SavePosition
  PROVE  IndInv'
<1> USE FileKinds DEF IndInv
<1>1. /\ reader.step = "save" /\ reader.file \in Files
      /\ reader.count \in 0 .. MaxPackets /\ reader' \in Readers
      /\ reader.count \in -MaxInt - 1 .. MaxInt
      /\ reader' = [reader EXCEPT !.step = "flush"]
      /\ position' = [position EXCEPT ![reader.file] = reader.count]
  BY PcapIngestAssumption DEF SavePosition, TypeOK, ReaderHasFile, Readers
<1>2. /\ reader'.file = reader.file /\ reader'.step = "flush"
      /\ reader'.start = reader.start /\ reader'.size = reader.size
      /\ reader'.count = reader.count
  BY <1>1 DEF TypeOK
<1>3. TypeOK'
  BY <1>1 DEF SavePosition, TypeOK, Readers, progress, signals
<1>4. \A f \in Captures :
         position'[f] = IF f = reader.file THEN reader.count ELSE position[f]
  BY <1>1 DEF TypeOK
<1>5. PositionInFile'
  BY <1>1, <1>4 DEF SavePosition, PositionInFile, ReaderTruthful
<1>6. PositionTruthful'
  BY <1>1, <1>4 DEF SavePosition, PositionTruthful, ReaderTruthful, progress
<1>7. ReaderHasFile'
  BY <1>1, <1>2 DEF ReaderHasFile
<1>8. ReaderTruthful'
  BY <1>1, <1>2 DEF SavePosition, ReaderTruthful, progress
<1> QED
  BY <1>3, <1>5, <1>6, <1>7, <1>8

LEMMA SavePositionFailsInv ==
  ASSUME IndInv, SavePositionFails
  PROVE  IndInv'
<1> USE FileKinds DEF IndInv
<1>1. /\ reader.step = "save" /\ reader' \in Readers
      /\ reader' = [reader EXCEPT !.step = "flush"]
      /\ faults' \in 0 .. MaxFaults
  BY PcapIngestAssumption DEF SavePositionFails, TypeOK, Readers
<1>2. /\ reader'.file = reader.file /\ reader'.step = "flush"
      /\ reader'.start = reader.start /\ reader'.size = reader.size
      /\ reader'.count = reader.count
  BY <1>1 DEF TypeOK
<1>3. TypeOK'
  BY <1>1 DEF SavePositionFails, TypeOK, Readers, disk, progress, signals
<1>4. PositionInFile' /\ PositionTruthful'
  BY DEF SavePositionFails, PositionInFile, PositionTruthful, disk, progress
<1>5. ReaderHasFile'
  BY <1>1, <1>2 DEF ReaderHasFile
<1>6. ReaderTruthful'
  BY <1>1, <1>2 DEF SavePositionFails, ReaderTruthful, disk, progress
<1> QED
  BY <1>3, <1>4, <1>5, <1>6

LEMMA FinishInv ==
  ASSUME IndInv, Finish
  PROVE  IndInv'
<1>1. open' \subseteq Packets /\ flows' \in [Packets -> Nat]
  BY EmitType DEF IndInv, Finish, TypeOK
<1>2. TypeOK'
  BY <1>1, IdleReaders DEF IndInv, Finish, TypeOK, Readers, disk, signals
<1> QED
  BY <1>2, IdleInv DEF Finish, disk

LEMMA StepInv == IndInv /\ [Next]_vars => IndInv'
<1> SUFFICES ASSUME IndInv, [Next]_vars PROVE IndInv'
  OBVIOUS
<1>1. CASE Start \/ ReadDir \/ WatcherAdd
  <2>1. TypeOK'
    BY <1>1, FileKinds
       DEF IndInv, TypeOK, Start, ReadDir, WatcherAdd, disk, progress, signals
  <2> QED
    BY <1>1, <2>1, SameReaderInv DEF Start, ReadDir, WatcherAdd, disk, progress
<1>2. CASE WatcherStopped
  BY <1>2, DiesInv DEF WatcherStopped, IndInv, TypeOK
<1>3. CASE Crash
  <2>1. faults' \in 0 .. MaxFaults
    BY <1>3, PcapIngestAssumption DEF Crash, IndInv, TypeOK
  <2> QED
    BY <1>3, <2>1, DiesInv DEF Crash
<1>4. CASE OpenFails
  <2>1. TypeOK'
    BY <1>4, IdleReaders DEF IndInv, TypeOK, Readers, OpenFails, disk, progress, signals
  <2> QED
    BY <1>4, <2>1, IdleInv DEF OpenFails, disk, progress
<1>5. CASE Interrupt
  <2>1. TypeOK'
    BY <1>5 DEF IndInv, TypeOK, Interrupt, disk, progress
  <2> QED
    BY <1>5, <2>1, SameReaderInv DEF Interrupt, disk, progress
<1>6. CASE OpenProcess
  BY <1>6, OpenProcessInv
<1>7. CASE SkipPacket
  BY <1>7, SkipPacketInv
<1>8. CASE IgnorePacket
  BY <1>8, NextPacketInv DEF IgnorePacket, IndInv, TypeOK
<1>9. CASE AssemblePacket
  <2>1. reader.file \in Files /\ reader.count + 1 \in 1 .. MaxPackets
    BY <1>9, FileKinds, PcapIngestAssumption
       DEF AssemblePacket, NextPacket, Reading, IndInv, ReaderHasFile, TypeOK
  <2>2. open \cup {ThisPacket} \in SUBSET Packets
    BY <2>1 DEF IndInv, TypeOK, ThisPacket, Packets
  <2>3. open' \subseteq Packets /\ flows' \in [Packets -> Nat]
    BY <1>9, <2>2, EmitType DEF AssemblePacket, IndInv
  <2> QED
    BY <1>9, <2>3, NextPacketInv DEF AssemblePacket
<1>10. CASE EndOfFile
  BY <1>10, EndOfFileInv
<1>11. CASE SavePosition
  BY <1>11, SavePositionInv
<1>12. CASE SavePositionFails
  BY <1>12, SavePositionFailsInv
<1>13. CASE Finish
  BY <1>13, FinishInv
<1>14. CASE \E f \in Captures : Create(f) \/ Append(f)
  BY <1>14, GrowInv
<1>15. CASE \E f \in Files : HandleListed(f) \/ HandleEvent(f)
  <2>1. PICK f \in Files : HandleListed(f) \/ HandleEvent(f)
    BY <1>15
  <2> QED
    BY <2>1, TakeInv DEF HandleListed, HandleEvent, IndInv, TypeOK
<1>16. CASE UNCHANGED vars
  <2>1. TypeOK'
    BY <1>16 DEF IndInv, TypeOK, vars
  <2> QED
    BY <1>16, <2>1, SameReaderInv DEF vars, disk
<1>17. CASE DefragFails
  BY <1>17, DefragFailsInv
<1> QED
  BY <1>1, <1>2, <1>3, <1>4, <1>5, <1>6, <1>7, <1>8, <1>9, <1>10, <1>11, <1>12, <1>13,
     <1>14, <1>15, <1>16, <1>17 DEF Next, Process

THEOREM SpecInv == Spec => []IndInv
  BY InitInv, StepInv, PTL DEF Spec

--------------------------------------------------------------------------------
(* Exactly once: how often a packet of a capture was read and where it is. *)

\* How much of file f was read: what its row says, or what the reader has counted beyond.
Seen(f) == IF /\ reader.step \in {"read", "save"} /\ reader.file = f
              /\ reader.count > position[f]
             THEN reader.count ELSE position[f]

Once(f, n) == /\ times[<<f, n>>] = IF n <= Seen(f) THEN 1 ELSE 0
              /\ n \notin Fragments => Holders(<<f, n>>) = times[<<f, n>>]

Calm == faults = 0 /\ ~interrupted /\ ~Poisoned

OnceInv == Calm => ~stop /\ \A f \in Captures, n \in 1 .. MaxPackets : Once(f, n)

LEMMA CapturePackets == \A f \in Captures, n \in 1 .. MaxPackets : <<f, n>> \in Packets
  BY FileKinds DEF Packets

\* A flush moves packets from the assemblers to the flows and loses or doubles none.
LEMMA EmitKeeps ==
  ASSUME TypeOK, NEW W \in SUBSET Packets, Emit(W), NEW p \in Packets
  PROVE  Holders(p)' = flows[p] + (IF p \in W THEN 1 ELSE 0)
<1>1. PICK S \in SUBSET W :
         /\ open' = W \ S
         /\ flows' = [q \in Packets |-> IF q \in S THEN flows[q] + 1 ELSE flows[q]]
  BY DEF Emit
<1>2. flows[p] \in Nat /\ flows'[p] = IF p \in S THEN flows[p] + 1 ELSE flows[p]
  BY <1>1 DEF TypeOK
<1> QED
  BY <1>1, <1>2 DEF Holders

\* Steps that process no packet.
LEMMA OnceSame ==
  ASSUME OnceInv, Calm' => Calm /\ stop' = stop, times' = times,
         \A f \in Captures : Seen(f)' = Seen(f),
         \A p \in Packets : Holders(p)' = Holders(p)
  PROVE  OnceInv'
<1> SUFFICES ASSUME Calm' PROVE ~stop' /\ \A f \in Captures, n \in 1 .. MaxPackets : Once(f, n)'
  BY DEF OnceInv
<1>1. ~stop' /\ \A f \in Captures, n \in 1 .. MaxPackets : Once(f, n)
  BY DEF OnceInv
<1> QED
  BY <1>1, CapturePackets DEF Once

\* A packet that is processed was not seen before; open' and flows' as the step leaves them.
LEMMA OnceNext ==
  ASSUME IndInv, OnceInv, NEW step \in {"read", "save"}, NextPacket(step),
         UNCHANGED <<main, todo, signals, faults>>,
         \A p \in Packets : Holders(p)' = flows[p] + (IF p \in open \/ (p = ThisPacket /\ reader.count + 1 \notin Fragments)
                                                       THEN 1 ELSE 0)
  PROVE  OnceInv'
<1> SUFFICES ASSUME Calm' PROVE ~stop' /\ \A f \in Captures, n \in 1 .. MaxPackets : Once(f, n)'
  BY DEF OnceInv
<1>1. /\ Calm /\ ~stop' /\ \A f \in Captures, n \in 1 .. MaxPackets : Once(f, n)
  <2>1. ~Poisoned
    <3> SUFFICES ASSUME NEW p \in Malformed PROVE ~(times[p] > 0)
      BY DEF Poisoned
    <3>1. p \in Packets /\ times \in [Packets -> Nat]
      BY FileKinds, PcapIngestAssumption DEF Packets, IndInv, TypeOK
    <3>2. times' = [times EXCEPT ![ThisPacket] = @ + 1]
      BY DEF NextPacket
    <3>3. ~(times'[p] > 0)
      BY DEF Calm, Poisoned
    <3> QED
      BY <3>1, <3>2, <3>3
  <2> QED
    BY <2>1 DEF OnceInv, Calm, signals
<1>2. /\ reader.step = "read" /\ Reading /\ ~Skipped
      /\ reader' = [reader EXCEPT !.count = @ + 1, !.step = step]
      /\ times' = [times EXCEPT ![ThisPacket] = @ + 1]
  BY DEF NextPacket, Reading
<1>3. \A f \in Captures : position'[f] = position[f]
  <2>1. PICK d \in DumpTarget : DumpPacket(d)
    BY DEF NextPacket
  <2> QED
    BY <2>1, DumpStep DEF IndInv
<1>4. /\ reader'.file = reader.file /\ reader'.count = reader.count + 1 /\ reader'.step = step
      /\ reader.count \in Nat /\ times \in [Packets -> Nat] /\ flows \in [Packets -> Nat]
  BY <1>2 DEF IndInv, TypeOK
<1> SUFFICES ASSUME NEW f \in Captures, NEW n \in 1 .. MaxPackets PROVE Once(f, n)'
  BY <1>1
<1>5. <<f, n>> \in Packets /\ position[f] \in Int /\ Once(f, n)
  BY <1>1, CapturePackets, FileKinds DEF IndInv, TypeOK
<1>6. CASE f = reader.file
  <2>1. position[f] <= reader.count /\ Seen(f) = reader.count
    BY <1>2, <1>4, <1>5, <1>6, SkipExact DEF Seen
  <2>2. Seen(f)' = reader.count + 1
    BY <1>3, <1>4, <1>5, <1>6, <2>1 DEF Seen
  <2>3. CASE n = reader.count + 1
    <3>1. ThisPacket = <<f, n>> /\ times[<<f, n>>] = 0 /\ times'[<<f, n>>] = 1
      BY <1>2, <1>4, <1>5, <1>6, <2>1, <2>3 DEF ThisPacket, Once
    <3>2. n \notin Fragments => flows[<<f, n>>] = 0 /\ <<f, n>> \notin open
      BY <1>4, <1>5, <3>1 DEF Once, Holders
    <3>3. n \notin Fragments => Holders(<<f, n>>)' = 1
      BY <1>5, <2>3, <3>1, <3>2
    <3> QED
      BY <2>2, <2>3, <3>1, <3>3 DEF Once
  <2>4. CASE n # reader.count + 1
    <3>1. ThisPacket # <<f, n>> /\ times'[<<f, n>>] = times[<<f, n>>]
      BY <1>2, <1>4, <1>5, <2>4 DEF ThisPacket
    <3>2. Holders(<<f, n>>)' = Holders(<<f, n>>)
      BY <1>5, <3>1 DEF Holders
    <3>3. (n <= reader.count + 1) <=> (n <= reader.count)
      BY <1>4, <2>4
    <3> QED
      BY <1>5, <2>1, <2>2, <3>1, <3>2, <3>3 DEF Once
  <2> QED
    BY <2>3, <2>4
<1>7. CASE f # reader.file
  <2>1. ThisPacket # <<f, n>> /\ times'[<<f, n>>] = times[<<f, n>>]
    BY <1>2, <1>4, <1>5, <1>7 DEF ThisPacket
  <2>2. Holders(<<f, n>>)' = Holders(<<f, n>>)
    BY <1>5, <2>1 DEF Holders
  <2>3. Seen(f)' = Seen(f)
    BY <1>3, <1>4, <1>7 DEF Seen
  <2> QED
    BY <1>5, <2>1, <2>2, <2>3 DEF Once
<1> QED
  BY <1>6, <1>7

LEMMA InitOnce == Init => OnceInv
<1> SUFFICES ASSUME Init PROVE ~stop /\ \A f \in Captures, n \in 1 .. MaxPackets : Once(f, n)
  BY DEF OnceInv
<1>1. ASSUME NEW f \in Captures, NEW n \in 1 .. MaxPackets PROVE Once(f, n)
  <2>1. Seen(f) = 0 /\ ~(n <= 0)
    BY FileKinds DEF Init, Idle, Seen
  <2>2. times[<<f, n>>] = 0 /\ flows[<<f, n>>] = 0 /\ <<f, n>> \notin open
    BY CapturePackets DEF Init
  <2> QED
    BY <2>1, <2>2 DEF Once, Holders
<1> QED
  BY <1>1 DEF Init

LEMMA NextOnce == IndInv /\ OnceInv /\ [Next]_vars => OnceInv'
<1> SUFFICES ASSUME IndInv, OnceInv, [Next]_vars PROVE OnceInv'
  OBVIOUS
<1>0. open \in SUBSET Packets /\ TypeOK
  BY DEF IndInv, TypeOK
<1>1. CASE \/ Start \/ ReadDir \/ WatcherAdd
           \/ (\E f \in Captures : Create(f) \/ Append(f)) \/ UNCHANGED vars
  <2>1. UNCHANGED <<times, reader, position, open, flows, faults, interrupted, stop>>
    BY <1>1 DEF Start, ReadDir, WatcherAdd, Create, Append, Grow, vars, disk, progress, signals
  <2> QED
    BY <2>1, OnceSame DEF Seen, Holders, Calm, Poisoned
<1>2. CASE Crash \/ WatcherStopped \/ Interrupt \/ SavePositionFails
  <2>1. CASE ~Poisoned'
    <3>1. ~Poisoned
      BY <1>2, <2>1 DEF Crash, WatcherStopped, Dies, Interrupt, SavePositionFails, progress, Poisoned
    <3>2. ~Calm'
      BY <1>2, <3>1 DEF Crash, WatcherStopped, Dies, Forgets, Interrupt, SavePositionFails, signals,
                        OnceInv, Calm, IndInv, TypeOK
    <3> QED
      BY <3>2 DEF OnceInv
  <2>2. CASE Poisoned'
    BY <2>2 DEF OnceInv, Calm
  <2> QED
    BY <2>1, <2>2
<1>3. CASE OpenFails \/ \E f \in Files : HandleListed(f) \/ HandleEvent(f)
  <2>1. /\ UNCHANGED <<times, position, open, flows, faults, interrupted, stop>>
        /\ reader.step \notin {"read", "save"} /\ reader'.step \notin {"read", "save"}
    <3>1. /\ Idle.step = "idle"
          /\ \A f \in Files : [Idle EXCEPT !.file = f, !.step = "open"].step = "open"
      BY DEF Idle
    <3>2. CASE OpenFails
      BY <3>1, <3>2 DEF OpenFails, disk, progress, signals
    <3>3. CASE \E f \in Files : HandleListed(f) \/ HandleEvent(f)
      BY <3>1, <3>3 DEF HandleListed, HandleEvent, disk, progress, signals
    <3> QED
      BY <1>3, <3>2, <3>3
  <2> QED
    BY <2>1, OnceSame DEF Seen, Holders, Calm, Poisoned
<1>4. CASE OpenProcess
  <2>1. /\ UNCHANGED <<times, position, faults, interrupted, stop>> /\ Emit(open)
        /\ reader.step = "open" /\ reader'.count = 0 /\ position \in [Files -> Int]
    BY <1>4 DEF OpenProcess, disk, IndInv, TypeOK, ReaderHasFile
  <2>2. \A f \in Captures : position[f] >= 0 /\ position[f] \in Int
    BY <2>1, FileKinds DEF IndInv, PositionInFile
  <2>3. \A f \in Captures : Seen(f)' = Seen(f)
    BY <2>1, <2>2 DEF Seen
  <2>4. \A p \in Packets : Holders(p)' = Holders(p)
    BY <1>0, <2>1, EmitKeeps DEF Holders
  <2> QED
    BY <2>1, <2>3, <2>4, OnceSame DEF Calm, Poisoned
<1>5. CASE SkipPacket
  <2>1. /\ UNCHANGED <<times, position, open, flows, faults, interrupted, stop>>
        /\ Reading /\ Skipped /\ reader.step = "read"
        /\ reader' = [reader EXCEPT !.count = @ + 1]
    BY <1>5 DEF SkipPacket, Reading, disk, progress, signals
  <2>2. /\ reader'.file = reader.file /\ reader'.count = reader.count + 1 /\ reader'.step = "read"
        /\ reader.count \in Nat /\ position \in [Files -> Int]
    BY <2>1 DEF IndInv, TypeOK
  <2>3. \A f \in Captures : Seen(f)' = Seen(f)
    BY <2>1, <2>2, SkipExact, FileKinds DEF Seen
  <2> QED
    BY <2>1, <2>3, OnceSame DEF Holders, Calm, Poisoned
<1>6. CASE IgnorePacket
  <2>1. /\ reader.count + 1 \in Fragments /\ NextPacket("read")
        /\ UNCHANGED <<main, todo, open, flows, signals, faults>>
    BY <1>6 DEF IgnorePacket
  <2>2. \A p \in Packets : Holders(p)' = flows[p] + (IF p \in open THEN 1 ELSE 0)
    BY <2>1 DEF Holders
  <2> QED
    BY <2>1, <2>2, OnceNext
<1>7. CASE AssemblePacket
  <2>1. /\ reader.count + 1 \notin Fragments /\ Emit(open \cup {ThisPacket})
        /\ NextPacket(IF sig THEN "save" ELSE "read") /\ UNCHANGED <<main, todo, signals, faults>>
    BY <1>7 DEF AssemblePacket
  <2>2. reader.file \in Files /\ reader.count + 1 \in 1 .. MaxPackets
    BY <2>1, FileKinds, PcapIngestAssumption DEF NextPacket, Reading, IndInv, ReaderHasFile, TypeOK
  <2>3. open \cup {ThisPacket} \in SUBSET Packets
    BY <1>0, <2>2 DEF ThisPacket, Packets
  <2>4. \A p \in Packets : Holders(p)' = flows[p] + (IF p \in open \cup {ThisPacket} THEN 1 ELSE 0)
    BY <1>0, <2>1, <2>3, EmitKeeps
  <2> QED
    BY <2>1, <2>4, OnceNext
<1>8. CASE EndOfFile
  <2>1. /\ UNCHANGED <<times, position, open, flows, faults, interrupted, stop>>
        /\ reader.step = "read" /\ reader' = [reader EXCEPT !.step = "save"]
    BY <1>8 DEF EndOfFile, disk, progress, signals
  <2>2. reader'.file = reader.file /\ reader'.count = reader.count /\ reader'.step = "save"
    BY <2>1 DEF IndInv, TypeOK
  <2> QED
    BY <2>1, <2>2, OnceSame DEF Seen, Holders, Calm, Poisoned
<1>9. CASE SavePosition
  <2>1. /\ UNCHANGED <<times, open, flows, faults, interrupted, stop>>
        /\ reader.step = "save" /\ reader' = [reader EXCEPT !.step = "flush"]
        /\ position' = [position EXCEPT ![reader.file] = reader.count]
    BY <1>9 DEF SavePosition, progress, signals
  <2>2. reader'.step = "flush" /\ reader.count \in Nat /\ position \in [Files -> Int]
        /\ reader.file \in Files
    BY <2>1 DEF IndInv, TypeOK, ReaderHasFile
  <2>3. reader.file \in Captures => position[reader.file] <= reader.count
    BY <2>1, <2>2 DEF IndInv, ReaderTruthful
  <2>4. \A f \in Captures : Seen(f)' = Seen(f)
    BY <2>1, <2>2, <2>3, FileKinds DEF Seen
  <2> QED
    BY <2>1, <2>4, OnceSame DEF Holders, Calm, Poisoned
<1>10. CASE Finish
  <2>1. /\ UNCHANGED <<times, position, faults, interrupted, stop>> /\ Emit(open)
        /\ reader.step = "flush" /\ reader'.step = "idle"
    BY <1>10 DEF Finish, disk, signals, Idle
  <2>2. \A p \in Packets : Holders(p)' = Holders(p)
    BY <1>0, <2>1, EmitKeeps DEF Holders
  <2> QED
    BY <2>1, <2>2, OnceSame DEF Seen, Calm, Poisoned
<1>11. CASE DefragFails
  <2>1. ThisPacket \in Malformed /\ ThisPacket \in Packets
    BY <1>11, FileKinds, PcapIngestAssumption DEF DefragFails, Packets
  <2>2. times'[ThisPacket] > 0
    BY <1>11, <2>1 DEF DefragFails, IndInv, TypeOK
  <2>3. Poisoned'
    BY <2>1, <2>2 DEF Poisoned
  <2> QED
    BY <2>3 DEF OnceInv, Calm
<1> QED
  BY <1>1, <1>2, <1>3, <1>4, <1>5, <1>6, <1>7, <1>8, <1>9, <1>10, <1>11 DEF Next, Process

--------------------------------------------------------------------------------
(* What was reported is not lost sight of. *)

\* A packet in a file is in sight when it was processed or something the process still has
\* to do leads to it: the listing after a restart, the rest of that listing, an event, or
\* a reading under way that was opened when the packet was there.
InSight(f, n) ==
    /\ n <= written[f]
    /\ \/ times[<<f, n>>] > 0
       \/ main \in {"down", "start"}
       \/ main = "scan" /\ f \in todo
       \/ main = "watch" /\ f \in pending
       \/ reader.file = f /\ (reader.step = "open" \/ (reader.step = "read" /\ n <= reader.size))

\* Signals come from an interrupt, events from a watch.
SignalInv == /\ sig \/ stop => interrupted
             /\ pending # {} => main = "watch"

LEMMA SignalInit == Init => SignalInv
  BY DEF Init, SignalInv

LEMMA SignalNext == SignalInv /\ [Next]_vars => SignalInv'
<1> SUFFICES ASSUME SignalInv, [Next]_vars PROVE SignalInv'
  OBVIOUS
<1>1. CASE IgnorePacket \/ AssemblePacket
  <2>2. UNCHANGED <<main, signals>>
    BY <1>1 DEF IgnorePacket, AssemblePacket
  <2>3. pending' = pending \/ main = "watch"
    BY <1>1 DEF IgnorePacket, AssemblePacket, NextPacket
  <2> QED
    BY <2>2, <2>3 DEF SignalInv, signals
<1>2. CASE Crash \/ WatcherStopped \/ DefragFails
  BY <1>2 DEF SignalInv, Crash, WatcherStopped, DefragFails, Dies, Forgets
<1>3. CASE Start \/ ReadDir \/ WatcherAdd
  BY <1>3 DEF SignalInv, Start, ReadDir, WatcherAdd, signals
<1>4. CASE OpenFails \/ SkipPacket \/ EndOfFile \/ SavePosition \/ SavePositionFails \/ Finish
  BY <1>4 DEF SignalInv, OpenFails, SkipPacket, EndOfFile, SavePosition, SavePositionFails,
              Finish, signals
<1>5. CASE OpenProcess \/ Interrupt
  BY <1>5 DEF SignalInv, OpenProcess, Interrupt
<1>6. CASE \E f \in Captures : Create(f) \/ Append(f)
  BY <1>6 DEF SignalInv, Create, Append, Grow, signals
<1>7. CASE \E f \in Files : HandleListed(f) \/ HandleEvent(f)
  BY <1>7 DEF SignalInv, HandleListed, HandleEvent, signals
<1>8. CASE UNCHANGED vars
  BY <1>8 DEF SignalInv, signals, vars
<1> QED
  BY <1>1, <1>2, <1>3, <1>4, <1>5, <1>6, <1>7, <1>8 DEF Next, Process

\* A step that neither shortens files nor forgets what is listed, reported or being read.
LEMMA SightKept ==
  ASSUME NEW f \in Captures, NEW n \in 1 .. MaxPackets, InSight(f, n),
         n <= written'[f], times[<<f, n>>] > 0 => times'[<<f, n>>] > 0,
         main' = main, todo' = todo, pending \subseteq pending',
         /\ reader'.file = reader.file /\ reader'.size = reader.size
         /\ reader'.step = reader.step \/ reader.step \notin {"open", "read"}
  PROVE  InSight(f, n)'
  BY DEF InSight

\* Each step of the process and of its environment keeps a packet in sight, unless somebody
\* has interrupted it.
LEMMA SightNext ==
  ASSUME IndInv, SignalInv, [Next]_vars, NEW f \in Captures \ Unfiltered,
         NEW n \in 1 .. MaxPackets, InSight(f, n)
  PROVE  InSight(f, n)' \/ interrupted'
<1>a. /\ f \in Files /\ <<f, n>> \in Packets /\ f \notin DumpFiles /\ f # NoFile
      /\ written[f] \in Int /\ times[<<f, n>>] \in Nat /\ TypeOK
      /\ times \in [Packets -> Nat] /\ n \in Nat \ {0} /\ n <= written[f]
  BY FileKinds DEF Packets, IndInv, TypeOK, InSight
<1>1. CASE Start \/ Crash
  BY <1>1, <1>a DEF Start, Crash, Dies, Forgets, InSight, disk, progress
<1>2. CASE ReadDir
  BY <1>2, <1>a DEF ReadDir, InSight, disk, progress
<1>3. CASE WatcherAdd
  BY <1>3, <1>a DEF WatcherAdd, InSight, disk, progress, Idle
<1>4. CASE WatcherStopped \/ Interrupt
  BY <1>4 DEF WatcherStopped, Interrupt, Dies, Forgets, SignalInv
<1>5. CASE OpenFails
  BY <1>5, <1>a DEF OpenFails, InSight, disk, progress
<1>6. CASE OpenProcess
  <2>1. reader \in Readers
    BY <1>a DEF TypeOK, Readers
  <2>2. reader'.step = "read" /\ reader'.file = reader.file /\ reader'.size = written[reader.file]
    BY <1>6, <2>1 DEF OpenProcess, Readers
  <2> QED
    BY <1>6, <2>2, <1>a DEF OpenProcess, InSight, disk
<1>7. CASE SkipPacket
  <2>1. reader' = [reader EXCEPT !.count = @ + 1] /\ reader \in Readers
    BY <1>7, <1>a DEF SkipPacket, TypeOK, Readers
  <2>2. /\ reader'.file = reader.file /\ reader'.size = reader.size
        /\ reader'.step = reader.step
    BY <2>1 DEF Readers
  <2> QED
    BY <1>7, <2>2, <1>a, SightKept DEF SkipPacket, disk, progress
<1>8. CASE IgnorePacket \/ AssemblePacket
  <2>1. PICK d \in DumpTarget : DumpPacket(d)
    BY <1>8 DEF IgnorePacket, AssemblePacket, NextPacket
  <2>2. written'[f] = written[f] /\ pending \subseteq pending'
    <3>1. written'[f] = written[f]
      BY <2>1, <1>a, DumpStep
    <3>2. pending \subseteq pending'
      BY <1>8 DEF IgnorePacket, AssemblePacket, NextPacket
    <3> QED
      BY <3>1, <3>2
  <2>3. times[<<f, n>>] > 0 => times'[<<f, n>>] > 0
    BY <1>8, <1>a DEF IgnorePacket, AssemblePacket, NextPacket
  <2>4. UNCHANGED <<main, todo, interrupted>> /\ reader \in Readers
    BY <1>8, <1>a DEF IgnorePacket, AssemblePacket, signals, TypeOK, Readers
  <2>5. PICK step \in {"read", "save"} :
           /\ reader' = [reader EXCEPT !.count = @ + 1, !.step = step]
           /\ step = "save" => sig
           /\ reader.step = "read"
    BY <1>8 DEF IgnorePacket, AssemblePacket, NextPacket, Reading
  <2>6. CASE sig
    BY <2>6, <2>4 DEF SignalInv
  <2>7. CASE ~sig
    <3>1. /\ reader'.file = reader.file /\ reader'.size = reader.size
          /\ reader'.step = reader.step
      BY <2>4, <2>5, <2>7 DEF Readers
    <3> QED
      BY <3>1, <2>2, <2>3, <2>4, <1>a, SightKept
  <2> QED
    BY <2>6, <2>7
<1>9. CASE EndOfFile
  <2>1. CASE times[<<f, n>>] > 0
    BY <2>1, <1>9, <1>a DEF EndOfFile, InSight, disk, progress
  <2>2. CASE times[<<f, n>>] = 0
    <3>1. ~(reader.file = f /\ n <= reader.size)
      <4> SUFFICES ASSUME reader.file = f, n <= reader.size PROVE FALSE
        OBVIOUS
      <4>1. reader.count \in Nat /\ reader.size \in Nat
        BY <1>a, PcapIngestAssumption DEF TypeOK
      <4>2. times[<<reader.file, n>>] > 0
        BY <1>9, <1>a, <4>1 DEF EndOfFile, IndInv, ReaderTruthful
      <4> QED
        BY <4>2, <2>2, <1>a
    <3> QED
      BY <3>1, <2>2, <1>9, <1>a DEF EndOfFile, InSight, disk, progress
  <2> QED
    BY <2>1, <2>2, <1>a
<1>10. CASE SavePosition \/ SavePositionFails
  <2>1. reader' = [reader EXCEPT !.step = "flush"] /\ reader \in Readers /\ reader.step = "save"
    BY <1>10, <1>a DEF SavePosition, SavePositionFails, TypeOK, Readers
  <2>2. reader'.file = reader.file /\ reader'.size = reader.size
    BY <2>1 DEF Readers
  <2> QED
    BY <1>10, <2>1, <2>2, <1>a, SightKept
       DEF SavePosition, SavePositionFails, disk, progress
<1>11. CASE Finish
  BY <1>11, <1>a DEF Finish, InSight, disk
<1>12. ASSUME NEW g \in Captures, Create(g) \/ Append(g) PROVE InSight(f, n)'
  <2>1. Grow(g)
    BY <1>12 DEF Create, Append
  <2>2. n <= written'[f] /\ pending \subseteq pending'
    BY <2>1, <1>a DEF Grow, TypeOK
  <2> QED
    BY <2>1, <2>2, <1>a, SightKept DEF Grow, progress
<1>13. ASSUME NEW g \in Files, HandleListed(g) \/ HandleEvent(g) PROVE InSight(f, n)'
  <2>1. reader'.file = g /\ reader'.step = "open" /\ reader = Idle
    BY <1>13 DEF HandleListed, HandleEvent, Idle
  <2> QED
    BY <1>13, <2>1, <1>a DEF HandleListed, HandleEvent, InSight, disk, progress, Idle
<1>14. CASE UNCHANGED vars
  BY <1>14, <1>a, SightKept DEF vars
<1>15. CASE DefragFails
  <2>1. PICK d \in DumpTarget : DumpPacket(d)
    BY <1>15 DEF DefragFails
  <2>2. written'[f] = written[f] /\ main' = "down"
    BY <1>15, <2>1, <1>a, DumpStep DEF DefragFails, Forgets
  <2> QED
    BY <2>2, <1>a DEF InSight
<1> QED
  BY <1>1, <1>2, <1>3, <1>4, <1>5, <1>6, <1>7, <1>8, <1>9, <1>10, <1>11, <1>12, <1>13,
     <1>14, <1>15 DEF Next, Process

--------------------------------------------------------------------------------
(* Dumps in a directory of their own. *)

\* Nothing leads the reader to a dump file.
NoDumpInSight == /\ todo \subseteq Captures /\ pending \subseteq Captures
                 /\ reader.file \notin DumpFiles
                 /\ DumpsAreNotRead

LEMMA NoDumpNext ==
  ASSUME ~DumpWatched, TypeOK, ReaderHasFile, NoDumpInSight, [Next]_vars
  PROVE  NoDumpInSight'
<1>a. /\ Files = Captures \cup DumpFiles /\ NoFile \notin DumpFiles
      /\ \A f \in Captures : f \notin DumpFiles
      /\ \A g \in Files : [Idle EXCEPT !.file = g, !.step = "open"].file = g
      /\ Idle.file = NoFile
  BY FileKinds DEF Files, Idle
<1>1. CASE IgnorePacket \/ AssemblePacket \/ DefragFails
  <2>2. pending' \subseteq pending
    BY <1>1 DEF IgnorePacket, AssemblePacket, DefragFails, Forgets, NextPacket
  <2>3. /\ times' = [times EXCEPT ![ThisPacket] = @ + 1] /\ todo' \subseteq todo
        /\ reader'.file \in {reader.file, NoFile}
    BY <1>1, <1>a DEF IgnorePacket, AssemblePacket, DefragFails, Forgets, NextPacket, TypeOK
  <2>4. \A d \in DumpFiles, n \in 1 .. MaxPackets : times'[<<d, n>>] = times[<<d, n>>]
    <3> SUFFICES ASSUME NEW d \in DumpFiles, NEW n \in 1 .. MaxPackets
                 PROVE  times'[<<d, n>>] = times[<<d, n>>]
      OBVIOUS
    <3>1. <<d, n>> \in Packets /\ <<d, n>> # ThisPacket
      BY FileKinds DEF Packets, ThisPacket, NoDumpInSight
    <3> QED
      BY <3>1, <2>3 DEF TypeOK
  <2> QED
    BY <1>a, <2>2, <2>3, <2>4 DEF NoDumpInSight, DumpsAreNotRead
<1>2. CASE ReadDir
  BY <1>2, <1>a DEF ReadDir, NoDumpInSight, DumpsAreNotRead, progress
<1>3. CASE Crash \/ WatcherStopped
  BY <1>3, <1>a DEF Crash, WatcherStopped, Dies, Forgets, NoDumpInSight, DumpsAreNotRead
<1>4. CASE OpenFails \/ Finish
  BY <1>4, <1>a DEF OpenFails, Finish, NoDumpInSight, DumpsAreNotRead, progress
<1>5. CASE OpenProcess \/ SkipPacket \/ EndOfFile \/ SavePosition \/ SavePositionFails
  <2>1. reader'.file = reader.file
    BY <1>5 DEF OpenProcess, SkipPacket, EndOfFile, SavePosition, SavePositionFails, TypeOK
  <2>2. UNCHANGED <<todo, pending, times>>
    BY <1>5 DEF OpenProcess, SkipPacket, EndOfFile, SavePosition, SavePositionFails, progress
  <2> QED
    BY <2>1, <2>2 DEF NoDumpInSight, DumpsAreNotRead
<1>6. ASSUME NEW g \in Captures, Create(g) \/ Append(g) PROVE NoDumpInSight'
  BY <1>6 DEF Create, Append, Grow, NoDumpInSight, DumpsAreNotRead, progress
<1>7. ASSUME NEW g \in Files, HandleListed(g) \/ HandleEvent(g) PROVE NoDumpInSight'
  <2>1. g \in todo \/ g \in pending
    BY <1>7 DEF HandleListed, HandleEvent
  <2>2. g \in Captures /\ g \notin DumpFiles
    BY <2>1, <1>a DEF NoDumpInSight
  <2> QED
    BY <2>2, <1>7, <1>a DEF HandleListed, HandleEvent, NoDumpInSight, DumpsAreNotRead, progress
<1>8. CASE Start \/ WatcherAdd \/ Interrupt \/ UNCHANGED vars
  BY <1>8 DEF Start, WatcherAdd, Interrupt, vars, NoDumpInSight, DumpsAreNotRead, progress
<1> QED
  BY <1>1, <1>2, <1>3, <1>4, <1>5, <1>6, <1>7, <1>8 DEF Next, Process

--------------------------------------------------------------------------------
(* The results. *)

\* Type correctness of the files, the rows, the reader and the process.
THEOREM TypeCorrectness == Spec => []TypeOK
  BY SpecInv, PTL DEF IndInv

\* No packet is skipped that was never processed: whatever a stored position covers was
\* read, by this run of the process or one before a crash (main.go:611, 705).
THEOREM PositionsTellTheTruth == Spec => []PositionTruthful
  BY SpecInv, PTL DEF IndInv

\* The stored position of a capture file never falls back (main.go:705).
THEOREM PositionsNeverFallBack == Spec => PositionNeverFallsBack
<1>1. ASSUME IndInv, [Next]_vars
      PROVE  [\A f \in Captures : position'[f] >= position[f]]_vars
  <2> SUFFICES ASSUME Next, NEW f \in Captures PROVE position'[f] >= position[f]
    BY <1>1
  <2>1. f \in Files /\ position[f] \in Int
    BY <1>1, FileKinds DEF IndInv, TypeOK
  <2>2. CASE UNCHANGED position
    BY <2>1, <2>2
  <2>3. CASE SavePosition
    BY <1>1, <2>1, <2>3, FileKinds
       DEF SavePosition, IndInv, ReaderTruthful, ReaderHasFile, TypeOK
  <2>4. CASE IgnorePacket \/ AssemblePacket \/ DefragFails
    <3>1. PICK d \in DumpTarget : DumpPacket(d)
      BY <2>4 DEF IgnorePacket, AssemblePacket, DefragFails, NextPacket
    <3> QED
      BY <1>1, <2>1, <3>1, DumpStep DEF IndInv
  <2> QED
    BY <2>2, <2>3, <2>4
       DEF Next, Process, Start, ReadDir, WatcherAdd, WatcherStopped, OpenFails,
           OpenProcess, SkipPacket, EndOfFile, Finish, HandleListed, Crash, Dies,
           Interrupt, SavePositionFails, Create, Append, Grow, HandleEvent, disk
<1> QED
  BY <1>1, SpecInv, PTL DEF Spec, PositionNeverFallsBack

\* A packet that the stored position covers is never processed again (main.go:610).
THEOREM StoredPacketsAreSkipped == Spec => StoredIsSkipped
<1>1. ASSUME IndInv, [Next]_vars
      PROVE  [\A f \in Captures, n \in 1 .. MaxPackets :
                 times'[<<f, n>>] > times[<<f, n>>] => n > position[f]]_vars
  <2> SUFFICES ASSUME Next, NEW f \in Captures, NEW n \in 1 .. MaxPackets,
                      times'[<<f, n>>] > times[<<f, n>>]
               PROVE  n > position[f]
    BY <1>1
  <2>1. f \in Files /\ position[f] \in Int /\ <<f, n>> \in Packets
    BY <1>1, FileKinds DEF IndInv, TypeOK, Packets
  <2>2. times[<<f, n>>] \in Nat /\ times \in [Packets -> Nat]
    BY <1>1, <2>1 DEF IndInv, TypeOK
  <2>3. CASE UNCHANGED times
    BY <2>2, <2>3
  <2>4. CASE IgnorePacket \/ AssemblePacket \/ DefragFails
    <3>1. /\ Reading /\ ~Skipped
          /\ times' = [times EXCEPT ![ThisPacket] = @ + 1]
      BY <2>4 DEF IgnorePacket, AssemblePacket, DefragFails, NextPacket
    <3>2. <<f, n>> = ThisPacket
      BY <2>1, <2>2, <3>1
    <3>3. f = reader.file /\ n = reader.count + 1
      BY <3>2 DEF ThisPacket
    <3> QED
      BY <1>1, <2>1, <3>1, <3>3, SkipExact
  <2> QED
    BY <2>3, <2>4
       DEF Next, Process, Start, ReadDir, WatcherAdd, WatcherStopped, OpenFails,
           OpenProcess, SkipPacket, EndOfFile, SavePosition, Finish, HandleListed, Crash,
           Dies, Interrupt, SavePositionFails, Create, Append, Grow, HandleEvent, progress
<1> QED
  BY <1>1, SpecInv, PTL DEF Spec, StoredIsSkipped

\* As long as nothing fails, nobody interrupts and no malformed packet was met, every packet
\* of a capture is processed at most once and is then in one place, an assembler or one flow, however often its file grows
\* and is read again (main.go:608-613, FlushConnections).
THEOREM PacketsFlowOnce == Spec => []ExactlyOnceWithoutFaults
<1>1. OnceInv => ExactlyOnceWithoutFaults
  <2> SUFFICES ASSUME OnceInv, Calm, NEW f \in Captures, NEW n \in 1 .. MaxPackets
               PROVE  /\ times[<<f, n>>] <= 1
                      /\ n \notin Fragments => Holders(<<f, n>>) = times[<<f, n>>]
    BY DEF ExactlyOnceWithoutFaults, Calm
  <2>1. Once(f, n)
    BY DEF OnceInv
  <2> QED
    BY <2>1 DEF Once
<1>2. Spec => []OnceInv
  BY InitOnce, NextOnce, SpecInv, PTL DEF Spec
<1> QED
  BY <1>1, <1>2, PTL

\* A packet of a file that is reported while the directory is watched is not lost sight of
\* until it was processed, through the sleep before its file is opened, growth during the
\* reading, failed updates of the position, crashes and restarts, also those a malformed
\* packet brings about; only an interrupt lets it go, or a filter that does not compile
\* (main.go:503-512, 611).  With ReportedFileIsRead this says that what is owed stays owed.
THEOREM ReportedStaysInSight ==
  ASSUME NEW f \in Captures \ Unfiltered, NEW n \in 1 .. MaxPackets
  PROVE  Spec => []((f \in pending /\ n <= written[f]) => [](InSight(f, n) \/ interrupted))
<1>1. SignalInv /\ f \in pending /\ n <= written[f] => InSight(f, n)
  BY DEF SignalInv, InSight
<1>2. interrupted /\ [Next]_vars => interrupted'
  <2> SUFFICES ASSUME interrupted, [Next]_vars PROVE interrupted'
    OBVIOUS
  <2> QED
    BY DEF Next, Process, Start, ReadDir, WatcherAdd, WatcherStopped, OpenFails, OpenProcess,
         SkipPacket, IgnorePacket, AssemblePacket, DefragFails, EndOfFile, SavePosition, Finish,
         HandleListed, Interrupt, Crash, Dies, Forgets, SavePositionFails, Create, Append, Grow,
         HandleEvent, signals, vars
<1>3. IndInv /\ SignalInv /\ [Next]_vars /\ InSight(f, n) => InSight(f, n)' \/ interrupted'
  BY SightNext
<1>4. Spec => []IndInv
  BY SpecInv
<1>5. Spec => []SignalInv
  BY SignalInit, SignalNext, PTL DEF Spec
<1> QED
  BY <1>1, <1>2, <1>3, <1>4, <1>5, PTL DEF Spec

\* A malformed packet stops its file for good: the position stays before it, so that each
\* restart comes to it again, and nothing behind it is ever read (main.go:637, 705).
THEOREM NothingBehindMalformed ==
  ASSUME NEW f \in Captures, NEW m \in 1 .. MaxPackets, <<f, m>> \in Malformed
  PROVE  Spec => [](/\ position[f] < m
                    /\ \A n \in m + 1 .. MaxPackets : times[<<f, n>>] = 0)
<1> DEFINE Behind == \A n \in m + 1 .. MaxPackets : times[<<f, n>>] = 0
           Stopped == /\ position[f] < m /\ Behind
                      /\ reader.file = f /\ reader.step # "idle" => reader.count < m
<1>1. Init => Stopped
  BY FileKinds, CapturePackets DEF Init, Idle
<1>2. IndInv /\ Stopped /\ [Next]_vars => Stopped'
  <2> SUFFICES ASSUME IndInv, Stopped, [Next]_vars PROVE Stopped'
    OBVIOUS
  <2>a. /\ f \in Files /\ position[f] \in Int /\ m \in Nat \ {0} /\ MaxPackets \in Nat
        /\ \A n \in m + 1 .. MaxPackets : <<f, n>> \in Packets
        /\ times \in [Packets -> Nat] /\ reader \in Readers
        /\ reader.count \in Nat /\ f # NoFile
    BY FileKinds, CapturePackets, PcapIngestAssumption DEF IndInv, TypeOK, Readers
  <2>b. \A g \in Files : /\ [Idle EXCEPT !.file = g, !.step = "open"].count = 0
                         /\ Idle.count = 0 /\ Idle.step = "idle"
    BY DEF Idle
  <2>1. CASE IgnorePacket \/ AssemblePacket \/ DefragFails
    <3>1. PICK d \in DumpTarget : DumpPacket(d)
      BY <2>1 DEF IgnorePacket, AssemblePacket, DefragFails, NextPacket
    <3>2. position'[f] = position[f]
      BY <3>1, DumpStep DEF IndInv
    <3>3. /\ Reading /\ reader.step = "read"
          /\ times' = [times EXCEPT ![ThisPacket] = @ + 1]
      BY <2>1 DEF IgnorePacket, AssemblePacket, DefragFails, NextPacket, Reading
    <3>4. \A n \in m + 1 .. MaxPackets : <<f, n>> # ThisPacket
      BY <2>a, <3>3 DEF ThisPacket
    <3>5. Behind'
      BY <2>a, <3>3, <3>4
    <3>6. CASE DefragFails
      BY <3>2, <3>5, <3>6, <2>b DEF DefragFails, Forgets, Idle
    <3>7. CASE IgnorePacket \/ AssemblePacket
      <4>1. ThisPacket # <<f, m>>
        BY <3>7 DEF IgnorePacket, AssemblePacket, NextPacket
      <4>2. /\ reader'.file = reader.file /\ reader'.count = reader.count + 1
        BY <3>7, <2>a DEF IgnorePacket, AssemblePacket, NextPacket, Readers
      <4>3. reader.file = f => reader.count + 1 < m
        BY <4>1, <2>a, <3>3 DEF ThisPacket
      <4> QED
        BY <3>2, <3>5, <4>2, <4>3
    <3> QED
      BY <2>1, <3>6, <3>7
  <2>2. CASE SkipPacket
    <3>1. /\ Reading /\ Skipped /\ reader.step = "read" /\ UNCHANGED <<position, times>>
          /\ reader'.file = reader.file /\ reader'.count = reader.count + 1
      BY <2>2, <2>a DEF SkipPacket, Reading, disk, progress, Readers
    <3>2. reader.file = f => reader.count + 1 <= position[f]
      BY <3>1, SkipExact
    <3> QED
      BY <2>a, <3>1, <3>2
  <2>3. CASE OpenProcess
    BY <2>3, <2>a DEF OpenProcess, disk, IndInv, ReaderHasFile, Readers
  <2>4. CASE EndOfFile \/ SavePositionFails
    BY <2>4, <2>a DEF EndOfFile, SavePositionFails, disk, progress, Readers
  <2>5. CASE SavePosition
    <3>1. /\ reader.step = "save" /\ reader' = [reader EXCEPT !.step = "flush"]
          /\ position' = [position EXCEPT ![reader.file] = reader.count]
          /\ UNCHANGED times /\ position \in [Files -> Int]
      BY <2>5 DEF SavePosition, progress, IndInv, TypeOK
    <3>2. reader'.file = reader.file /\ reader'.count = reader.count
      BY <3>1, <2>a DEF Readers
    <3>3. position'[f] = IF reader.file = f THEN reader.count ELSE position[f]
      BY <3>1, <2>a
    <3> QED
      BY <3>1, <3>2, <3>3, <2>a
  <2>6. CASE OpenFails \/ Finish \/ Crash \/ WatcherStopped
    BY <2>6, <2>b DEF OpenFails, Finish, Crash, WatcherStopped, Dies, Forgets, disk, progress, Idle
  <2>7. ASSUME NEW g \in Files, HandleListed(g) \/ HandleEvent(g) PROVE Stopped'
    <3>1. /\ reader' = [Idle EXCEPT !.file = g, !.step = "open"]
          /\ UNCHANGED <<position, times>>
      BY <2>7 DEF HandleListed, HandleEvent, disk, progress
    <3>2. reader'.count = 0
      BY <3>1, <2>b
    <3> QED
      BY <3>1, <3>2, <2>a
  <2>8. CASE \/ Start \/ ReadDir \/ WatcherAdd \/ Interrupt \/ UNCHANGED vars
             \/ \E g \in Captures : Create(g) \/ Append(g)
    BY <2>8 DEF Start, ReadDir, WatcherAdd, Interrupt, Create, Append, Grow, vars, disk, progress
  <2> QED
    BY <2>1, <2>2, <2>3, <2>4, <2>5, <2>6, <2>7, <2>8 DEF Next, Process
<1>3. Stopped => position[f] < m /\ Behind
  OBVIOUS
<1> QED
  BY <1>1, <1>2, <1>3, SpecInv, PTL DEF Spec

\* Where dumps go to a directory that is not watched, no dump is ever read (main.go:719): the
\* run that finds one read needs the watched directory.
THEOREM DumpsElsewhereAreNotRead ==
  ASSUME ~DumpWatched
  PROVE  Spec => []DumpsAreNotRead
<1>1. Init => NoDumpInSight
  BY FileKinds DEF Init, NoDumpInSight, DumpsAreNotRead, Idle, Packets
<1>2. IndInv /\ NoDumpInSight /\ [Next]_vars => NoDumpInSight'
  BY NoDumpNext DEF IndInv
<1>3. NoDumpInSight => DumpsAreNotRead
  BY DEF NoDumpInSight
<1> QED
  BY <1>1, <1>2, <1>3, SpecInv, PTL DEF Spec
================================================================================
