------------------------------- MODULE PcapIngest -------------------------------
(***************************************************************************)
(* The assembler's way from a directory of capture files to flows          *)
(* (cmd/assembler/main.go: WatchDir, HandlePcapUri, ProcessPcapHandle,     *)
(* FlushConnections, DumpPacket, DumpFlush) and what the database          *)
(* remembers of it (internal/pkg/db/db.go: PcapFindOrInsert,               *)
(* PcapSetPosition).                                                       *)
(*                                                                         *)
(* A file is read from its first packet on every time it is listed or an   *)
(* event names it; packets up to the position stored for its name are      *)
(* skipped, and the number of packets seen becomes the new position when   *)
(* the end of the file is reached.  Packets wait in the assembler until    *)
(* their connection closes or times out, and only the database survives a  *)
(* restart of the process.                                                 *)
(*                                                                         *)
(* A packet is its file and its number in it.  Which connection a packet   *)
(* belongs to, and how old it is, are left open: a flush may take any of   *)
(* the packets that wait.  Files only grow; the pods that bring them       *)
(* (argo/tulip/templates) replace a file by a longer one.                  *)
(***************************************************************************)
EXTENDS Integers, FiniteSets

CONSTANTS Captures,     \* names of the capture files in the watched directory
          DumpFiles,    \* names DumpPacket can give its files; {} without -dump-pcaps
          DumpWatched,  \* whether -dump-pcaps is the directory that is watched
          Unfiltered,   \* captures of a link type that the BPF filter does not compile for
          Fragments,    \* numbers of the packets that carry no transport layer yet
          Malformed,    \* packets of captures that DefragIPv4 answers with an error
          MaxPackets,   \* bound: packets in a file
          MaxDeaths,    \* bound: how often a malformed packet is met again after a restart
          MaxFaults,    \* bound: crashes and failed updates of a position
          MaxInt,       \* math.MaxInt64
          NoFile

Files == Captures \cup DumpFiles
Packets == Files \X (1 .. MaxPackets)

ASSUME PcapIngestAssumption ==
    /\ MaxPackets \in Nat \ {0} /\ MaxFaults \in Nat /\ MaxInt \in Nat /\ MaxDeaths \in Nat
    /\ MaxPackets < MaxInt
    /\ DumpWatched \in BOOLEAN
    /\ NoFile \notin Files
    /\ Captures \cap DumpFiles = {}
    /\ Unfiltered \subseteq Captures
    /\ Malformed \subseteq Captures \X (1 .. MaxPackets)

VARIABLES written,      \* packets in each file so far, -1 before it is created
          position,     \* pcap.position of each file's row, 0 when there is no row
          main,         \* WatchDir: "down", "start", "scan" or "watch"
          todo,         \* scan: files listed and not read yet
          pending,      \* watch: files named by an event that was not received yet
          reader,       \* ProcessPcapHandle
          open,         \* packets in the TCP and UDP assemblers
          flows,        \* how often each packet was in a flow given to reassemblyCallback
          times,        \* how often each packet got past the skip
          dump,         \* DumpFilename while DumpWriter is not nil, or NoFile
          sig,          \* an interrupt waits in the channel of ProcessPcapHandle
          stop,         \* an interrupt waits in the channel of WatchDir
          interrupted,  \* someone has interrupted the process (once at most)
          faults        \* crashes and failed updates so far

vars == <<written, position, main, todo, pending, reader, open, flows, times,
          dump, sig, stop, interrupted, faults>>
disk == <<written, position>>
progress == <<open, flows, times>>
signals == <<sig, stop, interrupted>>

Idle == [file |-> NoFile, step |-> "idle", start |-> 0, count |-> 0, size |-> 0]

\* Adding one to an int64.
Int64Succ(x) == IF x = MaxInt THEN -MaxInt - 1 ELSE x + 1

TypeOK == /\ written \in [Files -> -1 .. MaxPackets]
          /\ position \in [Files -> -MaxInt - 1 .. MaxInt]
          /\ main \in {"down", "start", "scan", "watch"}
          /\ todo \subseteq Files /\ pending \subseteq Files
          /\ reader \in [file : Files \cup {NoFile},
                         step : {"idle", "open", "read", "save", "flush"},
                         start : -MaxInt - 1 .. MaxInt,
                         count : 0 .. MaxPackets, size : 0 .. MaxPackets]
          /\ open \subseteq Packets
          /\ flows \in [Packets -> Nat] /\ times \in [Packets -> Nat]
          /\ dump \in DumpFiles \cup {NoFile}
          /\ sig \in BOOLEAN /\ stop \in BOOLEAN /\ interrupted \in BOOLEAN
          /\ faults \in 0 .. MaxFaults

Init == /\ written = [f \in Files |-> -1]
        /\ position = [f \in Files |-> 0]
        /\ main = "down"
        /\ todo = {} /\ pending = {}
        /\ reader = Idle
        /\ open = {}
        /\ flows = [p \in Packets |-> 0]
        /\ times = [p \in Packets |-> 0]
        /\ dump = NoFile
        /\ sig = FALSE /\ stop = FALSE /\ interrupted = FALSE
        /\ faults = 0

--------------------------------------------------------------------------------
(* The capture side, and the signals and failures of the environment.      *)

\* A capture file is created, or a packet is written to it; the kernel reports the file
\* once a watch is set.
Grow(f) ==
    /\ written' = [written EXCEPT ![f] = @ + 1]
    /\ pending' = IF main = "watch" THEN pending \cup {f} ELSE pending
    /\ UNCHANGED <<position, main, todo, reader, progress, dump, signals, faults>>

Create(f) == written[f] = -1 /\ Grow(f)

Append(f) == written[f] \in 0 .. MaxPackets - 1 /\ Grow(f)

\* The process is gone, and with it all it held in memory.
Forgets == /\ main' = "down"
           /\ todo' = {} /\ pending' = {}
           /\ reader' = Idle
           /\ open' = {}
           /\ dump' = NoFile
           /\ sig' = FALSE /\ stop' = FALSE
           /\ UNCHANGED <<flows, interrupted>>

Dies == Forgets /\ UNCHANGED <<disk, times>>

\* A kill, the SIGTERM of a pod's end, or a call of log.Fatal that no packet brings about
\* by itself (the watcher's, the database's); DefragFails is the one that comes back.
Crash == /\ main # "down"
         /\ faults < MaxFaults
         /\ faults' = faults + 1
         /\ Dies

\* SIGINT goes to every channel that asked for it: that of the ProcessPcapHandle under
\* way and, once the directory is watched, that of WatchDir.  During the scan nobody
\* else listens; before the first Notify it kills the process, as Crash does.
Interrupt ==
    /\ ~interrupted
    /\ main = "watch" \/ reader.step = "read"
    /\ interrupted' = TRUE
    /\ sig' = (reader.step = "read")
    /\ stop' = (main = "watch")
    /\ UNCHANGED <<disk, main, todo, pending, reader, progress, dump, faults>>

--------------------------------------------------------------------------------
(* WatchDir.                                                               *)

\* The pod is restarted (bound: no more often than it takes to meet a malformed packet
\* MaxDeaths + 1 times).
Start == /\ main = "down"
         /\ \A p \in Malformed : times[p] <= MaxDeaths
         /\ main' = "start"
         /\ UNCHANGED <<disk, todo, pending, reader, progress, dump, signals, faults>>

\* ioutil.ReadDir.
ReadDir == /\ main = "start"
           /\ main' = "scan"
           /\ todo' = {f \in Files : written[f] >= 0 /\ (f \in DumpFiles => DumpWatched)}
           /\ UNCHANGED <<disk, pending, reader, progress, dump, signals, faults>>

HandleListed(f) ==
    /\ main = "scan"
    /\ reader = Idle
    /\ f \in todo
    /\ todo' = todo \ {f}
    /\ reader' = [Idle EXCEPT !.file = f, !.step = "open"]
    /\ UNCHANGED <<disk, main, pending, progress, dump, signals, faults>>

\* watcher.Add, after the last listed file: from here on changes are reported.
WatcherAdd ==
    /\ main = "scan"
    /\ reader = Idle
    /\ todo = {}
    /\ main' = "watch"
    /\ UNCHANGED <<disk, todo, pending, reader, progress, dump, signals, faults>>

\* HandleEvent that drains whatever else was reported during its sleep.
HandleEventDrains(f) ==
    /\ main = "watch"
    /\ reader = Idle
    /\ f \in pending
    /\ pending' = {}
    /\ reader' = [Idle EXCEPT !.file = f, !.step = "open"]
    /\ UNCHANGED <<disk, main, todo, progress, dump, signals, faults>>

\* The goroutine receives an event and sleeps before it opens the file.
HandleEvent(f) ==
    /\ main = "watch"
    /\ reader = Idle
    /\ f \in pending
    /\ pending' = pending \ {f}
    /\ reader' = [Idle EXCEPT !.file = f, !.step = "open"]
    /\ UNCHANGED <<disk, main, todo, progress, dump, signals, faults>>

\* main returns, whatever the goroutine is doing.
WatcherStopped == /\ main = "watch"
                  /\ stop
                  /\ Dies
                  /\ UNCHANGED faults

--------------------------------------------------------------------------------
(* HandlePcapUri and ProcessPcapHandle.                                    *)

\* FlushConnections, or connections that close: packets leave the assemblers in flows.
Emit(waiting) ==
    \E S \in SUBSET waiting :
        /\ open' = waiting \ S
        /\ flows' = [p \in Packets |-> IF p \in S THEN flows[p] + 1 ELSE flows[p]]

\* DumpFlush: the dump is closed when its interval is over.
DumpFlush == {dump, NoFile}

\* The name of the next dump, taken from the clock (bound: used again when all are).
NewName == LET unused == {d \in DumpFiles : position[d] = 0}
           IN IF unused = {} THEN DumpFiles ELSE unused

\* OpenProcess that does not ask for the stored position.
OpenForgets ==
    /\ reader.step = "open"
    /\ written[reader.file] > 0 /\ reader.file \notin Unfiltered
    /\ reader' = [reader EXCEPT !.step = "read", !.start = 0,
                                !.size = written[reader.file]]
    /\ dump' \in DumpFlush
    /\ Emit(open)
    /\ sig' = FALSE
    /\ UNCHANGED <<disk, main, todo, pending, times, stop, interrupted, faults>>

\* The file has no header yet, or SetBPFFilter refuses the filter: logged.
OpenFails == /\ reader.step = "open"
             /\ written[reader.file] = 0 \/ reader.file \in Unfiltered
             /\ reader' = Idle
             /\ UNCHANGED <<disk, main, todo, pending, progress, dump, signals, faults>>

\* PcapFindOrInsert, a channel for this call's signals, FlushConnections and DumpFlush.
OpenProcess ==
    /\ reader.step = "open"
    /\ written[reader.file] > 0 /\ reader.file \notin Unfiltered
    /\ reader' = [reader EXCEPT !.step = "read", !.start = position[reader.file],
                                !.size = written[reader.file]]
    /\ dump' \in DumpFlush
    /\ Emit(open)
    /\ sig' = FALSE
    /\ UNCHANGED <<disk, main, todo, pending, times, stop, interrupted, faults>>

Reading == reader.step = "read" /\ reader.count < written[reader.file]

ThisPacket == <<reader.file, reader.count + 1>>

\* Skipped that starts one packet too early.
SkippedOffByOne == reader.count + 1 < reader.start

\* count < pcap.Position + 1, with count already that of this packet.
Skipped == reader.count + 1 < Int64Succ(reader.start)

SkipPacket ==
    /\ Reading
    /\ Skipped
    /\ reader' = [reader EXCEPT !.count = @ + 1]
    /\ UNCHANGED <<disk, main, todo, pending, progress, dump, signals, faults>>

\* The file a packet is dumped to: after DumpFlush the open one, or one with a new name.
DumpTarget ==
    IF DumpFiles = {} THEN {NoFile}
    ELSE UNION {IF flushed = NoFile THEN NewName ELSE {flushed} : flushed \in DumpFlush}

\* DumpPacket that marks its file with the number after the last int64.
DumpPacketTooFar(d) ==
    /\ position' = [f \in Files |-> IF f = d THEN MaxInt + 1 ELSE position[f]]
    /\ written' = [f \in Files |-> IF f = d THEN 1 ELSE written[f]]

\* DumpPacket: a new file is marked as read before it is created, and the packet is written
\* to it (bound: a dump of one packet stands for all longer ones).
DumpPacket(d) ==
    /\ position' = [f \in Files |-> IF f = d THEN MaxInt ELSE position[f]]
    /\ written' = [f \in Files |-> IF f = d THEN 1 ELSE written[f]]

\* A packet that is new: counted and dumped, whatever it holds.
NextPacket(step) ==
    /\ Reading
    /\ ~Skipped
    /\ ThisPacket \notin Malformed
    /\ \E d \in DumpTarget :
          /\ DumpPacket(d)
          /\ dump' = d
          /\ pending' = IF d # NoFile /\ DumpWatched /\ main = "watch"
                          THEN pending \cup {d} ELSE pending
    /\ times' = [times EXCEPT ![ThisPacket] = @ + 1]
    /\ reader' = [reader EXCEPT !.count = @ + 1, !.step = step]

\* DefragIPv4 answers a packet with an error: log.Fatalln, once it was counted and dumped.
\* No position was stored, so every restart comes to the same packet again.
DefragFails ==
    /\ Reading
    /\ ~Skipped
    /\ ThisPacket \in Malformed
    /\ \E d \in DumpTarget : DumpPacket(d)
    /\ times' = [times EXCEPT ![ThisPacket] = @ + 1]
    /\ Forgets
    /\ UNCHANGED faults

\* A fragment whose packet is not whole yet, or a packet without a transport layer: the
\* loop goes on before it looks at the signals.
IgnorePacket ==
    /\ reader.count + 1 \in Fragments
    /\ NextPacket("read")
    /\ UNCHANGED <<main, todo, open, flows, signals, faults>>

\* Assemble may close connections, and the periodic flush of a later packet those that
\* timed out; then the signals are looked at.
AssemblePacket ==
    /\ reader.count + 1 \notin Fragments
    /\ NextPacket(IF sig THEN "save" ELSE "read")
    /\ Emit(open \cup {ThisPacket})
    /\ UNCHANGED <<main, todo, signals, faults>>

\* The reading goroutine met the end of the file, at a length the file had since it was
\* opened, and the loop has consumed all that was read.
EndOfFile ==
    /\ reader.step = "read"
    /\ reader.count >= reader.size
    /\ reader' = [reader EXCEPT !.step = "save"]
    /\ UNCHANGED <<disk, main, todo, pending, progress, dump, signals, faults>>

\* SavePosition that takes the file's length for the number of packets read.
SavePositionOfLength ==
    /\ reader.step = "save"
    /\ position' = [position EXCEPT ![reader.file] = written[reader.file]]
    /\ reader' = [reader EXCEPT !.step = "flush"]
    /\ UNCHANGED <<written, main, todo, pending, progress, dump, signals, faults>>

\* SavePosition that stores how many packets were processed this time.
SavePositionOfProcessed ==
    /\ reader.step = "save"
    /\ position' = [position EXCEPT ![reader.file] = reader.count - reader.start]
    /\ reader' = [reader EXCEPT !.step = "flush"]
    /\ UNCHANGED <<written, main, todo, pending, progress, dump, signals, faults>>

\* PcapSetPosition.
SavePosition ==
    /\ reader.step = "save"
    /\ position' = [position EXCEPT ![reader.file] = reader.count]
    /\ reader' = [reader EXCEPT !.step = "flush"]
    /\ UNCHANGED <<written, main, todo, pending, progress, dump, signals, faults>>

\* The update fails; the error is logged and nobody looks at it.
SavePositionFails ==
    /\ reader.step = "save"
    /\ faults < MaxFaults
    /\ faults' = faults + 1
    /\ reader' = [reader EXCEPT !.step = "flush"]
    /\ UNCHANGED <<disk, main, todo, pending, progress, dump, signals>>

\* The last FlushConnections.
Finish == /\ reader.step = "flush"
          /\ reader' = Idle
          /\ Emit(open)
          /\ UNCHANGED <<disk, main, todo, pending, times, dump, signals, faults>>

Process == \/ Start \/ ReadDir \/ WatcherAdd \/ WatcherStopped
           \/ OpenFails \/ OpenProcess
           \/ SkipPacket \/ IgnorePacket \/ AssemblePacket \/ DefragFails
           \/ EndOfFile \/ SavePosition \/ Finish
           \/ \E f \in Files : HandleListed(f)

Next == \/ Process
        \/ Crash \/ Interrupt \/ SavePositionFails
        \/ \E f \in Captures : Create(f) \/ Append(f)
        \/ \E f \in Files : HandleEvent(f)

Spec == Init /\ [][Next]_vars

\* The process runs on, the pod restarts it when it ended, and every event is received:
\* fsnotify keeps an event until the goroutine asks for the next one.
Fairness == /\ WF_vars(Process)
            /\ \A f \in Files : WF_vars(HandleEvent(f))

FairSpec == Spec /\ Fairness

--------------------------------------------------------------------------------

\* What the stored position of a capture file says was read has been read, by this run of
\* the process or an earlier one: no packet is skipped that nobody ever looked at
\* (main.go:611, 705).
PositionTruthful ==
    \A f \in Captures, n \in 1 .. MaxPackets : n <= position[f] => times[<<f, n>>] > 0

\* The process has met a packet that kills it at every restart (main.go:637).
Poisoned == \E p \in Malformed : times[p] > 0

\* As long as nothing fails, nobody interrupts and no malformed packet was met, a capture
\* file that grows and is read again for each event gives every packet to the flows exactly
\* once: a packet that was processed waits in an assembler or went out in one flow, never
\* both (main.go:608-613).
Holders(p) == flows[p] + (IF p \in open THEN 1 ELSE 0)
ExactlyOnceWithoutFaults ==
    faults = 0 /\ ~interrupted /\ ~Poisoned =>
        \A f \in Captures, n \in 1 .. MaxPackets :
            /\ times[<<f, n>>] <= 1
            /\ n \notin Fragments => Holders(<<f, n>>) = times[<<f, n>>]

\* No step moves the stored position of a capture file back, also when the reading was
\* interrupted while it skipped, or overtaken by an Append (main.go:611, 692, 705).
PositionNeverFallsBack ==
    [][\A f \in Captures : position'[f] >= position[f]]_vars

\* A packet at or below the position stored for its file is not processed again, whatever
\* crashes and failed updates came before (main.go:610 "Skip packets that were already
\* processed from this pcap").
StoredIsSkipped ==
    [][\A f \in Captures, n \in 1 .. MaxPackets :
           times'[<<f, n>>] > times[<<f, n>>] => n > position[f]]_vars

\* Every packet in a file that is reported while the directory is watched is read, also
\* when the file grows during the sleep or during the reading, or the process dies before
\* it gets there (main.go:503-512).  Left out are the files the BPF filter does not compile
\* for (main.go:564-569).  Only an interrupt may cut a reading short, and a packet that
\* DefragIPv4 answers with an error: once the process came to one it dies of it again after
\* each restart, whatever waits behind it in this file or in others (main.go:635-637).
ReportedFileIsRead ==
    \A f \in Captures \ Unfiltered, n \in 1 .. MaxPackets :
        (f \in pending /\ n <= written[f])
            ~> (times[<<f, n>>] > 0 \/ interrupted \/ Poisoned)

\* main.go:719, of marking a dump with math.MaxInt64: "Do this to make sure we dont try to
\* read this pcap with watch-dir".
DumpsAreNotRead ==
    \A d \in DumpFiles, n \in 1 .. MaxPackets : times[<<d, n>>] = 0
================================================================================
