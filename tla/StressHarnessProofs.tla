-------------------------- MODULE StressHarnessProofs --------------------------
(***************************************************************************)
(* Proofs about StressHarness for any rate, rotation and duration of the   *)
(* generator, any number of interrupts and of faults.                      *)
(***************************************************************************)
EXTENDS StressHarness, FiniteSetTheorems, TLAPS

Segment == [segment : Nat, start : Nat, seconds : Nat, first : Nat, written : Nat, requests : Nat]
Packet == [from : {"c", "s"}, seq : 0..SeqSpace - 1, ack : 0..SeqSpace - 1,
           flags : SUBSET {SYN, FIN, ACK, PSH}, len : Nat]

\* The children that come later than c in the chain, which cleanup has been at before c.
Later(c) == CASE c = "generator" -> {}
              [] c = "ssh" -> {"generator"}
              [] c = "forward" -> {"generator", "ssh"}
              [] c = "rsync" -> {"generator", "ssh", "forward"}

\* Where the program is, and with which child.
StageInv == /\ pc \in Running \cup Cleaning \cup {"over"}
            /\ child \in Procs \cup {"none"}
            /\ pc \in {"spawn", "hold", "wait", "stop"} => child \in Procs
            /\ excuses \subseteq {"cut", "exec", "patch", "file", "late"}

\* A handle is kept for every child that runs, but for the one that is just being started
\* or whose start was interrupted.
HandlesInv ==
    /\ alive \subseteq Procs /\ held \subseteq Procs
    /\ pc \in Running \ {"hold"} => alive \subseteq held
    /\ pc = "hold" => alive \subseteq held \cup {child}
    /\ \E lost : alive \ held \subseteq {lost}

\* cleanup has come to child, or past them all.
StoppedInv ==
    /\ pc = "stop" => alive \cap held \cap Later(child) = {}
    /\ pc \in Cleaning \ {"stop"} \/ (pc = "over" /\ "cut" \notin excuses) =>
          alive \cap held = {}

\* Where cleanup has been at the sshd, and where it has been at the source.
SshdStopped == pc \in {"restore", "settle", "files"} \/ (pc = "over" /\ "cut" \notin excuses)
Restored == pc \in {"settle", "files"} \/ (pc = "over" /\ "cut" \notin excuses)

\* The script and its sshd run in the pod run found, or nowhere, and only once the source is
\* patched; cleanup has been there, and has replaced the pod.
SshdInv ==
    /\ pod \in Nat \ {0} /\ rsync_pod \in Nat /\ script \in Nat /\ sshd \in Nat
    /\ sshd <= pod /\ script <= pod
    /\ sshd # 0 => sshd = rsync_pod /\ restore_source
    /\ script # 0 => script = rsync_pod /\ restore_source
    /\ pc \in {"prepare", "read", "patch", "mark", "rollout", "pod", "sshd"} =>
          sshd = 0 /\ script = 0
    /\ pc \in {"rollout", "pod", "sshd"} => restore_source
    /\ SshdStopped /\ (sshd = pod \/ script = pod) => excuses \cap {"exec", "late"} # {}
    /\ Restored /\ (sshd = pod \/ script = pod) => PatchExcused

BoundsInv == interrupts \in 0..MaxInterrupts /\ faults \in 0..MaxFaults

\* The source has been put back once the patch of cleanup is through.
SourceInv ==
    /\ no_restore \in BOOLEAN /\ restore_source \in BOOLEAN
    /\ source \in Sources /\ old_rsync_source \in {"", "original", "fallback"}
    /\ Restored /\ restore_source /\ ~PatchExcused => source = old_rsync_source
    /\ pc \in {"prepare", "read"} => source \in {"original", "unset"} /\ ~restore_source
    /\ pc \in {"patch", "mark"} \/ restore_source => old_rsync_source # ""

HarnessInv == StageInv /\ HandlesInv /\ StoppedInv /\ SshdInv /\ BoundsInv /\ SourceInv

\* The published files, and where the one the generator works on goes.
PublishedInv ==
    /\ \A f \in pcaps : /\ f.written = f.requests
                        /\ f.segment < segment
                        /\ f.first + f.requests <= generated
    /\ \A f, g \in pcaps : f.segment < g.segment =>
          f.first + f.requests <= g.first /\ EndOf(f) <= g.start
    /\ \A f, g \in pcaps : f.segment = g.segment => f = g
    /\ UNION {NumbersOf(f) : f \in pcaps} = 0..generated - 1

OpenInv ==
    /\ \A f, g \in open : f = g
    /\ \A f \in open : /\ f.segment = segment /\ f.first = generated
                       /\ f.start <= clock
                       /\ \A g \in pcaps : EndOf(g) <= f.start

\* The time the files stand for is over when the generator is about to open the next one;
\* while it sleeps, that is still to come for the file of the segment just written.
PaceInv ==
    /\ gpc = "start" => pcaps = {} /\ open = {}
    /\ gpc = "loop" => open = {} /\ \A f \in pcaps : EndOf(f) <= clock
    /\ gpc = "sleep" =>
          /\ open = {}
          /\ \A g \in pcaps : g.segment = segment - 1 =>
                /\ g.start <= clock
                /\ \A f \in pcaps : f.segment # segment - 1 => EndOf(f) <= g.start

FilesInv == PublishedInv /\ OpenInv /\ PaceInv
--------------------------------------------------------------------------------
(* The generator's types. *)

LEMMA MaxMinOfTwo ==
  ASSUME NEW a \in Int, NEW b \in Int
  PROVE  /\ Max({a, b}) \in Int /\ Max({a, b}) >= a
         /\ Min({a, b}) \in Int
<1>1. \E x \in {a, b} : \A y \in {a, b} : x >= y
  <2>1. CASE a >= b
    BY <2>1
  <2>2. CASE ~(a >= b)
    BY <2>2
  <2> QED
    BY <2>1, <2>2
<1>2. \E x \in {a, b} : \A y \in {a, b} : x <= y
  <2>1. CASE a <= b
    BY <2>1
  <2>2. CASE ~(a <= b)
    BY <2>2
  <2> QED
    BY <2>1, <2>2
<1> QED
  BY <1>1, <1>2 DEF Max, Min

LEMMA SegmentSeconds ==
  ASSUME GenTypeOK, NEW elapsed \in Int
  PROVE  segment_seconds(elapsed) \in Nat /\ Rps * segment_seconds(elapsed) \in Nat
<1>1. duration \in Nat /\ TicksPerSecond \in Nat \ {0} /\ Rps \in Nat /\ RotateSeconds \in Nat
  BY GeneratorAssumption DEF GenTypeOK
<1>2. PICK ticks \in Int : ticks = duration * TicksPerSecond - elapsed
  BY <1>1
<1>3. WholeSeconds(ticks) \in Int
  BY <1>1 DEF WholeSeconds
<1>4. PICK m \in Int : m = Min({RotateSeconds, WholeSeconds(ticks)})
  BY <1>1, <1>3, MaxMinOfTwo
<1>5. Max({1, m}) \in Nat
  <2>1. 1 \in Int
    OBVIOUS
  <2>2. Max({1, m}) \in Int /\ Max({1, m}) >= 1
    BY <2>1, MaxMinOfTwo
  <2> QED
    BY <2>2
<1>6. segment_seconds(elapsed) \in Nat
  BY <1>1, <1>2, <1>4, <1>5 DEF segment_seconds
<1> QED
  BY <1>1, <1>6

LEMMA SegmentType ==
  ASSUME NEW from \in {"c", "s"}, NEW seq \in Nat, NEW ack \in Nat,
         NEW bits \in SUBSET {SYN, FIN, ACK, PSH}, NEW len \in Nat
  PROVE  tcp_segment(from, seq, ack, bits, len) \in Packet
<1>1. SeqSpace \in Nat \ {0}
  BY GeneratorAssumption
<1>2. seq % SeqSpace \in 0..SeqSpace - 1 /\ ack % SeqSpace \in 0..SeqSpace - 1
  BY <1>1
<1> QED
  BY <1>2 DEF tcp_segment, Packet

LEMMA SequenceType ==
  ASSUME NEW d \in Draws
  PROVE  packet_sequence(d[1], d[2], d[3], d[4]) \in Seq(Packet)
<1>1. PICK cs \in Nat, ss \in Nat, q \in Nat, r \in Nat :
         d[1] = cs /\ d[2] = ss /\ d[3] = q /\ d[4] = r
  BY GeneratorAssumption
<1>2. /\ 0 \in Nat /\ cs + 1 \in Nat /\ ss + 1 \in Nat /\ cs + 1 + q \in Nat
      /\ ss + 1 + r \in Nat /\ cs + 2 + q \in Nat
  OBVIOUS
<1>3. /\ {SYN} \in SUBSET {SYN, FIN, ACK, PSH} /\ {SYN, ACK} \in SUBSET {SYN, FIN, ACK, PSH}
      /\ {ACK} \in SUBSET {SYN, FIN, ACK, PSH} /\ {PSH, ACK} \in SUBSET {SYN, FIN, ACK, PSH}
      /\ {FIN, ACK} \in SUBSET {SYN, FIN, ACK, PSH}
  OBVIOUS
<1>4. /\ tcp_segment("c", cs, 0, {SYN}, 0) \in Packet
      /\ tcp_segment("s", ss, cs + 1, {SYN, ACK}, 0) \in Packet
      /\ tcp_segment("c", cs + 1, ss + 1, {ACK}, 0) \in Packet
      /\ tcp_segment("c", cs + 1, ss + 1, {PSH, ACK}, q) \in Packet
      /\ tcp_segment("s", ss + 1, cs + 1 + q, {PSH, ACK}, r) \in Packet
      /\ tcp_segment("c", cs + 1 + q, ss + 1 + r, {FIN, ACK}, 0) \in Packet
      /\ tcp_segment("s", ss + 1 + r, cs + 2 + q, {FIN, ACK}, 0) \in Packet
  BY <1>2, <1>3, SegmentType
<1> QED
  BY <1>1, <1>4 DEF packet_sequence

LEMMA GenInitType == GenInit => GenTypeOK
  BY DEF GenInit, GenTypeOK

LEMMA GenStepType ==
  ASSUME GenTypeOK, GenStep \/ Tick
  PROVE  GenTypeOK'
<1>0. /\ clock \in Nat /\ started \in Nat /\ segment \in Nat /\ generated \in Nat
      /\ duration \in Durations /\ open \subseteq Segment /\ pcaps \subseteq Segment
      /\ wire \in Seq(Packet) /\ gpc \in {"start", "loop", "write", "sleep", "ended"}
  BY DEF GenTypeOK, Segment, Packet
<1> SUFFICES /\ clock' \in Nat /\ started' \in Nat /\ segment' \in Nat /\ generated' \in Nat
             /\ duration' \in Durations /\ open' \subseteq Segment /\ pcaps' \subseteq Segment
             /\ wire' \in Seq(Packet) /\ gpc' \in {"start", "loop", "write", "sleep", "ended"}
  BY DEF GenTypeOK, Segment, Packet
<1>1. CASE BeginGenerating \/ Wake \/ Tick
  BY <1>0, <1>1 DEF BeginGenerating, Wake, Tick
<1>2. CASE OpenSegment
  <2>1. clock - started \in Int
    BY <1>0
  <2>2. PICK secs : secs = segment_seconds(clock - started)
    OBVIOUS
  <2>3. secs \in Nat /\ Rps * secs \in Nat
    BY <2>1, <2>2, SegmentSeconds
  <2>4. open' = open \/ open' = {[segment |-> segment, start |-> clock, seconds |-> secs,
                                  first |-> generated, written |-> 0, requests |-> Rps * secs]}
    BY <1>2, <2>2 DEF OpenSegment
  <2>5. open' \subseteq Segment
    BY <1>0, <2>3, <2>4 DEF Segment
  <2> QED
    BY <1>0, <1>2, <2>5 DEF OpenSegment
<1>3. CASE WriteRequest
  <2>1. PICK f \in open : open' = {[f EXCEPT !.written = f.written + 1]}
    BY <1>3 DEF WriteRequest
  <2>2. open' \subseteq Segment
    <3>1. f \in Segment /\ f.written + 1 \in Nat
      BY <1>0 DEF Segment
    <3>2. [f EXCEPT !.written = f.written + 1] \in Segment
      BY <3>1 DEF Segment
    <3> QED
      BY <2>1, <3>2
  <2>3. wire' \in Seq(Packet)
    BY <1>3, SequenceType DEF WriteRequest
  <2> QED
    BY <1>0, <1>3, <2>2, <2>3 DEF WriteRequest
<1>4. CASE Publish
  <2>1. PICK f \in open : pcaps' = pcaps \cup {f} /\ generated' = generated + f.requests
    BY <1>4 DEF Publish
  <2>2. f \in Segment /\ f.requests \in Nat
    BY <1>0 DEF Segment
  <2> QED
    BY <1>0, <1>4, <2>1, <2>2 DEF Publish
<1> QED
  BY <1>1, <1>2, <1>3, <1>4 DEF GenStep
--------------------------------------------------------------------------------
(* The files of the generator. *)

LEMMA TimesOfAFile ==
  ASSUME NEW f \in Segment
  PROVE  /\ f.segment \in Nat /\ f.start \in Nat /\ f.first \in Nat /\ f.requests \in Nat
         /\ EndOf(f) \in Nat
<1>1. /\ f.segment \in Nat /\ f.start \in Nat /\ f.first \in Nat /\ f.requests \in Nat
      /\ f.seconds \in Nat
  BY DEF Segment
<1>2. TicksPerSecond \in Nat
  BY GeneratorAssumption
<1>3. PICK t : t = f.seconds * TicksPerSecond
  OBVIOUS
<1>4. t \in Nat
  BY <1>1, <1>2, <1>3
<1> QED
  BY <1>1, <1>3, <1>4 DEF EndOf

LEMMA InitFiles == GenInit => FilesInv
  BY DEF GenInit, FilesInv, PublishedInv, OpenInv, PaceInv

LEMMA PublishKeepsFiles ==
  ASSUME GenTypeOK, FilesInv, Publish
  PROVE  FilesInv'
<1>1. PICK f \in open : /\ f.written = f.requests
                        /\ pcaps' = pcaps \cup {f} /\ generated' = generated + f.requests
  BY DEF Publish
<1>2. /\ open' = {} /\ segment' = segment + 1 /\ gpc' \in {"ended", "sleep"}
      /\ clock' = clock
  BY DEF Publish
<1>3. /\ segment \in Nat /\ generated \in Nat /\ clock \in Nat
      /\ open \subseteq Segment /\ pcaps \subseteq Segment
  BY DEF GenTypeOK, Segment
<1>4. /\ f.segment = segment /\ f.first = generated /\ f.start <= clock
      /\ \A g \in pcaps : EndOf(g) <= f.start
  BY DEF FilesInv, OpenInv
<1>5. /\ f \in Segment /\ f.requests \in Nat /\ f.start \in Nat /\ EndOf(f) \in Nat
      /\ \A g \in pcaps : /\ g.segment \in Nat /\ g.first \in Nat /\ g.requests \in Nat
                          /\ g.segment < segment /\ g.first + g.requests <= generated
  BY <1>3, TimesOfAFile DEF FilesInv, PublishedInv
<1>6. \A g : EndOf(g)' = EndOf(g) /\ NumbersOf(g)' = NumbersOf(g)
  BY DEF EndOf, NumbersOf
<1>7. PublishedInv'
  <2>1. \A g \in pcaps' : /\ g.written = g.requests /\ g.segment < segment'
                          /\ g.first + g.requests <= generated'
    BY <1>1, <1>2, <1>3, <1>4, <1>5 DEF FilesInv, PublishedInv
  <2>2. \A g, h \in pcaps' : g.segment < h.segment =>
           g.first + g.requests <= h.first /\ EndOf(g) <= h.start
    BY <1>1, <1>3, <1>4, <1>5 DEF FilesInv, PublishedInv
  <2>3. \A g, h \in pcaps' : g.segment = h.segment => g = h
    BY <1>1, <1>3, <1>4, <1>5 DEF FilesInv, PublishedInv
  <2>4. UNION {NumbersOf(g) : g \in pcaps'} = 0..generated' - 1
    <3>1. UNION {NumbersOf(g) : g \in pcaps} = 0..generated - 1
      BY DEF FilesInv, PublishedInv
    <3>2. UNION {NumbersOf(g) : g \in pcaps'} = (0..generated - 1) \cup NumbersOf(f)
      BY <1>1, <3>1
    <3>3. NumbersOf(f) = generated..generated + f.requests - 1
      BY <1>4 DEF NumbersOf
    <3>4. PICK r \in Nat : r = f.requests
      BY <1>5
    <3>5. (0..generated - 1) \cup (generated..generated + r - 1) = 0..generated + r - 1
      BY <1>3
    <3>6. UNION {NumbersOf(g) : g \in pcaps'} = (0..generated - 1) \cup (generated..generated + r - 1)
      BY <3>2, <3>3, <3>4
    <3>7. generated' = generated + r
      BY <1>1, <3>4
    <3>8. generated' - 1 = generated + r - 1
      BY <1>3, <3>7
    <3> QED
      BY <3>5, <3>6, <3>8, Zenon
  <2> QED
    BY <1>6, <2>1, <2>2, <2>3, <2>4 DEF PublishedInv
<1>8. OpenInv'
  BY <1>2 DEF OpenInv
<1>9. PaceInv'
  <2>1. \A g \in pcaps' : g.segment = segment' - 1 => g = f
    BY <1>1, <1>2, <1>3, <1>5
  <2>2. f.segment = segment' - 1
    BY <1>2, <1>3, <1>4
  <2>3. \A g \in pcaps' : g.segment # segment' - 1 => EndOf(g) <= f.start
    BY <1>1, <1>4, <2>2
  <2> QED
    BY <1>2, <1>4, <1>6, <2>1, <2>3 DEF PaceInv
<1> QED
  BY <1>7, <1>8, <1>9 DEF FilesInv

LEMMA GenStepKeepsFiles ==
  ASSUME GenTypeOK, FilesInv, GenStep \/ Tick
  PROVE  FilesInv'
<1>0. /\ segment \in Nat /\ generated \in Nat /\ clock \in Nat
      /\ open \subseteq Segment /\ pcaps \subseteq Segment
  BY DEF GenTypeOK, Segment
<1>1. \A g \in pcaps : g.start \in Nat /\ g.segment \in Nat /\ EndOf(g) \in Nat
  BY <1>0, TimesOfAFile
<1>2. \A g \in open : g.start \in Nat
  BY <1>0, TimesOfAFile
<1>3. \A g : EndOf(g)' = EndOf(g) /\ NumbersOf(g)' = NumbersOf(g)
  BY DEF EndOf, NumbersOf
<1>4. PublishedInv /\ OpenInv /\ PaceInv
  BY DEF FilesInv
<1>5. CASE BeginGenerating
  <2>1. /\ gpc = "start" /\ gpc' = "loop"
        /\ UNCHANGED <<clock, segment, generated, open, pcaps>>
    BY <1>5 DEF BeginGenerating
  <2>2. PublishedInv' /\ OpenInv'
    BY <1>3, <1>4, <2>1 DEF PublishedInv, OpenInv
  <2>3. PaceInv'
    BY <1>4, <2>1 DEF PaceInv
  <2> QED
    BY <2>2, <2>3 DEF FilesInv
<1>6. CASE OpenSegment
  <2>1. /\ gpc = "loop" /\ gpc' \in {"ended", "write"}
        /\ UNCHANGED <<clock, segment, generated, pcaps>>
    BY <1>6 DEF OpenSegment
  <2>2. open = {} /\ \A g \in pcaps : EndOf(g) <= clock
    BY <1>4, <2>1 DEF PaceInv
  <2>3. PublishedInv'
    BY <1>3, <1>4, <2>1 DEF PublishedInv
  <2>4. OpenInv'
    <3>1. CASE open' = open
      BY <2>2, <3>1 DEF OpenInv
    <3>2. CASE open' # open
      <4>1. PICK secs : secs = segment_seconds(clock - started)
        OBVIOUS
      <4>2. open' = {[segment |-> segment, start |-> clock, seconds |-> secs,
                      first |-> generated, written |-> 0, requests |-> Rps * secs]}
        BY <1>6, <3>2, <4>1 DEF OpenSegment
      <4> DEFINE f == [segment |-> segment, start |-> clock, seconds |-> secs,
                       first |-> generated, written |-> 0, requests |-> Rps * secs]
      <4>3. f.segment = segment /\ f.first = generated /\ f.start = clock /\ open' = {f}
        BY <4>2
      <4> HIDE DEF f
      <4>4. f.start <= clock
        BY <1>0, <4>3
      <4> QED
        BY <1>3, <2>1, <2>2, <4>3, <4>4 DEF OpenInv
    <3> QED
      BY <3>1, <3>2
  <2>5. PaceInv'
    BY <2>1 DEF PaceInv
  <2> QED
    BY <2>3, <2>4, <2>5 DEF FilesInv
<1>7. CASE WriteRequest
  <2>1. /\ gpc = "write" /\ gpc' = "write"
        /\ UNCHANGED <<clock, segment, generated, pcaps>>
    BY <1>7 DEF WriteRequest
  <2>2. PICK f \in open : open' = {[f EXCEPT !.written = f.written + 1]}
    BY <1>7 DEF WriteRequest
  <2>3. /\ f \in Segment
        /\ [f EXCEPT !.written = f.written + 1].segment = f.segment
        /\ [f EXCEPT !.written = f.written + 1].first = f.first
        /\ [f EXCEPT !.written = f.written + 1].start = f.start
    BY <1>0, <2>2 DEF Segment
  <2>4. PICK h : /\ open' = {h}
                 /\ h.segment = f.segment /\ h.first = f.first /\ h.start = f.start
    BY <2>2, <2>3
  <2>5. PublishedInv'
    BY <1>3, <1>4, <2>1 DEF PublishedInv
  <2>6. OpenInv'
    BY <1>3, <1>4, <2>1, <2>2, <2>4 DEF OpenInv
  <2>7. PaceInv'
    BY <2>1 DEF PaceInv
  <2> QED
    BY <2>5, <2>6, <2>7 DEF FilesInv
<1>8. CASE Publish
  BY <1>8, PublishKeepsFiles
<1>9. CASE Wake
  <2>1. /\ gpc = "sleep" /\ gpc' = "loop"
        /\ UNCHANGED <<clock, segment, generated, open, pcaps>>
    BY <1>9 DEF Wake
  <2>2. PICK g \in pcaps : g.segment = segment - 1 /\ EndOf(g) <= clock
    BY <1>0, <1>9, TimesOfAFile DEF Wake, EndOf
  <2>3. /\ g.start <= clock
        /\ \A f \in pcaps : f.segment # segment - 1 => EndOf(f) <= g.start
    BY <1>4, <2>1, <2>2 DEF PaceInv
  <2>4. \A f \in pcaps : EndOf(f) <= clock
    <3> TAKE f \in pcaps
    <3>1. CASE f.segment = segment - 1
      <4>1. f.segment = g.segment
        BY <2>2, <3>1
      <4>2. f = g
        BY <1>4, <4>1 DEF PublishedInv
      <4> QED
        BY <2>2, <4>2
    <3>2. CASE f.segment # segment - 1
      BY <1>0, <1>1, <2>3, <3>2
    <3> QED
      BY <3>1, <3>2
  <2>5. PublishedInv' /\ OpenInv'
    BY <1>3, <1>4, <2>1 DEF PublishedInv, OpenInv
  <2>6. PaceInv'
    BY <1>3, <1>4, <2>1, <2>4 DEF PaceInv
  <2> QED
    BY <2>5, <2>6 DEF FilesInv
<1>10. CASE Tick
  <2>1. clock' = clock + 1 /\ UNCHANGED <<gpc, segment, generated, open, pcaps>>
    BY <1>10 DEF Tick
  <2>2. PublishedInv'
    BY <1>3, <1>4, <2>1 DEF PublishedInv
  <2>3. OpenInv'
    BY <1>0, <1>2, <1>3, <1>4, <2>1 DEF OpenInv
  <2>4. PaceInv'
    BY <1>0, <1>1, <1>3, <1>4, <2>1 DEF PaceInv
  <2> QED
    BY <2>2, <2>3, <2>4 DEF FilesInv
<1> QED
  BY <1>5, <1>6, <1>7, <1>8, <1>9, <1>10 DEF GenStep
--------------------------------------------------------------------------------
(* The conversation of a request. *)

LEMMA DivUnique ==
  ASSUME NEW m \in Nat \ {0}, NEW q \in Int, NEW r \in Int, NEW a \in Int,
         0 <= r, r < m, a = q * m + r
  PROVE  a % m = r
<1>1. a = m * (a \div m) + (a % m) /\ a % m \in 0..m - 1 /\ a \div m \in Int
  OBVIOUS
<1> DEFINE d == q - (a \div m)
<1>2. d \in Int
  BY <1>1
<1>3. m * d = (a % m) - r
  BY <1>1
<1> HIDE DEF d
<1>4. d = 0
  <2>1. CASE d >= 1
    <3>1. m * d >= m
      BY <2>1, <1>2
    <3> QED
      BY <3>1, <1>1, <1>3
  <2>2. CASE d <= -1
    <3>1. m * d <= -m
      BY <2>2, <1>2
    <3> QED
      BY <3>1, <1>1, <1>3
  <2> QED
    BY <2>1, <2>2, <1>2
<1>5. m * 0 = 0
  OBVIOUS
<1> QED
  BY <1>1, <1>3, <1>4, <1>5

LEMMA ModAdd ==
  ASSUME NEW m \in Nat \ {0}, NEW a \in Nat, NEW b \in Nat
  PROVE  ((a % m) + b) % m = (a + b) % m
<1>1. a = m * (a \div m) + (a % m) /\ a % m \in 0..m - 1 /\ a \div m \in Int
  OBVIOUS
<1>2. PICK c \in Int : c = (a % m) + b
  BY <1>1
<1>3. c = m * (c \div m) + (c % m) /\ c % m \in 0..m - 1 /\ c \div m \in Int
  BY <1>2
<1>4. a + b = ((a \div m) + (c \div m)) * m + (c % m)
  BY <1>1, <1>2, <1>3
<1>5. (a \div m) + (c \div m) \in Int /\ c % m \in Int /\ 0 <= c % m /\ c % m < m /\ a + b \in Int
  BY <1>1, <1>3
<1>6. PICK x \in Int, q \in Int, r \in Int : x = a + b /\ q = (a \div m) + (c \div m) /\ r = c % m
  BY <1>5
<1>7. x = q * m + r /\ 0 <= r /\ r < m
  BY <1>4, <1>5, <1>6
<1>8. x % m = r
  BY <1>7, DivUnique
<1> QED
  BY <1>2, <1>6, <1>8

LEMMA MaxIs ==
  ASSUME NEW S, S \subseteq Int, NEW m \in S, \A k \in S : k <= m
  PROVE  Max(S) = m
<1>1. \E x \in S : \A y \in S : x >= y
  OBVIOUS
<1>2. Max(S) \in S /\ Max(S) >= m
  BY <1>1 DEF Max
<1>3. Max(S) \in Int /\ m \in Int /\ Max(S) <= m
  BY <1>2
<1> QED
  BY <1>2, <1>3

LEMMA CountedFlags ==
  /\ Cardinality({SYN} \cap {SYN, FIN}) = 1
  /\ Cardinality({SYN, ACK} \cap {SYN, FIN}) = 1
  /\ Cardinality({FIN, ACK} \cap {SYN, FIN}) = 1
  /\ Cardinality({ACK} \cap {SYN, FIN}) = 0
  /\ Cardinality({PSH, ACK} \cap {SYN, FIN}) = 0
<1>1. /\ {SYN} \cap {SYN, FIN} = {SYN} /\ {SYN, ACK} \cap {SYN, FIN} = {SYN}
      /\ {FIN, ACK} \cap {SYN, FIN} = {FIN} /\ {ACK} \cap {SYN, FIN} = {}
      /\ {PSH, ACK} \cap {SYN, FIN} = {}
  BY DEF SYN, FIN, ACK, PSH
<1> QED
  BY <1>1, FS_Singleton, FS_EmptySet

\* What ConversationIsSound says of packet n, with names for its parts.
Wrapped(x) == x % SeqSpace
EndsAt(p) == (p.seq + p.len + Cardinality(p.flags \cap {SYN, FIN})) % SeqSpace
SentBefore(n, side) == {k \in 1..n - 1 : wire[k].from = side}
OtherSide(side) == IF side = "c" THEN "s" ELSE "c"
PacketIsSound(n) ==
    LET own == SentBefore(n, wire[n].from)
        theirs == SentBefore(n, OtherSide(wire[n].from))
    IN  /\ own # {} => wire[n].seq = EndsAt(wire[Max(own)])
        /\ theirs # {} => /\ ACK \in wire[n].flags
                          /\ wire[n].ack = EndsAt(wire[Max(theirs)])

\* The last packet of a side before packet n is the one after which only others came.
LEMMA LastOfSide ==
  ASSUME NEW n \in Nat, NEW side, NEW m \in 1..n - 1, wire[m].from = side,
         \A k \in 1..n - 1 : wire[k].from = side => k <= m
  PROVE  Max(SentBefore(n, side)) = m
<1>1. SentBefore(n, side) \subseteq Int /\ m \in SentBefore(n, side)
  BY DEF SentBefore
<1>2. \A k \in SentBefore(n, side) : k <= m
  BY DEF SentBefore
<1> QED
  BY <1>1, <1>2, MaxIs

LEMMA SegmentEnds ==
  ASSUME NEW p, NEW x \in Nat, NEW len \in Nat, NEW bytes \in Nat, NEW z \in Nat,
         p.seq = Wrapped(x), p.len = len, Cardinality(p.flags \cap {SYN, FIN}) = bytes,
         z = x + len + bytes
  PROVE  EndsAt(p) = Wrapped(z)
<1>1. SeqSpace \in Nat \ {0}
  BY GeneratorAssumption
<1>2. PICK y \in Nat : y = len + bytes
  OBVIOUS
<1>3. ((x % SeqSpace) + y) % SeqSpace = (x + y) % SeqSpace
  BY <1>1, ModAdd
<1>4. PICK w \in Nat : w = x % SeqSpace
  BY <1>1
<1>5. w + len + bytes = w + y /\ z = x + y
  BY <1>2
<1> QED
  BY <1>3, <1>4, <1>5 DEF EndsAt, Wrapped

LEMMA RequestIsSound ==
  ASSUME NEW d \in Draws, wire = packet_sequence(d[1], d[2], d[3], d[4])
  PROVE  ConversationIsSound
<1>1. PICK cs \in Nat, ss \in Nat, q \in Nat, r \in Nat :
         d[1] = cs /\ d[2] = ss /\ d[3] = q /\ d[4] = r
  BY GeneratorAssumption
<1>2. PICK cs1 \in Nat, ss1 \in Nat, cs2 \in Nat, ss2 \in Nat, cs3 \in Nat :
         /\ cs1 = cs + 1 /\ ss1 = ss + 1 /\ cs2 = cs + 1 + q /\ ss2 = ss + 1 + r
         /\ cs3 = cs + 2 + q
  OBVIOUS
<1>3. wire = << tcp_segment("c", cs, 0, {SYN}, 0),
                tcp_segment("s", ss, cs1, {SYN, ACK}, 0),
                tcp_segment("c", cs1, ss1, {ACK}, 0),
                tcp_segment("c", cs1, ss1, {PSH, ACK}, q),
                tcp_segment("s", ss1, cs2, {PSH, ACK}, r),
                tcp_segment("c", cs2, ss2, {FIN, ACK}, 0),
                tcp_segment("s", ss2, cs3, {FIN, ACK}, 0) >>
  BY <1>1, <1>2 DEF packet_sequence
<1>4. /\ Len(wire) = 7
      /\ wire[1] = tcp_segment("c", cs, 0, {SYN}, 0)
      /\ wire[2] = tcp_segment("s", ss, cs1, {SYN, ACK}, 0)
      /\ wire[3] = tcp_segment("c", cs1, ss1, {ACK}, 0)
      /\ wire[4] = tcp_segment("c", cs1, ss1, {PSH, ACK}, q)
      /\ wire[5] = tcp_segment("s", ss1, cs2, {PSH, ACK}, r)
      /\ wire[6] = tcp_segment("c", cs2, ss2, {FIN, ACK}, 0)
      /\ wire[7] = tcp_segment("s", ss2, cs3, {FIN, ACK}, 0)
  BY <1>3
<1>5. /\ wire[1].from = "c" /\ wire[2].from = "s" /\ wire[3].from = "c" /\ wire[4].from = "c"
      /\ wire[5].from = "s" /\ wire[6].from = "c" /\ wire[7].from = "s"
  BY <1>4 DEF tcp_segment, Wrapped
<1>6. /\ ACK \in wire[2].flags /\ ACK \in wire[3].flags /\ ACK \in wire[4].flags
      /\ ACK \in wire[5].flags /\ ACK \in wire[6].flags /\ ACK \in wire[7].flags
  BY <1>4 DEF tcp_segment, Wrapped
<1>7. /\ wire[2].ack = Wrapped(cs1)
      /\ wire[3].seq = Wrapped(cs1) /\ wire[3].ack = Wrapped(ss1)
      /\ wire[4].seq = Wrapped(cs1) /\ wire[4].ack = Wrapped(ss1)
      /\ wire[5].seq = Wrapped(ss1) /\ wire[5].ack = Wrapped(cs2)
      /\ wire[6].seq = Wrapped(cs2) /\ wire[6].ack = Wrapped(ss2)
      /\ wire[7].seq = Wrapped(ss2) /\ wire[7].ack = Wrapped(cs3)
  BY <1>4 DEF tcp_segment, Wrapped
<1>8. /\ EndsAt(wire[1]) = Wrapped(cs1)
      /\ EndsAt(wire[2]) = Wrapped(ss1)
      /\ EndsAt(wire[3]) = Wrapped(cs1)
      /\ EndsAt(wire[4]) = Wrapped(cs2)
      /\ EndsAt(wire[5]) = Wrapped(ss2)
      /\ EndsAt(wire[6]) = Wrapped(cs3)
  <2>1. EndsAt(wire[1]) = Wrapped(cs1)
    <3>1. wire[1].seq = Wrapped(cs) /\ wire[1].len = 0
      BY <1>4 DEF tcp_segment, Wrapped
    <3>2. wire[1].flags = {SYN}
      BY <1>4 DEF tcp_segment
    <3>3. Cardinality(wire[1].flags \cap {SYN, FIN}) = 1
      BY <3>2, CountedFlags
    <3>4. cs1 = cs + 0 + 1
      BY <1>2
    <3> QED
      BY <3>1, <3>3, <3>4, SegmentEnds
  <2>2. EndsAt(wire[2]) = Wrapped(ss1)
    <3>1. wire[2].seq = Wrapped(ss) /\ wire[2].len = 0
      BY <1>4 DEF tcp_segment, Wrapped
    <3>2. wire[2].flags = {SYN, ACK}
      BY <1>4 DEF tcp_segment
    <3>3. Cardinality(wire[2].flags \cap {SYN, FIN}) = 1
      BY <3>2, CountedFlags
    <3>4. ss1 = ss + 0 + 1
      BY <1>2
    <3> QED
      BY <3>1, <3>3, <3>4, SegmentEnds
  <2>3. EndsAt(wire[3]) = Wrapped(cs1)
    <3>1. wire[3].seq = Wrapped(cs1) /\ wire[3].len = 0
      BY <1>4 DEF tcp_segment, Wrapped
    <3>2. wire[3].flags = {ACK}
      BY <1>4 DEF tcp_segment
    <3>3. Cardinality(wire[3].flags \cap {SYN, FIN}) = 0
      BY <3>2, CountedFlags
    <3>4. cs1 = cs1 + 0 + 0
      BY <1>2
    <3> QED
      BY <3>1, <3>3, <3>4, SegmentEnds
  <2>4. EndsAt(wire[4]) = Wrapped(cs2)
    <3>1. wire[4].seq = Wrapped(cs1) /\ wire[4].len = q
      BY <1>4 DEF tcp_segment, Wrapped
    <3>2. wire[4].flags = {PSH, ACK}
      BY <1>4 DEF tcp_segment
    <3>3. Cardinality(wire[4].flags \cap {SYN, FIN}) = 0
      BY <3>2, CountedFlags
    <3>4. cs2 = cs1 + q + 0
      BY <1>2
    <3> QED
      BY <3>1, <3>3, <3>4, SegmentEnds
  <2>5. EndsAt(wire[5]) = Wrapped(ss2)
    <3>1. wire[5].seq = Wrapped(ss1) /\ wire[5].len = r
      BY <1>4 DEF tcp_segment, Wrapped
    <3>2. wire[5].flags = {PSH, ACK}
      BY <1>4 DEF tcp_segment
    <3>3. Cardinality(wire[5].flags \cap {SYN, FIN}) = 0
      BY <3>2, CountedFlags
    <3>4. ss2 = ss1 + r + 0
      BY <1>2
    <3> QED
      BY <3>1, <3>3, <3>4, SegmentEnds
  <2>6. EndsAt(wire[6]) = Wrapped(cs3)
    <3>1. wire[6].seq = Wrapped(cs2) /\ wire[6].len = 0
      BY <1>4 DEF tcp_segment, Wrapped
    <3>2. wire[6].flags = {FIN, ACK}
      BY <1>4 DEF tcp_segment
    <3>3. Cardinality(wire[6].flags \cap {SYN, FIN}) = 1
      BY <3>2, CountedFlags
    <3>4. cs3 = cs2 + 0 + 1
      BY <1>2
    <3> QED
      BY <3>1, <3>3, <3>4, SegmentEnds
  <2> QED
    BY <2>1, <2>2, <2>3, <2>4, <2>5, <2>6
<1>9. PacketIsSound(1)
  BY <1>5 DEF PacketIsSound, SentBefore
<1>10. PacketIsSound(2)
  <2>1. \A k \in 1..2 - 1 : k = 1
    OBVIOUS
  <2>2. Max(SentBefore(2, "c")) = 1
    <3>1. \A k \in 1..2 - 1 : wire[k].from = "c" => k <= 1
      BY <1>5, <2>1
    <3>2. 2 \in Nat /\ 1 \in 1..2 - 1
      OBVIOUS
    <3> QED
      BY <1>5, <3>1, <3>2, LastOfSide
  <2>3. SentBefore(2, "s") = {}
    BY <1>5, <2>1 DEF SentBefore
  <2> QED
    BY <1>5, <1>6, <1>7, <1>8, <2>2, <2>3 DEF PacketIsSound, OtherSide
<1>11. PacketIsSound(3)
  <2>1. \A k \in 1..3 - 1 : k = 1 \/ k = 2
    OBVIOUS
  <2>2. Max(SentBefore(3, "s")) = 2
    <3>1. \A k \in 1..3 - 1 : wire[k].from = "s" => k <= 2
      BY <1>5, <2>1
    <3>2. 3 \in Nat /\ 2 \in 1..3 - 1
      OBVIOUS
    <3> QED
      BY <1>5, <3>1, <3>2, LastOfSide
  <2>3. Max(SentBefore(3, "c")) = 1
    <3>1. \A k \in 1..3 - 1 : wire[k].from = "c" => k <= 1
      BY <1>5, <2>1
    <3>2. 3 \in Nat /\ 1 \in 1..3 - 1
      OBVIOUS
    <3> QED
      BY <1>5, <3>1, <3>2, LastOfSide
  <2> QED
    BY <1>5, <1>6, <1>7, <1>8, <2>2, <2>3 DEF PacketIsSound, OtherSide
<1>12. PacketIsSound(4)
  <2>1. \A k \in 1..4 - 1 : k = 1 \/ k = 2 \/ k = 3
    OBVIOUS
  <2>2. Max(SentBefore(4, "s")) = 2
    <3>1. \A k \in 1..4 - 1 : wire[k].from = "s" => k <= 2
      BY <1>5, <2>1
    <3>2. 4 \in Nat /\ 2 \in 1..4 - 1
      OBVIOUS
    <3> QED
      BY <1>5, <3>1, <3>2, LastOfSide
  <2>3. Max(SentBefore(4, "c")) = 3
    <3>1. \A k \in 1..4 - 1 : wire[k].from = "c" => k <= 3
      BY <1>5, <2>1
    <3>2. 4 \in Nat /\ 3 \in 1..4 - 1
      OBVIOUS
    <3> QED
      BY <1>5, <3>1, <3>2, LastOfSide
  <2> QED
    BY <1>5, <1>6, <1>7, <1>8, <2>2, <2>3 DEF PacketIsSound, OtherSide
<1>13. PacketIsSound(5)
  <2>1. \A k \in 1..5 - 1 : k = 1 \/ k = 2 \/ k = 3 \/ k = 4
    OBVIOUS
  <2>2. Max(SentBefore(5, "c")) = 4
    <3>1. \A k \in 1..5 - 1 : wire[k].from = "c" => k <= 4
      BY <1>5, <2>1
    <3>2. 5 \in Nat /\ 4 \in 1..5 - 1
      OBVIOUS
    <3> QED
      BY <1>5, <3>1, <3>2, LastOfSide
  <2>3. Max(SentBefore(5, "s")) = 2
    <3>1. \A k \in 1..5 - 1 : wire[k].from = "s" => k <= 2
      BY <1>5, <2>1
    <3>2. 5 \in Nat /\ 2 \in 1..5 - 1
      OBVIOUS
    <3> QED
      BY <1>5, <3>1, <3>2, LastOfSide
  <2> QED
    BY <1>5, <1>6, <1>7, <1>8, <2>2, <2>3 DEF PacketIsSound, OtherSide
<1>14. PacketIsSound(6)
  <2>1. \A k \in 1..6 - 1 : k = 1 \/ k = 2 \/ k = 3 \/ k = 4 \/ k = 5
    OBVIOUS
  <2>2. Max(SentBefore(6, "s")) = 5
    <3>1. \A k \in 1..6 - 1 : wire[k].from = "s" => k <= 5
      BY <1>5, <2>1
    <3>2. 6 \in Nat /\ 5 \in 1..6 - 1
      OBVIOUS
    <3> QED
      BY <1>5, <3>1, <3>2, LastOfSide
  <2>3. Max(SentBefore(6, "c")) = 4
    <3>1. \A k \in 1..6 - 1 : wire[k].from = "c" => k <= 4
      BY <1>5, <2>1
    <3>2. 6 \in Nat /\ 4 \in 1..6 - 1
      OBVIOUS
    <3> QED
      BY <1>5, <3>1, <3>2, LastOfSide
  <2> QED
    BY <1>5, <1>6, <1>7, <1>8, <2>2, <2>3 DEF PacketIsSound, OtherSide
<1>15. PacketIsSound(7)
  <2>1. \A k \in 1..7 - 1 : k = 1 \/ k = 2 \/ k = 3 \/ k = 4 \/ k = 5 \/ k = 6
    OBVIOUS
  <2>2. Max(SentBefore(7, "c")) = 6
    <3>1. \A k \in 1..7 - 1 : wire[k].from = "c" => k <= 6
      BY <1>5, <2>1
    <3>2. 7 \in Nat /\ 6 \in 1..7 - 1
      OBVIOUS
    <3> QED
      BY <1>5, <3>1, <3>2, LastOfSide
  <2>3. Max(SentBefore(7, "s")) = 5
    <3>1. \A k \in 1..7 - 1 : wire[k].from = "s" => k <= 5
      BY <1>5, <2>1
    <3>2. 7 \in Nat /\ 5 \in 1..7 - 1
      OBVIOUS
    <3> QED
      BY <1>5, <3>1, <3>2, LastOfSide
  <2> QED
    BY <1>5, <1>6, <1>7, <1>8, <2>2, <2>3 DEF PacketIsSound, OtherSide
<1>16. \A n \in 1..Len(wire) : PacketIsSound(n)
  <2>1. \A n \in 1..7 : n = 1 \/ n = 2 \/ n = 3 \/ n = 4 \/ n = 5 \/ n = 6 \/ n = 7
    OBVIOUS
  <2> QED
    BY <1>4, <1>9, <1>10, <1>11, <1>12, <1>13, <1>14, <1>15, <2>1
<1> QED
  BY <1>16 DEF ConversationIsSound, PacketIsSound, SentBefore, OtherSide, EndsAt

\* The packets written last are those of a request, or there are none.
WireInv == wire = << >> \/ \E d \in Draws : wire = packet_sequence(d[1], d[2], d[3], d[4])

LEMMA NextWire == WireInv /\ (GenStep \/ Tick \/ UNCHANGED genVars) => WireInv'
<1> SUFFICES ASSUME WireInv, GenStep \/ Tick \/ UNCHANGED genVars PROVE WireInv'
  OBVIOUS
<1>1. \/ wire' = wire \/ wire' = << >>
      \/ \E d \in Draws : wire' = packet_sequence(d[1], d[2], d[3], d[4])
  BY DEF GenStep, BeginGenerating, OpenSegment, WriteRequest, Publish, Wake, Tick, genVars
<1>2. CASE wire' = wire \/ wire' = << >>
  BY <1>2 DEF WireInv, packet_sequence, tcp_segment
<1>3. CASE \E d \in Draws : wire' = packet_sequence(d[1], d[2], d[3], d[4])
  BY <1>3 DEF WireInv, packet_sequence, tcp_segment
<1> QED
  BY <1>1, <1>2, <1>3
--------------------------------------------------------------------------------
(* The invariant of the harness. *)

LEMMA InitHarness == Init => HarnessInv
<1> SUFFICES ASSUME Init PROVE HarnessInv
  OBVIOUS
<1>1. /\ pc = "prepare" /\ child = "none" /\ alive = {} /\ held = {} /\ excuses = {}
      /\ pod = 1 /\ rsync_pod = 0 /\ script = 0 /\ sshd = 0 /\ interrupts = 0 /\ faults = 0
  BY DEF Init
<1>2. /\ no_restore \in BOOLEAN /\ restore_source = FALSE
      /\ source \in {"original", "unset"} /\ old_rsync_source = ""
  BY DEF Init
<1>3. StageInv /\ HandlesInv /\ StoppedInv
  BY <1>1 DEF StageInv, HandlesInv, StoppedInv, Running, Cleaning
<1>4. SshdInv /\ BoundsInv
  BY <1>1, HarnessAssumption DEF SshdInv, SshdStopped, Restored, BoundsInv
<1>5. SourceInv
  BY <1>1, <1>2 DEF SourceInv, Restored, Sources
<1> QED
  BY <1>3, <1>4, <1>5 DEF HarnessInv

LEMMA RunKeeps ==
  ASSUME HarnessInv, RunStep
  PROVE  HarnessInv'
<1> USE DEF Goto, Leave, patch_rsync_source, inPod, cluster, flags, bounds
<1>1. CASE Prepare
  <2>1. /\ pc = "prepare" /\ pc' = "read" /\ child' = "none"
        /\ excuses' = excuses
    BY <1>1 DEF Prepare
  <2>2. alive' = alive /\ held' = held
    BY <1>1 DEF Prepare
  <2>3. /\ pod' = pod /\ rsync_pod' = rsync_pod /\ sshd' = sshd
        /\ script' = script /\ interrupts' = interrupts /\ faults' = faults
    BY <1>1 DEF Prepare
  <2>4. /\ no_restore' = no_restore /\ restore_source' = restore_source
        /\ source' = source /\ old_rsync_source' = old_rsync_source
    BY <1>1 DEF Prepare
  <2>5. StageInv'
    BY <2>1 DEF HarnessInv, StageInv, Running, Cleaning, Procs
  <2>6. HandlesInv' /\ StoppedInv'
    BY <2>1, <2>2 DEF HarnessInv, StageInv, HandlesInv, StoppedInv, Later, Running, Cleaning, Procs
  <2>7. SshdInv' /\ BoundsInv'
    BY <2>1, <2>3, <2>4, HarnessAssumption
    DEF HarnessInv, StageInv, SshdInv, SshdStopped, Restored, PatchExcused, BoundsInv, Running, Cleaning
  <2>8. SourceInv'
    BY <2>1, <2>4 DEF HarnessInv, StageInv, SourceInv, Restored, PatchExcused, Sources, Running, Cleaning
  <2> QED
    BY <2>5, <2>6, <2>7, <2>8 DEF HarnessInv
<1>2. CASE ReadSource
  <2>1. /\ pc = "read" /\ pc' = "patch" /\ child' = "none"
        /\ excuses' = excuses
    BY <1>2 DEF ReadSource
  <2>2. alive' = alive /\ held' = held
    BY <1>2 DEF ReadSource
  <2>3. /\ pod' = pod /\ rsync_pod' = rsync_pod /\ sshd' = sshd
        /\ script' = script /\ interrupts' = interrupts /\ faults' = faults
    BY <1>2 DEF ReadSource
  <2>4. /\ no_restore' = no_restore /\ restore_source' = restore_source
        /\ source' = source /\ old_rsync_source' = IF source = "unset" THEN "fallback" ELSE source
    BY <1>2 DEF ReadSource
  <2>5. StageInv'
    BY <2>1 DEF HarnessInv, StageInv, Running, Cleaning, Procs
  <2>6. HandlesInv' /\ StoppedInv'
    BY <2>1, <2>2 DEF HarnessInv, StageInv, HandlesInv, StoppedInv, Later, Running, Cleaning, Procs
  <2>7. SshdInv' /\ BoundsInv'
    BY <2>1, <2>3, <2>4, HarnessAssumption
    DEF HarnessInv, StageInv, SshdInv, SshdStopped, Restored, PatchExcused, BoundsInv, Running, Cleaning
  <2>8. SourceInv'
    BY <2>1, <2>4 DEF HarnessInv, StageInv, SourceInv, Restored, PatchExcused, Sources, Running, Cleaning
  <2> QED
    BY <2>5, <2>6, <2>7, <2>8 DEF HarnessInv
<1>3. CASE PatchSource
  <2>1. /\ pc = "patch" /\ pc' = "mark" /\ child' = "none"
        /\ excuses' = excuses
    BY <1>3 DEF PatchSource
  <2>2. alive' = alive /\ held' = held
    BY <1>3 DEF PatchSource
  <2>3. /\ pod' = pod + 1 /\ rsync_pod' = rsync_pod /\ sshd' = sshd
        /\ script' = script /\ interrupts' = interrupts /\ faults' = faults
    BY <1>3 DEF PatchSource
  <2>4. /\ no_restore' = no_restore /\ restore_source' = restore_source
        /\ old_rsync_source' = old_rsync_source /\ source' = "stress"
    BY <1>3 DEF PatchSource
  <2>5. StageInv'
    BY <2>1 DEF HarnessInv, StageInv, Running, Cleaning, Procs
  <2>6. HandlesInv' /\ StoppedInv'
    BY <2>1, <2>2 DEF HarnessInv, StageInv, HandlesInv, StoppedInv, Later, Running, Cleaning, Procs
  <2>7. SshdInv' /\ BoundsInv'
    BY <2>1, <2>3, <2>4, HarnessAssumption
    DEF HarnessInv, StageInv, SshdInv, SshdStopped, Restored, PatchExcused, BoundsInv, Running, Cleaning
  <2>8. SourceInv'
    BY <2>1, <2>4 DEF HarnessInv, StageInv, SourceInv, Restored, PatchExcused, Sources, Running, Cleaning
  <2> QED
    BY <2>5, <2>6, <2>7, <2>8 DEF HarnessInv
<1>4. CASE MarkPatched
  <2>1. /\ pc = "mark" /\ pc' = "rollout" /\ child' = "none"
        /\ excuses' = excuses
    BY <1>4 DEF MarkPatched
  <2>2. alive' = alive /\ held' = held
    BY <1>4 DEF MarkPatched
  <2>3. /\ pod' = pod /\ rsync_pod' = rsync_pod /\ sshd' = sshd
        /\ script' = script /\ interrupts' = interrupts /\ faults' = faults
    BY <1>4 DEF MarkPatched
  <2>4. /\ restore_source' = TRUE /\ no_restore' = no_restore
        /\ source' = source /\ old_rsync_source' = old_rsync_source
    BY <1>4 DEF MarkPatched
  <2>5. StageInv'
    BY <2>1 DEF HarnessInv, StageInv, Running, Cleaning, Procs
  <2>6. HandlesInv' /\ StoppedInv'
    BY <2>1, <2>2 DEF HarnessInv, StageInv, HandlesInv, StoppedInv, Later, Running, Cleaning, Procs
  <2>7. SshdInv' /\ BoundsInv'
    BY <2>1, <2>3, <2>4, HarnessAssumption
    DEF HarnessInv, StageInv, SshdInv, SshdStopped, Restored, PatchExcused, BoundsInv, Running, Cleaning
  <2>8. SourceInv'
    BY <2>1, <2>4 DEF HarnessInv, StageInv, SourceInv, Restored, PatchExcused, Sources, Running, Cleaning
  <2> QED
    BY <2>5, <2>6, <2>7, <2>8 DEF HarnessInv
<1>5. CASE RolloutDone
  <2>1. /\ pc = "rollout" /\ pc' = "pod" /\ child' = "none"
        /\ excuses' = excuses
    BY <1>5 DEF RolloutDone
  <2>2. alive' = alive /\ held' = held
    BY <1>5 DEF RolloutDone
  <2>3. /\ pod' = pod /\ rsync_pod' = rsync_pod /\ sshd' = sshd
        /\ script' = script /\ interrupts' = interrupts /\ faults' = faults
    BY <1>5 DEF RolloutDone
  <2>4. /\ no_restore' = no_restore /\ restore_source' = restore_source
        /\ source' = source /\ old_rsync_source' = old_rsync_source
    BY <1>5 DEF RolloutDone
  <2>5. StageInv'
    BY <2>1 DEF HarnessInv, StageInv, Running, Cleaning, Procs
  <2>6. HandlesInv' /\ StoppedInv'
    BY <2>1, <2>2 DEF HarnessInv, StageInv, HandlesInv, StoppedInv, Later, Running, Cleaning, Procs
  <2>7. SshdInv' /\ BoundsInv'
    BY <2>1, <2>3, <2>4, HarnessAssumption
    DEF HarnessInv, StageInv, SshdInv, SshdStopped, Restored, PatchExcused, BoundsInv, Running, Cleaning
  <2>8. SourceInv'
    BY <2>1, <2>4 DEF HarnessInv, StageInv, SourceInv, Restored, PatchExcused, Sources, Running, Cleaning
  <2> QED
    BY <2>5, <2>6, <2>7, <2>8 DEF HarnessInv
<1>6. CASE wait_for_rsync_pod
  <2>1. /\ pc = "pod" /\ pc' = "sshd" /\ child' = "none"
        /\ excuses' = excuses
    BY <1>6 DEF wait_for_rsync_pod
  <2>2. alive' = alive /\ held' = held
    BY <1>6 DEF wait_for_rsync_pod
  <2>3. /\ rsync_pod' = pod /\ pod' = pod /\ sshd' = sshd
        /\ script' = script /\ interrupts' = interrupts /\ faults' = faults
    BY <1>6 DEF wait_for_rsync_pod
  <2>4. /\ no_restore' = no_restore /\ restore_source' = restore_source
        /\ source' = source /\ old_rsync_source' = old_rsync_source
    BY <1>6 DEF wait_for_rsync_pod
  <2>5. StageInv'
    BY <2>1 DEF HarnessInv, StageInv, Running, Cleaning, Procs
  <2>6. HandlesInv' /\ StoppedInv'
    BY <2>1, <2>2 DEF HarnessInv, StageInv, HandlesInv, StoppedInv, Later, Running, Cleaning, Procs
  <2>7. SshdInv' /\ BoundsInv'
    BY <2>1, <2>3, <2>4, HarnessAssumption
    DEF HarnessInv, StageInv, SshdInv, SshdStopped, Restored, PatchExcused, BoundsInv, Running, Cleaning
  <2>8. SourceInv'
    BY <2>1, <2>4 DEF HarnessInv, StageInv, SourceInv, Restored, PatchExcused, Sources, Running, Cleaning
  <2> QED
    BY <2>5, <2>6, <2>7, <2>8 DEF HarnessInv
<1>7. CASE start_in_pod_sshd
  <2>1. /\ pc = "sshd" /\ pc' = "exec" /\ child' = "none"
        /\ excuses' = excuses
    BY <1>7 DEF start_in_pod_sshd
  <2>2. alive' = alive /\ held' = held
    BY <1>7 DEF start_in_pod_sshd
  <2>3. /\ rsync_pod = pod /\ script' = pod /\ pod' = pod /\ rsync_pod' = rsync_pod
        /\ sshd' = sshd /\ interrupts' = interrupts /\ faults' = faults
    BY <1>7 DEF start_in_pod_sshd
  <2>4. /\ no_restore' = no_restore /\ restore_source' = restore_source
        /\ source' = source /\ old_rsync_source' = old_rsync_source
    BY <1>7 DEF start_in_pod_sshd
  <2>5. StageInv'
    BY <2>1 DEF HarnessInv, StageInv, Running, Cleaning, Procs
  <2>6. HandlesInv' /\ StoppedInv'
    BY <2>1, <2>2 DEF HarnessInv, StageInv, HandlesInv, StoppedInv, Later, Running, Cleaning, Procs
  <2>7. SshdInv' /\ BoundsInv'
    BY <2>1, <2>3, <2>4, HarnessAssumption
    DEF HarnessInv, StageInv, SshdInv, SshdStopped, Restored, PatchExcused, BoundsInv, Running, Cleaning
  <2>8. SourceInv'
    BY <2>1, <2>4 DEF HarnessInv, StageInv, SourceInv, Restored, PatchExcused, Sources, Running, Cleaning
  <2> QED
    BY <2>5, <2>6, <2>7, <2>8 DEF HarnessInv
<1>8. CASE Spawn
  <2>1. /\ pc = "spawn" /\ pc' = "hold" /\ child' = child
        /\ excuses' = excuses
    BY <1>8 DEF Spawn
  <2>2. alive' = alive \cup {child} /\ held' = held
    BY <1>8 DEF Spawn
  <2>3. /\ pod' = pod /\ rsync_pod' = rsync_pod /\ sshd' = sshd
        /\ script' = script /\ interrupts' = interrupts /\ faults' = faults
    BY <1>8 DEF Spawn
  <2>4. /\ no_restore' = no_restore /\ restore_source' = restore_source
        /\ source' = source /\ old_rsync_source' = old_rsync_source
    BY <1>8 DEF Spawn
  <2>5. StageInv'
    BY <2>1 DEF HarnessInv, StageInv, Running, Cleaning, Procs
  <2>6. HandlesInv' /\ StoppedInv'
    BY <2>1, <2>2 DEF HarnessInv, StageInv, HandlesInv, StoppedInv, Later, Running, Cleaning, Procs
  <2>7. SshdInv' /\ BoundsInv'
    BY <2>1, <2>3, <2>4, HarnessAssumption
    DEF HarnessInv, StageInv, SshdInv, SshdStopped, Restored, PatchExcused, BoundsInv, Running, Cleaning
  <2>8. SourceInv'
    BY <2>1, <2>4 DEF HarnessInv, StageInv, SourceInv, Restored, PatchExcused, Sources, Running, Cleaning
  <2> QED
    BY <2>5, <2>6, <2>7, <2>8 DEF HarnessInv
<1>9. CASE Hold
  <2>1. /\ pc = "hold" /\ pc' = "wait" /\ child' = child
        /\ excuses' = excuses
    BY <1>9 DEF Hold
  <2>2. held' = held \cup {child} /\ alive' = alive
    BY <1>9 DEF Hold
  <2>3. /\ pod' = pod /\ rsync_pod' = rsync_pod /\ sshd' = sshd
        /\ script' = script /\ interrupts' = interrupts /\ faults' = faults
    BY <1>9 DEF Hold
  <2>4. /\ no_restore' = no_restore /\ restore_source' = restore_source
        /\ source' = source /\ old_rsync_source' = old_rsync_source
    BY <1>9 DEF Hold
  <2>5. StageInv'
    BY <2>1 DEF HarnessInv, StageInv, Running, Cleaning, Procs
  <2>6. HandlesInv' /\ StoppedInv'
    BY <2>1, <2>2 DEF HarnessInv, StageInv, HandlesInv, StoppedInv, Later, Running, Cleaning, Procs
  <2>7. SshdInv' /\ BoundsInv'
    BY <2>1, <2>3, <2>4, HarnessAssumption
    DEF HarnessInv, StageInv, SshdInv, SshdStopped, Restored, PatchExcused, BoundsInv, Running, Cleaning
  <2>8. SourceInv'
    BY <2>1, <2>4 DEF HarnessInv, StageInv, SourceInv, Restored, PatchExcused, Sources, Running, Cleaning
  <2> QED
    BY <2>5, <2>6, <2>7, <2>8 DEF HarnessInv
<1>10. CASE Ready
  <2>1. /\ pc = "wait"
        /\ IF child = "generator" THEN pc' = "stop" /\ child' = "generator"
           ELSE pc' = "spawn" /\ child' = After[child]
        /\ excuses' = excuses
    BY <1>10 DEF Ready
  <2>2. alive' = alive /\ held' = held
    BY <1>10 DEF Ready
  <2>3. /\ pod' = pod /\ rsync_pod' = rsync_pod /\ sshd' = sshd
        /\ script' = script /\ interrupts' = interrupts /\ faults' = faults
    BY <1>10 DEF Ready
  <2>4. /\ no_restore' = no_restore /\ restore_source' = restore_source
        /\ source' = source /\ old_rsync_source' = old_rsync_source
    BY <1>10 DEF Ready
  <2>5. StageInv'
    BY <2>1 DEF HarnessInv, StageInv, Running, Cleaning, Procs, After
  <2>6. HandlesInv' /\ StoppedInv'
    BY <2>1, <2>2 DEF HarnessInv, StageInv, HandlesInv, StoppedInv, Later, Running, Cleaning, Procs, After
  <2>7. SshdInv' /\ BoundsInv'
    BY <2>1, <2>3, <2>4, HarnessAssumption
    DEF HarnessInv, StageInv, SshdInv, SshdStopped, Restored, PatchExcused, BoundsInv, Running, Cleaning, After
  <2>8. SourceInv'
    BY <2>1, <2>4 DEF HarnessInv, StageInv, SourceInv, Restored, PatchExcused, Sources, Running, Cleaning, After
  <2> QED
    BY <2>5, <2>6, <2>7, <2>8 DEF HarnessInv
<1>11. CASE Raise
  <2>1. /\ pc \in Running \ {"hold"} /\ pc' = "stop" /\ child' = "generator"
        /\ excuses' = excuses
    BY <1>11 DEF Raise
  <2>2. alive' = alive /\ held' = held
    BY <1>11 DEF Raise
  <2>3. /\ pod' = pod /\ rsync_pod' = rsync_pod /\ sshd' = sshd
        /\ script' = script /\ interrupts' = interrupts
        /\ faults' = IF faults < MaxFaults THEN faults + 1 ELSE faults
    BY <1>11 DEF Raise
  <2>4. /\ no_restore' = no_restore /\ restore_source' = restore_source
        /\ source' = source /\ old_rsync_source' = old_rsync_source
    BY <1>11 DEF Raise
  <2>5. StageInv'
    BY <2>1 DEF HarnessInv, StageInv, Running, Cleaning, Procs
  <2>6. HandlesInv' /\ StoppedInv'
    BY <2>1, <2>2 DEF HarnessInv, StageInv, HandlesInv, StoppedInv, Later, Running, Cleaning, Procs
  <2>7. SshdInv' /\ BoundsInv'
    BY <2>1, <2>3, <2>4, HarnessAssumption
    DEF HarnessInv, StageInv, SshdInv, SshdStopped, Restored, PatchExcused, BoundsInv, Running, Cleaning
  <2>8. SourceInv'
    BY <2>1, <2>4 DEF HarnessInv, StageInv, SourceInv, Restored, PatchExcused, Sources, Running, Cleaning
  <2> QED
    BY <2>5, <2>6, <2>7, <2>8 DEF HarnessInv
<1>12. CASE ExecReturns
  <2>1. /\ pc = "exec" /\ pc' = "spawn" /\ child' = "rsync"
        /\ excuses' = excuses
    BY <1>12 DEF ExecReturns
  <2>2. alive' = alive /\ held' = held
    BY <1>12 DEF ExecReturns
  <2>3. /\ pod' = pod /\ rsync_pod' = rsync_pod /\ sshd' = sshd
        /\ script' = script /\ interrupts' = interrupts /\ faults' = faults
    BY <1>12 DEF ExecReturns
  <2>4. /\ no_restore' = no_restore /\ restore_source' = restore_source
        /\ source' = source /\ old_rsync_source' = old_rsync_source
    BY <1>12 DEF ExecReturns
  <2>5. StageInv'
    BY <2>1 DEF HarnessInv, StageInv, Running, Cleaning, Procs
  <2>6. HandlesInv' /\ StoppedInv'
    BY <2>1, <2>2 DEF HarnessInv, StageInv, HandlesInv, StoppedInv, Later, Running, Cleaning, Procs
  <2>7. SshdInv' /\ BoundsInv'
    BY <2>1, <2>3, <2>4, HarnessAssumption
    DEF HarnessInv, StageInv, SshdInv, SshdStopped, Restored, PatchExcused, BoundsInv, Running, Cleaning
  <2>8. SourceInv'
    BY <2>1, <2>4 DEF HarnessInv, StageInv, SourceInv, Restored, PatchExcused, Sources, Running, Cleaning
  <2> QED
    BY <2>5, <2>6, <2>7, <2>8 DEF HarnessInv
<1> QED
  BY <1>1, <1>2, <1>3, <1>4, <1>5, <1>6, <1>7, <1>8, <1>9, <1>10, <1>11, <1>12 DEF RunStep

LEMMA CleanKeeps ==
  ASSUME HarnessInv, CleanStep
  PROVE  HarnessInv'
<1> USE DEF Goto, Leave, patch_rsync_source, inPod, cluster, flags, bounds
<1>1. CASE Terminate
  <2>1. /\ pc = "stop"
        /\ IF child = "rsync" THEN pc' = "unsshd" /\ child' = "none"
           ELSE pc' = "stop" /\ child' = Before[child]
        /\ excuses' = excuses
    BY <1>1 DEF Terminate
  <2>2. alive' = (IF child \in held THEN alive \ {child} ELSE alive) /\ held' = held
    BY <1>1 DEF Terminate
  <2>3. /\ pod' = pod /\ rsync_pod' = rsync_pod /\ sshd' = sshd
        /\ script' = script /\ interrupts' = interrupts /\ faults' = faults
    BY <1>1 DEF Terminate
  <2>4. /\ no_restore' = no_restore /\ restore_source' = restore_source
        /\ source' = source /\ old_rsync_source' = old_rsync_source
    BY <1>1 DEF Terminate
  <2>5. StageInv'
    BY <2>1 DEF HarnessInv, StageInv, Running, Cleaning, Procs, Before
  <2>6. HandlesInv' /\ StoppedInv'
    BY <2>1, <2>2 DEF HarnessInv, StageInv, HandlesInv, StoppedInv, Later, Running, Cleaning, Procs, Before
  <2>7. SshdInv' /\ BoundsInv'
    BY <2>1, <2>3, <2>4, HarnessAssumption
    DEF HarnessInv, StageInv, SshdInv, SshdStopped, Restored, PatchExcused, BoundsInv, Running, Cleaning, Before
  <2>8. SourceInv'
    BY <2>1, <2>4 DEF HarnessInv, StageInv, SourceInv, Restored, PatchExcused, Sources, Running, Cleaning, Before
  <2> QED
    BY <2>5, <2>6, <2>7, <2>8 DEF HarnessInv
<1>2. CASE StopSshd
  <2>1. /\ pc = "unsshd" /\ pc' = "restore" /\ child' = "none"
        /\ excuses' \subseteq excuses \cup {"exec", "late"}
    BY <1>2 DEF StopSshd, StopsSshd
  <2>2. alive' = alive /\ held' = held
    BY <1>2 DEF StopSshd, StopsSshd
  <2>3. /\ pod' = pod /\ rsync_pod' = rsync_pod /\ script' = script
        /\ interrupts' = interrupts /\ (faults' = faults \/ (faults < MaxFaults /\ faults' = faults + 1))
        /\ \/ /\ rsync_pod # 0 /\ rsync_pod = pod /\ sshd' = 0
              /\ excuses' = IF script = pod THEN excuses \cup {"late"} ELSE excuses
           \/ ~(rsync_pod # 0 /\ rsync_pod = pod) /\ sshd' = sshd /\ excuses' = excuses
           \/ sshd' = sshd /\ excuses' = excuses \cup {"exec"}
    BY <1>2 DEF StopSshd, StopsSshd
  <2>4. /\ no_restore' = no_restore /\ restore_source' = restore_source
        /\ source' = source /\ old_rsync_source' = old_rsync_source
    BY <1>2 DEF StopSshd, StopsSshd
  <2>5. StageInv'
    BY <2>1 DEF HarnessInv, StageInv, Running, Cleaning, Procs
  <2>6. HandlesInv' /\ StoppedInv'
    BY <2>1, <2>2 DEF HarnessInv, StageInv, HandlesInv, StoppedInv, Later, Running, Cleaning, Procs
  <2>7. SshdInv' /\ BoundsInv'
    BY <2>1, <2>3, <2>4, HarnessAssumption
    DEF HarnessInv, StageInv, SshdInv, SshdStopped, Restored, PatchExcused, BoundsInv, Running, Cleaning
  <2>8. SourceInv'
    BY <2>1, <2>4 DEF HarnessInv, StageInv, SourceInv, Restored, PatchExcused, Sources, Running, Cleaning
  <2> QED
    BY <2>5, <2>6, <2>7, <2>8 DEF HarnessInv
<1>3. CASE RestoreSource
  <2>1. /\ pc = "restore" /\ pc' = "settle" /\ child' = "none"
        /\ excuses' = excuses
    BY <1>3 DEF RestoreSource, ToRestore
  <2>2. alive' = alive /\ held' = held
    BY <1>3 DEF RestoreSource, ToRestore
  <2>3. /\ pod' = pod + 1 /\ rsync_pod' = rsync_pod /\ sshd' = sshd
        /\ script' = script /\ interrupts' = interrupts /\ faults' = faults
    BY <1>3 DEF RestoreSource, ToRestore
  <2>4. /\ no_restore' = no_restore /\ restore_source' = restore_source
        /\ restore_source /\ source' = old_rsync_source /\ old_rsync_source' = old_rsync_source
    BY <1>3 DEF RestoreSource, ToRestore
  <2>5. StageInv'
    BY <2>1 DEF HarnessInv, StageInv, Running, Cleaning, Procs
  <2>6. HandlesInv' /\ StoppedInv'
    BY <2>1, <2>2 DEF HarnessInv, StageInv, HandlesInv, StoppedInv, Later, Running, Cleaning, Procs
  <2>7. SshdInv' /\ BoundsInv'
    BY <2>1, <2>3, <2>4, HarnessAssumption
    DEF HarnessInv, StageInv, SshdInv, SshdStopped, Restored, PatchExcused, BoundsInv, Running, Cleaning
  <2>8. SourceInv'
    BY <2>1, <2>4 DEF HarnessInv, StageInv, SourceInv, Restored, PatchExcused, Sources, Running, Cleaning
  <2> QED
    BY <2>5, <2>6, <2>7, <2>8 DEF HarnessInv
<1>4. CASE RestoreSettled
  <2>1. /\ pc = "settle" /\ pc' = "files" /\ child' = "none"
        /\ excuses' = excuses
    BY <1>4 DEF RestoreSettled
  <2>2. alive' = alive /\ held' = held
    BY <1>4 DEF RestoreSettled
  <2>3. /\ pod' = pod /\ rsync_pod' = rsync_pod /\ sshd' = sshd
        /\ script' = script /\ interrupts' = interrupts /\ faults' = faults
    BY <1>4 DEF RestoreSettled
  <2>4. /\ no_restore' = no_restore /\ restore_source' = restore_source
        /\ source' = source /\ old_rsync_source' = old_rsync_source
    BY <1>4 DEF RestoreSettled
  <2>5. StageInv'
    BY <2>1 DEF HarnessInv, StageInv, Running, Cleaning, Procs
  <2>6. HandlesInv' /\ StoppedInv'
    BY <2>1, <2>2 DEF HarnessInv, StageInv, HandlesInv, StoppedInv, Later, Running, Cleaning, Procs
  <2>7. SshdInv' /\ BoundsInv'
    BY <2>1, <2>3, <2>4, HarnessAssumption
    DEF HarnessInv, StageInv, SshdInv, SshdStopped, Restored, PatchExcused, BoundsInv, Running, Cleaning
  <2>8. SourceInv'
    BY <2>1, <2>4 DEF HarnessInv, StageInv, SourceInv, Restored, PatchExcused, Sources, Running, Cleaning
  <2> QED
    BY <2>5, <2>6, <2>7, <2>8 DEF HarnessInv
<1>5. CASE RemoveFiles
  <2>1. /\ pc = "files" /\ pc' = "over" /\ child' = "none"
        /\ excuses' = excuses
    BY <1>5 DEF RemoveFiles
  <2>2. alive' = alive /\ held' = held
    BY <1>5 DEF RemoveFiles
  <2>3. /\ pod' = pod /\ rsync_pod' = rsync_pod /\ sshd' = sshd
        /\ script' = script /\ interrupts' = interrupts /\ faults' = faults
    BY <1>5 DEF RemoveFiles
  <2>4. /\ no_restore' = no_restore /\ restore_source' = restore_source
        /\ source' = source /\ old_rsync_source' = old_rsync_source
    BY <1>5 DEF RemoveFiles
  <2>5. StageInv'
    BY <2>1 DEF HarnessInv, StageInv, Running, Cleaning, Procs
  <2>6. HandlesInv' /\ StoppedInv'
    BY <2>1, <2>2 DEF HarnessInv, StageInv, HandlesInv, StoppedInv, Later, Running, Cleaning, Procs
  <2>7. SshdInv' /\ BoundsInv'
    BY <2>1, <2>3, <2>4, HarnessAssumption
    DEF HarnessInv, StageInv, SshdInv, SshdStopped, Restored, PatchExcused, BoundsInv, Running, Cleaning
  <2>8. SourceInv'
    BY <2>1, <2>4 DEF HarnessInv, StageInv, SourceInv, Restored, PatchExcused, Sources, Running, Cleaning
  <2> QED
    BY <2>5, <2>6, <2>7, <2>8 DEF HarnessInv
<1>6. CASE LeaveSource
  <2>1. /\ pc = "restore" /\ pc' = "files" /\ child' = "none"
        /\ excuses' = excuses
    BY <1>6 DEF LeaveSource, ToRestore
  <2>2. alive' = alive /\ held' = held
    BY <1>6 DEF LeaveSource, ToRestore
  <2>3. /\ pod' = pod /\ rsync_pod' = rsync_pod /\ sshd' = sshd
        /\ script' = script /\ interrupts' = interrupts /\ faults' = faults
    BY <1>6 DEF LeaveSource, ToRestore
  <2>4. /\ no_restore' = no_restore /\ restore_source' = restore_source
        /\ source' = source /\ old_rsync_source' = old_rsync_source
        /\ ~(restore_source /\ ~no_restore)
    BY <1>6 DEF LeaveSource, ToRestore
  <2>5. StageInv'
    BY <2>1 DEF HarnessInv, StageInv, Running, Cleaning, Procs
  <2>6. HandlesInv' /\ StoppedInv'
    BY <2>1, <2>2 DEF HarnessInv, StageInv, HandlesInv, StoppedInv, Later, Running, Cleaning, Procs
  <2>7. SshdInv' /\ BoundsInv'
    BY <2>1, <2>3, <2>4, HarnessAssumption
    DEF HarnessInv, StageInv, SshdInv, SshdStopped, Restored, PatchExcused, BoundsInv, Running, Cleaning
  <2>8. SourceInv'
    BY <2>1, <2>4 DEF HarnessInv, StageInv, SourceInv, Restored, PatchExcused, Sources, Running, Cleaning
  <2> QED
    BY <2>5, <2>6, <2>7, <2>8 DEF HarnessInv
<1>7. CASE RestoreRefused
  <2>1. /\ pc = "restore" /\ pc' = "files" /\ child' = "none"
        /\ excuses' = excuses \cup {"patch"}
    BY <1>7 DEF RestoreRefused, ToRestore
  <2>2. alive' = alive /\ held' = held
    BY <1>7 DEF RestoreRefused, ToRestore
  <2>3. /\ (pod' = pod \/ pod' = pod + 1) /\ rsync_pod' = rsync_pod /\ sshd' = sshd
        /\ script' = script /\ interrupts' = interrupts
        /\ faults < MaxFaults /\ faults' = faults + 1
    BY <1>7 DEF RestoreRefused, ToRestore
  <2>4. /\ no_restore' = no_restore /\ restore_source' = restore_source /\ restore_source
        /\ source' = source \/ source' = old_rsync_source
        /\ old_rsync_source' = old_rsync_source
    BY <1>7 DEF RestoreRefused, ToRestore
  <2>5. StageInv'
    BY <2>1 DEF HarnessInv, StageInv, Running, Cleaning, Procs
  <2>6. HandlesInv' /\ StoppedInv'
    BY <2>1, <2>2 DEF HarnessInv, StageInv, HandlesInv, StoppedInv, Later, Running, Cleaning, Procs
  <2>7. SshdInv' /\ BoundsInv'
    BY <2>1, <2>3, <2>4, HarnessAssumption
    DEF HarnessInv, StageInv, SshdInv, SshdStopped, Restored, PatchExcused, BoundsInv, Running, Cleaning
  <2>8. SourceInv'
    BY <2>1, <2>4 DEF HarnessInv, StageInv, SourceInv, Restored, PatchExcused, Sources, Running, Cleaning
  <2> QED
    BY <2>5, <2>6, <2>7, <2>8 DEF HarnessInv
<1>8. CASE RestoreUnwritten
  <2>1. /\ pc = "restore" /\ pc' = "over" /\ child' = "none"
        /\ excuses' = excuses \cup {"file"}
    BY <1>8 DEF RestoreUnwritten, ToRestore
  <2>2. alive' = alive /\ held' = held
    BY <1>8 DEF RestoreUnwritten, ToRestore
  <2>3. /\ pod' = pod /\ rsync_pod' = rsync_pod /\ sshd' = sshd
        /\ script' = script /\ interrupts' = interrupts
        /\ faults < MaxFaults /\ faults' = faults + 1
    BY <1>8 DEF RestoreUnwritten, ToRestore
  <2>4. /\ no_restore' = no_restore /\ restore_source' = restore_source
        /\ source' = source /\ old_rsync_source' = old_rsync_source
    BY <1>8 DEF RestoreUnwritten, ToRestore
  <2>5. StageInv'
    BY <2>1 DEF HarnessInv, StageInv, Running, Cleaning, Procs
  <2>6. HandlesInv' /\ StoppedInv'
    BY <2>1, <2>2 DEF HarnessInv, StageInv, HandlesInv, StoppedInv, Later, Running, Cleaning, Procs
  <2>7. SshdInv' /\ BoundsInv'
    BY <2>1, <2>3, <2>4, HarnessAssumption
    DEF HarnessInv, StageInv, SshdInv, SshdStopped, Restored, PatchExcused, BoundsInv, Running, Cleaning
  <2>8. SourceInv'
    BY <2>1, <2>4 DEF HarnessInv, StageInv, SourceInv, Restored, PatchExcused, Sources, Running, Cleaning
  <2> QED
    BY <2>5, <2>6, <2>7, <2>8 DEF HarnessInv
<1> QED
  BY <1>1, <1>2, <1>3, <1>4, <1>5, <1>6, <1>7, <1>8 DEF CleanStep

\* What happens around the program at any time.
LEMMA AroundKeeps ==
  ASSUME HarnessInv,
         \/ Interrupt \/ (\E c \in Procs : Die(c)) \/ Evict \/ SshdStarts \/ Generate
         \/ UNCHANGED harnessVars
  PROVE  HarnessInv'
<1> USE DEF Goto, Leave, patch_rsync_source, inPod, cluster, flags, bounds
<1>1. CASE Interrupt
  <2>1. /\ \/ pc \in Running /\ pc' = "stop" /\ child' = "generator" /\ excuses' = excuses
           \/ pc \in Cleaning /\ pc' = "over" /\ child' = "none" /\ excuses' = excuses \cup {"cut"}
    BY <1>1 DEF Interrupt
  <2>2. alive' = alive /\ held' = held
    BY <1>1 DEF Interrupt
  <2>3. /\ pod' = pod /\ rsync_pod' = rsync_pod /\ sshd' = sshd
        /\ script' = script /\ faults' = faults /\ interrupts < MaxInterrupts /\ interrupts' = interrupts + 1
    BY <1>1 DEF Interrupt
  <2>4. /\ no_restore' = no_restore /\ restore_source' = restore_source
        /\ source' = source /\ old_rsync_source' = old_rsync_source
    BY <1>1 DEF Interrupt
  <2>5. StageInv'
    BY <2>1 DEF HarnessInv, StageInv, Running, Cleaning, Procs
  <2>6. HandlesInv' /\ StoppedInv'
    BY <2>1, <2>2 DEF HarnessInv, StageInv, HandlesInv, StoppedInv, Later, Running, Cleaning, Procs
  <2>7. SshdInv' /\ BoundsInv'
    BY <2>1, <2>3, <2>4, HarnessAssumption
    DEF HarnessInv, StageInv, SshdInv, SshdStopped, Restored, PatchExcused, BoundsInv, Running, Cleaning
  <2>8. SourceInv'
    BY <2>1, <2>4 DEF HarnessInv, StageInv, SourceInv, Restored, PatchExcused, Sources, Running, Cleaning
  <2> QED
    BY <2>5, <2>6, <2>7, <2>8 DEF HarnessInv
<1>2. CASE \E c \in Procs : Die(c)
  <2>1. /\ pc' = pc /\ child' = child
        /\ excuses' = excuses
    BY <1>2 DEF Die
  <2>2. alive' \subseteq alive /\ held' = held
    BY <1>2 DEF Die
  <2>3. /\ pod' = pod /\ rsync_pod' = rsync_pod /\ sshd' = sshd
        /\ script' = script /\ interrupts' = interrupts /\ (faults' = faults \/ (faults < MaxFaults /\ faults' = faults + 1))
    BY <1>2 DEF Die
  <2>4. /\ no_restore' = no_restore /\ restore_source' = restore_source
        /\ source' = source /\ old_rsync_source' = old_rsync_source
    BY <1>2 DEF Die
  <2>5. StageInv'
    BY <2>1 DEF HarnessInv, StageInv, Running, Cleaning, Procs
  <2>6. HandlesInv' /\ StoppedInv'
    BY <2>1, <2>2 DEF HarnessInv, StageInv, HandlesInv, StoppedInv, Later, Running, Cleaning, Procs
  <2>7. SshdInv' /\ BoundsInv'
    BY <2>1, <2>3, <2>4, HarnessAssumption
    DEF HarnessInv, StageInv, SshdInv, SshdStopped, Restored, PatchExcused, BoundsInv, Running, Cleaning
  <2>8. SourceInv'
    BY <2>1, <2>4 DEF HarnessInv, StageInv, SourceInv, Restored, PatchExcused, Sources, Running, Cleaning
  <2> QED
    BY <2>5, <2>6, <2>7, <2>8 DEF HarnessInv
<1>3. CASE Evict
  <2>1. /\ pc' = pc /\ child' = child /\ pc \in Running \cup {"unsshd"}
        /\ excuses' = excuses
    BY <1>3 DEF Evict
  <2>2. alive' = alive /\ held' = held
    BY <1>3 DEF Evict
  <2>3. /\ pod' = pod + 1 /\ rsync_pod' = rsync_pod /\ sshd' = sshd
        /\ script' = script /\ interrupts' = interrupts /\ (faults' = faults \/ (faults < MaxFaults /\ faults' = faults + 1))
    BY <1>3 DEF Evict
  <2>4. /\ no_restore' = no_restore /\ restore_source' = restore_source
        /\ source' = source /\ old_rsync_source' = old_rsync_source
    BY <1>3 DEF Evict
  <2>5. StageInv'
    BY <2>1 DEF HarnessInv, StageInv, Running, Cleaning, Procs
  <2>6. HandlesInv' /\ StoppedInv'
    BY <2>1, <2>2 DEF HarnessInv, StageInv, HandlesInv, StoppedInv, Later, Running, Cleaning, Procs
  <2>7. SshdInv' /\ BoundsInv'
    BY <2>1, <2>3, <2>4, HarnessAssumption
    DEF HarnessInv, StageInv, SshdInv, SshdStopped, Restored, PatchExcused, BoundsInv, Running, Cleaning
  <2>8. SourceInv'
    BY <2>1, <2>4 DEF HarnessInv, StageInv, SourceInv, Restored, PatchExcused, Sources, Running, Cleaning
  <2> QED
    BY <2>5, <2>6, <2>7, <2>8 DEF HarnessInv
<1>4. CASE Generate
  <2>1. /\ pc' = pc /\ child' = child
        /\ excuses' = excuses
    BY <1>4 DEF Generate
  <2>2. alive' \subseteq alive /\ held' = held
    BY <1>4 DEF Generate
  <2>3. /\ pod' = pod /\ rsync_pod' = rsync_pod /\ sshd' = sshd
        /\ script' = script /\ interrupts' = interrupts /\ faults' = faults
    BY <1>4 DEF Generate
  <2>4. /\ no_restore' = no_restore /\ restore_source' = restore_source
        /\ source' = source /\ old_rsync_source' = old_rsync_source
    BY <1>4 DEF Generate
  <2>5. StageInv'
    BY <2>1 DEF HarnessInv, StageInv, Running, Cleaning, Procs
  <2>6. HandlesInv' /\ StoppedInv'
    BY <2>1, <2>2 DEF HarnessInv, StageInv, HandlesInv, StoppedInv, Later, Running, Cleaning, Procs
  <2>7. SshdInv' /\ BoundsInv'
    BY <2>1, <2>3, <2>4, HarnessAssumption
    DEF HarnessInv, StageInv, SshdInv, SshdStopped, Restored, PatchExcused, BoundsInv, Running, Cleaning
  <2>8. SourceInv'
    BY <2>1, <2>4 DEF HarnessInv, StageInv, SourceInv, Restored, PatchExcused, Sources, Running, Cleaning
  <2> QED
    BY <2>5, <2>6, <2>7, <2>8 DEF HarnessInv
<1>5. CASE UNCHANGED harnessVars
  <2>1. /\ pc' = pc /\ child' = child
        /\ excuses' = excuses
    BY <1>5 DEF harnessVars
  <2>2. alive' = alive /\ held' = held
    BY <1>5 DEF harnessVars
  <2>3. /\ pod' = pod /\ rsync_pod' = rsync_pod /\ sshd' = sshd
        /\ script' = script /\ interrupts' = interrupts /\ faults' = faults
    BY <1>5 DEF harnessVars
  <2>4. /\ no_restore' = no_restore /\ restore_source' = restore_source
        /\ source' = source /\ old_rsync_source' = old_rsync_source
    BY <1>5 DEF harnessVars
  <2>5. StageInv'
    BY <2>1 DEF HarnessInv, StageInv, Running, Cleaning, Procs
  <2>6. HandlesInv' /\ StoppedInv'
    BY <2>1, <2>2 DEF HarnessInv, StageInv, HandlesInv, StoppedInv, Later, Running, Cleaning, Procs
  <2>7. SshdInv' /\ BoundsInv'
    BY <2>1, <2>3, <2>4, HarnessAssumption
    DEF HarnessInv, StageInv, SshdInv, SshdStopped, Restored, PatchExcused, BoundsInv, Running, Cleaning
  <2>8. SourceInv'
    BY <2>1, <2>4 DEF HarnessInv, StageInv, SourceInv, Restored, PatchExcused, Sources, Running, Cleaning
  <2> QED
    BY <2>5, <2>6, <2>7, <2>8 DEF HarnessInv
<1>6. CASE SshdStarts
  <2>1. /\ pc' = pc /\ child' = child /\ excuses' = excuses
    BY <1>6 DEF SshdStarts
  <2>2. alive' = alive /\ held' = held
    BY <1>6 DEF SshdStarts
  <2>3. /\ pod' = pod /\ rsync_pod' = rsync_pod
        /\ script # 0 /\ script = pod /\ sshd' = script /\ script' = 0
        /\ interrupts' = interrupts /\ faults' = faults
    BY <1>6 DEF SshdStarts
  <2>4. /\ no_restore' = no_restore /\ restore_source' = restore_source
        /\ source' = source /\ old_rsync_source' = old_rsync_source
    BY <1>6 DEF SshdStarts
  <2>5. StageInv'
    BY <2>1 DEF HarnessInv, StageInv, Running, Cleaning, Procs
  <2>6. HandlesInv' /\ StoppedInv'
    BY <2>1, <2>2 DEF HarnessInv, StageInv, HandlesInv, StoppedInv, Later, Running, Cleaning, Procs
  <2>7. SshdInv' /\ BoundsInv'
    BY <2>1, <2>3, <2>4, HarnessAssumption
    DEF HarnessInv, StageInv, SshdInv, SshdStopped, Restored, PatchExcused, BoundsInv, Running, Cleaning
  <2>8. SourceInv'
    BY <2>1, <2>4 DEF HarnessInv, StageInv, SourceInv, Restored, PatchExcused, Sources, Running, Cleaning
  <2> QED
    BY <2>5, <2>6, <2>7, <2>8 DEF HarnessInv
<1> QED
  BY <1>1, <1>2, <1>3, <1>4, <1>5, <1>6

LEMMA NextHarness == HarnessInv /\ [Next]_vars => HarnessInv'
  BY RunKeeps, CleanKeeps, AroundKeeps DEF Next, vars

LEMMA SpecHarness == Spec => []HarnessInv
  BY InitHarness, NextHarness, PTL DEF Spec

\* What the harness does leaves the generator alone, unless it is a step of the generator.
LEMMA NextGenerates == [Next]_vars => GenStep \/ Tick \/ UNCHANGED genVars
  BY DEF Next, vars, RunStep, Prepare, ReadSource, PatchSource, MarkPatched, RolloutDone,
     wait_for_rsync_pod, start_in_pod_sshd, ExecReturns, Spawn, Hold, Ready, Raise, CleanStep,
     Terminate, StopSshd, LeaveSource, RestoreSource, RestoreRefused, RestoreUnwritten,
     RestoreSettled, RemoveFiles, Interrupt, Die, Evict, SshdStarts, Generate

LEMMA NextGen == GenTypeOK /\ [Next]_vars => GenTypeOK'
<1> SUFFICES ASSUME GenTypeOK, [Next]_vars PROVE GenTypeOK'
  OBVIOUS
<1>1. CASE UNCHANGED genVars
  BY <1>1 DEF genVars, GenTypeOK
<1>2. CASE GenStep \/ Tick
  BY <1>2, GenStepType
<1> QED
  BY <1>1, <1>2, NextGenerates

LEMMA NextFiles == GenTypeOK /\ FilesInv /\ [Next]_vars => FilesInv'
<1> SUFFICES ASSUME GenTypeOK, FilesInv, [Next]_vars PROVE FilesInv'
  OBVIOUS
<1>1. CASE UNCHANGED genVars
  BY <1>1 DEF genVars, FilesInv, PublishedInv, OpenInv, PaceInv, EndOf, NumbersOf
<1>2. CASE GenStep \/ Tick
  BY <1>2, GenStepKeepsFiles
<1> QED
  BY <1>1, <1>2, NextGenerates
--------------------------------------------------------------------------------
\* The types of the harness and of the generator's files and packets, for any rate and any
\* drawn numbers (tulip-pcap-stress.py, pcap_generator.py).
THEOREM StressTypeCorrectness == Spec => []TypeOK
<1>1. HarnessInv /\ GenTypeOK => TypeOK
  BY DEF HarnessInv, StageInv, HandlesInv, SshdInv, BoundsInv, SourceInv, TypeOK
<1>2. Init => GenTypeOK
  BY GenInitType DEF Init
<1> QED
  BY <1>1, <1>2, NextGen, SpecHarness, PTL DEF Spec

\* However long the writing of a file takes, for any rate, rotation and duration: the files
\* under their final names are whole, number the requests without a gap, and never stand for
\* the same time (generate_pcaps, pcap_generator.py).
THEOREM FilesNeverOverlap == Spec => []FilesTileTheRun
<1>1. Init => GenTypeOK /\ FilesInv
  BY GenInitType, InitFiles DEF Init
<1>2. FilesInv => FilesTileTheRun
  BY DEF FilesInv, PublishedInv, FilesTileTheRun
<1> QED
  BY <1>1, <1>2, NextGen, NextFiles, PTL DEF Spec

\* The packets of a request are a conversation, whatever numbers it starts from, however long
\* its two payloads are, and wherever the numbers wrap (packet_sequence, pcap_generator.py).
THEOREM RequestsAreConversations == Spec => []ConversationIsSound
<1>1. Init => WireInv
  BY DEF Init, GenInit, WireInv
<1>2. WireInv /\ [Next]_vars => WireInv'
  BY NextGenerates, NextWire
<1>3. WireInv => ConversationIsSound
  <2> SUFFICES ASSUME WireInv PROVE ConversationIsSound
    OBVIOUS
  <2>1. CASE wire = << >>
    BY <2>1 DEF ConversationIsSound
  <2>2. CASE wire # << >>
    BY <2>2, RequestIsSound DEF WireInv
  <2> QED
    BY <2>1, <2>2
<1> QED
  BY <1>1, <1>2, <1>3, PTL DEF Spec

\* However many calls fail, children die, pods are replaced and interrupts arrive: when the
\* program is over and its cleanup was not cut short, no child with a handle is left; the source
\* is back unless its own patch failed, whatever became of the steps before; and an sshd is left
\* only if the exec that stops it failed or came too early, and the pod was not replaced
\* (cleanup, tulip-pcap-stress.py).
THEOREM CleanupUndoesTheRun == Spec => []CleansUp
<1>1. HarnessInv => CleansUp
  <2> SUFFICES ASSUME HarnessInv PROVE NothingLeftRunning /\ SourcePutBack
    BY DEF CleansUp
  <2>1. NothingLeftRunning
    <3> SUFFICES ASSUME pc = "over", "cut" \notin excuses
                 PROVE  /\ alive \cap held = {}
                        /\ \A c, d \in alive : c = d
                        /\ sshd = pod => excuses \cap {"exec", "late"} # {} /\ PatchExcused
      BY DEF NothingLeftRunning
    <3>1. alive \cap held = {}
      BY DEF HarnessInv, StoppedInv
    <3>2. PICK lost : alive \ held \subseteq {lost}
      BY DEF HarnessInv, HandlesInv
    <3> QED
      BY <3>1, <3>2 DEF HarnessInv, SshdInv, SshdStopped, Restored
  <2>2. SourcePutBack
    BY DEF HarnessInv, SourceInv, Restored, SourcePutBack
  <2> QED
    BY <2>1, <2>2
<1> QED
  BY <1>1, SpecHarness, PTL

================================================================================
