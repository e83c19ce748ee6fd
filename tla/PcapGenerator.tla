----------------------------- MODULE PcapGenerator -----------------------------
(***************************************************************************)
(* The traffic generator (scripts/pcap_generator.py): it writes one       *)
(* capture file per segment under a temporary name, gives it its final     *)
(* name, and sleeps until the time the segment stands for has passed.      *)
(*                                                                         *)
(* Time is counted in ticks, TicksPerSecond of them to a second.  A file   *)
(* is the record of its segment: when it starts, the seconds it stands     *)
(* for, the number of its first request and how many requests it holds.    *)
(* Sequence numbers live in a space of SeqSpace numbers, 2^32 in the code. *)
(***************************************************************************)
EXTENDS Integers, Sequences, FiniteSetsExt

CONSTANTS TicksPerSecond,   \* ticks of the model's clock in one second
          Rps,              \* --rps
          RotateSeconds,    \* --rotate-seconds
          Durations,        \* values of --duration, in seconds; 0 means for ever
          SeqSpace,         \* 2^32: the number of TCP sequence numbers
          Draws,            \* what a request may draw: <<client_seq, server_seq, len(req), len(resp)>>
          MaxTime,          \* bound: the clock stops here
          MaxSegments       \* bound: files of an endless run

ASSUME GeneratorAssumption ==
    /\ TicksPerSecond \in Nat \ {0} /\ Rps \in Nat \ {0} /\ RotateSeconds \in Nat \ {0}
    /\ Durations \subseteq Nat
    /\ SeqSpace \in Nat \ {0}
    /\ \A d \in Draws : d \in Nat \X Nat \X Nat \X Nat /\ 2 * d[1] < SeqSpace /\ 2 * d[2] < SeqSpace
    /\ MaxTime \in Nat /\ MaxSegments \in Nat

VARIABLES clock,            \* time.time()
          duration,         \* the --duration of this run
          gpc,              \* where generate_pcaps is
          started,          \* when it began
          segment,          \* number of the segment it works on
          generated,        \* generated_requests
          open,             \* the file under its temporary name, {} or one record
          pcaps,            \* the files under their final names
          wire              \* the packets of the request written last to the open file

genVars == <<clock, duration, gpc, started, segment, generated, open, pcaps, wire>>

SYN == 2
FIN == 1
ACK == 16
PSH == 8

\* One packet: who sends it, its sequence and acknowledgement numbers as the segment
\* carries them, its flags and the length of its payload.  First numbers lie in the lower
\* half of the space and payloads are short, so that no number of the code wraps.
tcp_segment(from, seq, ack, flags, len) ==
    [from |-> from, seq |-> seq % SeqSpace, ack |-> ack % SeqSpace, flags |-> flags, len |-> len]

\* A conversation whose last packet would not acknowledge the client's FIN.
packet_sequenceFinUncounted(client_seq, server_seq, req, resp) ==
    << tcp_segment("c", client_seq, 0, {SYN}, 0),
       tcp_segment("s", server_seq, client_seq + 1, {SYN, ACK}, 0),
       tcp_segment("c", client_seq + 1, server_seq + 1, {ACK}, 0),
       tcp_segment("c", client_seq + 1, server_seq + 1, {PSH, ACK}, req),
       tcp_segment("s", server_seq + 1, client_seq + 1 + req, {PSH, ACK}, resp),
       tcp_segment("c", client_seq + 1 + req, server_seq + 1 + resp, {FIN, ACK}, 0),
       tcp_segment("s", server_seq + 1 + resp, client_seq + 1 + req, {FIN, ACK}, 0) >>

\* The seven packets of one request.
packet_sequence(client_seq, server_seq, req, resp) ==
    << tcp_segment("c", client_seq, 0, {SYN}, 0),
       tcp_segment("s", server_seq, client_seq + 1, {SYN, ACK}, 0),
       tcp_segment("c", client_seq + 1, server_seq + 1, {ACK}, 0),
       tcp_segment("c", client_seq + 1, server_seq + 1, {PSH, ACK}, req),
       tcp_segment("s", server_seq + 1, client_seq + 1 + req, {PSH, ACK}, resp),
       tcp_segment("c", client_seq + 1 + req, server_seq + 1 + resp, {FIN, ACK}, 0),
       tcp_segment("s", server_seq + 1 + resp, client_seq + 2 + req, {FIN, ACK}, 0) >>

\* int(x + 0.999999) of a time in ticks: the seconds it takes to cover it.
WholeSeconds(ticks) == (ticks + TicksPerSecond - 1) \div TicksPerSecond

segment_seconds(elapsed) ==
    IF duration = 0 THEN RotateSeconds
    ELSE Max({1, Min({RotateSeconds, WholeSeconds(duration * TicksPerSecond - elapsed)})})

DurationIsOver == duration # 0 /\ clock - started >= duration * TicksPerSecond

GenInit == /\ clock = 0
           /\ duration \in Durations
           /\ gpc = "start"
           /\ started = 0
           /\ segment = 0
           /\ generated = 0
           /\ open = {}
           /\ pcaps = {}
           /\ wire = << >>

\* generate_pcaps up to its loop.
BeginGenerating == /\ gpc = "start"
                   /\ gpc' = "loop"
                   /\ started' = clock
                   /\ UNCHANGED <<clock, duration, segment, generated, open, pcaps, wire>>

\* The head of the loop: leave, or open the temporary file of the next segment.
OpenSegment ==
    /\ gpc = "loop"
    /\ IF DurationIsOver
         THEN gpc' = "ended" /\ UNCHANGED open
         ELSE /\ segment < MaxSegments \/ duration # 0
              /\ gpc' = "write"
              /\ open' = LET secs == segment_seconds(clock - started) IN
                         {[segment |-> segment, start |-> clock, seconds |-> secs,
                           first |-> generated, written |-> 0, requests |-> Rps * secs]}
    /\ UNCHANGED <<clock, duration, started, segment, generated, pcaps, wire>>

\* One round of the inner loop: the packets of one more request.
WriteRequest ==
    /\ gpc = "write"
    /\ \E f \in open :
        /\ f.written < f.requests
        /\ open' = {[f EXCEPT !.written = f.written + 1]}
    /\ \E d \in Draws : wire' = packet_sequence(d[1], d[2], d[3], d[4])
    /\ UNCHANGED <<clock, duration, gpc, started, segment, generated, pcaps>>

\* os.replace, and the bookkeeping after it: the file appears under its final name.
Publish ==
    /\ gpc = "write"
    /\ \E f \in open :
        /\ f.written = f.requests
        /\ pcaps' = pcaps \cup {f}
        /\ generated' = generated + f.requests
    /\ open' = {}
    /\ wire' = << >>
    /\ segment' = segment + 1
    /\ gpc' = IF DurationIsOver THEN "ended" ELSE "sleep"
    /\ UNCHANGED <<clock, duration, started>>

\* A sleep that would end with the file.
WakeAtOnce ==
    /\ gpc = "sleep"
    /\ gpc' = "loop"
    /\ UNCHANGED <<clock, duration, started, segment, generated, open, pcaps, wire>>

\* The sleep until segment_start + segment_seconds is over.
Wake ==
    /\ gpc = "sleep"
    /\ \E f \in pcaps : /\ f.segment = segment - 1
                        /\ clock >= f.start + f.seconds * TicksPerSecond
    /\ gpc' = "loop"
    /\ UNCHANGED <<clock, duration, started, segment, generated, open, pcaps, wire>>

\* Time passes while the generator works.
Tick == /\ gpc \in {"loop", "write", "sleep"}
        /\ clock < MaxTime
        /\ clock' = clock + 1
        /\ UNCHANGED <<duration, gpc, started, segment, generated, open, pcaps, wire>>

GenStep == BeginGenerating \/ OpenSegment \/ WriteRequest \/ Publish \/ Wake

GenTypeOK ==
    LET Segment == [segment : Nat, start : Nat, seconds : Nat, first : Nat,
                    written : Nat, requests : Nat]
    IN  /\ clock \in Nat /\ started \in Nat /\ segment \in Nat /\ generated \in Nat
        /\ duration \in Durations
        /\ gpc \in {"start", "loop", "write", "sleep", "ended"}
        /\ open \subseteq Segment /\ pcaps \subseteq Segment
        /\ wire \in Seq([from : {"c", "s"}, seq : 0..SeqSpace - 1, ack : 0..SeqSpace - 1,
                         flags : SUBSET {SYN, FIN, ACK, PSH}, len : Nat])
--------------------------------------------------------------------------------
\* The tick at which the segment of a file is over, and the numbers of its requests.
EndOf(f) == f.start + f.seconds * TicksPerSecond
NumbersOf(f) == f.first..f.first + f.requests - 1

\* What a reader of the directory may count on: every published file is whole, the files
\* number the requests without a gap and without using a number twice, and no file stands
\* for time that an earlier one stands for already, however long the writing took.  A
\* killed generator leaves a temporary file, never half of a published one.
FilesTileTheRun ==
    /\ \A f \in pcaps : f.written = f.requests
    /\ \A f, g \in pcaps : f.segment < g.segment =>
          f.first + f.requests <= g.first /\ EndOf(f) <= g.start
    /\ UNION {NumbersOf(f) : f \in pcaps} = 0..generated - 1

\* The packets of a request are a conversation that a reassembler accepts: each side goes
\* on where its last packet ended (SYN and FIN count as one byte), and acknowledges all
\* that the other side has sent, modulo the width of the numbers.
ConversationIsSound ==
    LET ends(p) == (p.seq + p.len + Cardinality(p.flags \cap {SYN, FIN})) % SeqSpace
        before(n, side) == {k \in 1..n - 1 : wire[k].from = side}
        other(side) == IF side = "c" THEN "s" ELSE "c"
    IN  \A n \in 1..Len(wire) :
          LET own == before(n, wire[n].from)
              theirs == before(n, other(wire[n].from))
          IN  /\ own # {} => wire[n].seq = ends(wire[Max(own)])
              /\ theirs # {} => /\ ACK \in wire[n].flags
                                /\ wire[n].ack = ends(wire[Max(theirs)])
================================================================================
