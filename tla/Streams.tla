--------------------------------- MODULE Streams ---------------------------------
(***************************************************************************)
(* How packets become flows (cmd/assembler/tcp.go and udp.go), up to the   *)
(* times a reader of the flow will use (db.go: FlowInsert, fid.go;         *)
(* api/database.py: flow_item_query).                                      *)
(*                                                                         *)
(* gopacket/reassembly puts TCP segments in order and calls a TcpStream    *)
(* with chunks of either direction and, once, with ReassemblyComplete.     *)
(* UdpAssembler groups datagrams itself, by the unordered pair of hosts    *)
(* and the unordered pair of ports.  FlushConnections completes what has   *)
(* been quiet for long.                                                    *)
(*                                                                         *)
(* Data appears as numbers of bytes: a stream has the bytes that arrived   *)
(* (size) and the bytes its items hold (kept).  Time is counted in a unit  *)
(* of which Resolution make up the microsecond that the database resolves. *)
(***************************************************************************)
EXTENDS Integers, Sequences, FiniteSets

CONSTANTS Connections,  \* TCP connections of the capture
          Headers,      \* UDP headers of the capture: source and destination
          Lengths,      \* lengths of chunks and payloads
          Limit,        \* maxFlowItemSize * 1024 * 1024
          Word,         \* values of a uint
          Resolution,   \* time units in a microsecond
          MaxTime,      \* bound: time of the last packet
          MaxPackets    \* bound: packets in the capture

ASSUME StreamsAssumption ==
    /\ Lengths \subseteq Nat
    /\ Limit \in Nat /\ Word \in Nat /\ Limit < Word
    /\ Resolution \in Nat \ {0}
    /\ MaxTime \in Nat /\ MaxPackets \in Nat
    /\ \A h \in Headers : DOMAIN h = {"src", "dst", "sport", "dport"}

VARIABLES arrived,      \* packets so far
          clock,        \* time of the latest packet
          sent,         \* headers of the UDP packets with a payload, in order
          tcp,          \* the TcpStream of each connection
          completed,    \* connections for which ReassemblyComplete was called
          udp,          \* UdpAssembler.Streams: a function on stream identifiers
          flows         \* flow entries given to reassemblyCallback

vars == <<arrived, clock, sent, tcp, completed, udp, flows>>

Directions == {"c", "s"}
Times == 0 .. MaxTime

\* LastSeen of a stream without a payload, the zero time, is older than every packet.
Never == -1

--------------------------------------------------------------------------------
(* Conversions. *)

\* The microsecond that FidPack puts into an id.
Micro(t) == t \div Resolution

\* StoredDuration that rounds down.
StoredDurationTruncated(d) == d \div Resolution

\* flow.Duration.Truncate(time.Microsecond) + time.Microsecond, in microseconds.
StoredDuration(d) == d \div Resolution + 1

\* uint subtraction.
UintMinus(a, b) == (a - b) % Word

Identifier(h) == [hosts |-> {h.src, h.dst}, ports |-> {h.sport, h.dport}]

Identifiers == {Identifier(h) : h \in Headers}

SetMaximum(S) == CHOOSE t \in S : \A u \in S : u <= t

ItemTimes(items) == {items[i].time : i \in DOMAIN items}

\* What both CompleteReassembly and ReassemblyComplete make of a stream.
Entry(proto, key, stream) ==
    [proto    |-> proto, key |-> key,
     items    |-> stream.items, kept |-> stream.kept, size |-> stream.size,
     packets  |-> stream.packets,
     time     |-> stream.items[1].time,
     duration |-> SetMaximum(ItemTimes(stream.items)) - stream.items[1].time]

--------------------------------------------------------------------------------

TcpStream == [items : Seq([from : Directions, time : Times]), kept : Nat, size : Nat,
              packets : Nat]

UdpStream == [items : Seq([from : Directions, time : Times, packet : Nat]),
              kept : Nat, size : Nat, packets : Nat, source : {h.src : h \in Headers},
              lastSeen : Times \cup {Never}]

FlowEntry == [proto : {"tcp", "udp"}, key : Connections \cup Identifiers,
              items : Seq([from : Directions, time : Times])
                        \cup Seq([from : Directions, time : Times, packet : Nat]),
              kept : Nat, size : Nat, packets : Nat,
              time : Times, duration : 0 .. MaxTime]

TypeOK == /\ arrived \in 0 .. MaxPackets
          /\ clock \in Times
          /\ sent \in Seq(Headers) /\ Len(sent) <= MaxPackets
          /\ tcp \in [Connections -> TcpStream]
          /\ completed \subseteq Connections
          /\ DOMAIN udp \subseteq Identifiers
          /\ \A id \in DOMAIN udp : udp[id] \in UdpStream
          /\ flows \subseteq FlowEntry

NewTcpStream == [items |-> <<>>, kept |-> 0, size |-> 0, packets |-> 0]

NewUdpStream(h) == [items |-> <<>>, kept |-> 0, size |-> 0, packets |-> 0,
                    source |-> h.src, lastSeen |-> Never]

Init == /\ arrived = 0
        /\ clock = 0
        /\ sent = <<>>
        /\ tcp = [c \in Connections |-> NewTcpStream]
        /\ completed = {}
        /\ udp = [id \in {} |-> 0]
        /\ flows = {}

--------------------------------------------------------------------------------
(* The capture. *)

\* The next packet of the capture was taken at time t.
Arrives(t) ==
    /\ arrived < MaxPackets
    /\ arrived' = arrived + 1
    /\ t >= clock
    /\ clock' = t

--------------------------------------------------------------------------------
(* TCP (tcp.go). *)

\* TcpRoom with the limit for each chunk, and without the check for a negative length.
TcpRoomOfChunk(total, length) == IF length <= Limit THEN length ELSE Limit

TcpRoomNegative(total, length) ==
    IF length <= Limit - total THEN length ELSE Limit - total

\* What is kept of a chunk, once it is counted in the total.
TcpRoom(total, length) ==
    LET available == Limit - total
    IN  IF length <= available THEN length
        ELSE IF available < 0 THEN 0 ELSE available

\* The stream's items after a chunk: appended to the last one when it has the same origin.
Consolidated(items, from, t) ==
    IF items # <<>> /\ items[Len(items)].from = from
      THEN items
      ELSE Append(items, [from |-> from, time |-> t])

\* ReassembledSG.
Reassembled(c, from, length, t) ==
    /\ c \notin completed
    /\ Arrives(t)
    /\ LET stream == tcp[c]
           total == stream.size + length
           after == IF length = 0 THEN [stream EXCEPT !.packets = stream.packets + 1]
                    ELSE [items |-> Consolidated(stream.items, from, t),
                          kept |-> stream.kept + TcpRoom(total, length),
                          size |-> total,
                          packets |-> stream.packets + 1]
       IN  tcp' = [tcp EXCEPT ![c] = after]
    /\ UNCHANGED <<sent, completed, udp, flows>>

\* ReassemblyComplete, when both directions have ended or timed out; a stream without
\* items makes no flow.  (It returns false, and the connection stays in the pool, where
\* both its halves are closed.)
ReassemblyComplete(c) ==
    /\ c \notin completed
    /\ completed' = completed \cup {c}
    /\ flows' = IF tcp[c].items = <<>> THEN flows ELSE flows \cup {Entry("tcp", c, tcp[c])}
    /\ UNCHANGED <<arrived, clock, sent, tcp, udp>>

--------------------------------------------------------------------------------
(* UDP (udp.go). *)

\* What is kept of a payload, once it is counted in PacketSize.
UdpRoom(total, length) ==
    LET available == UintMinus(Limit, total)
    IN  IF length <= available THEN length ELSE available

\* A packet for the host that sent the stream's first packet comes from "c".
From(h, stream) == IF h.dst = stream.source THEN "c" ELSE "s"

\* ProcessSegment, of a payload that is not empty.
Segment(stream, h, length, t) ==
    LET total == stream.size + length
    IN  [items |-> Append(stream.items, [from |-> From(h, stream), time |-> t,
                                         packet |-> Len(sent) + 1]),
         kept |-> stream.kept + UdpRoom(total, length),
         size |-> total,
         packets |-> stream.packets + 1,
         source |-> stream.source,
         lastSeen |-> t]

\* Assemble: the stream of the packet's identifier, or a new one, gets the segment; a
\* packet without a payload only makes the stream.
Assemble(h, length, t) ==
    /\ Arrives(t)
    /\ LET id == Identifier(h)
           stream == IF id \in DOMAIN udp THEN udp[id] ELSE NewUdpStream(h)
           after == IF length = 0 THEN stream ELSE Segment(stream, h, length, t)
       IN  udp' = [i \in DOMAIN udp \cup {id} |-> IF i = id THEN after ELSE udp[i]]
    /\ sent' = IF length = 0 THEN sent ELSE Append(sent, h)
    /\ UNCHANGED <<tcp, completed, flows>>

\* CompleteOlderThan that keeps the streams it completes.
CompleteOlderThanKeeps(threshold) ==
    LET old == {id \in DOMAIN udp : udp[id].lastSeen < threshold}
    IN  /\ old # {}
        /\ flows' = flows \cup
              {Entry("udp", id, udp[id]) : id \in {i \in old : udp[i].items # <<>>}}
        /\ UNCHANGED <<arrived, clock, sent, tcp, completed, udp>>

\* CompleteOlderThan and FlushConnections: streams last seen before the threshold are
\* removed; those with items become flows.
CompleteOlderThan(threshold) ==
    LET old == {id \in DOMAIN udp : udp[id].lastSeen < threshold}
    IN  /\ old # {}
        /\ udp' = [id \in DOMAIN udp \ old |-> udp[id]]
        /\ flows' = flows \cup
              {Entry("udp", id, udp[id]) : id \in {i \in old : udp[i].items # <<>>}}
        /\ UNCHANGED <<arrived, clock, sent, tcp, completed>>

--------------------------------------------------------------------------------

Next == \/ \E t \in Times, length \in Lengths :
              \/ \E c \in Connections, from \in Directions : Reassembled(c, from, length, t)
              \/ \E h \in Headers : Assemble(h, length, t)
        \/ \E c \in Connections : ReassemblyComplete(c)
        \/ \E threshold \in 0 .. MaxTime + 1 : CompleteOlderThan(threshold)

Spec == Init /\ [][Next]_vars

--------------------------------------------------------------------------------
(* What must hold. *)

Collected == {tcp[c] : c \in Connections} \cup {udp[id] : id \in DOMAIN udp} \cup flows

\* "We have to make sure to stay under the document limit" (tcp.go:117): the items of a
\* TCP stream never hold more than the limit, however the bytes come in chunks.
TcpUnderLimit ==
    /\ \A c \in Connections : tcp[c].kept <= Limit
    /\ \A f \in flows : f.proto = "tcp" => f.kept <= Limit

\* Although the room is computed from a total that has the chunk in it, a stream of at
\* most half the limit keeps every byte (tcp.go:118-125, udp.go:111-120).
HalfLimitIsKept ==
    \A s \in Collected : 2 * s.size <= Limit => s.kept = s.size

\* The limit cuts what is above it, and does not cut what is far below it.
LimitIsFair == TcpUnderLimit /\ HalfLimitIsKept

\* Two items of a TCP stream that follow each other come from different sides
\* (tcp.go:135-143), which the pairing of requests with responses relies on.
TurnsAlternate ==
    \A f \in flows : f.proto = "tcp" =>
        \A i \in 1 .. Len(f.items) - 1 : f.items[i].from # f.items[i + 1].from

\* The flow's row has its time and its duration in microseconds; a reader looks for items
\* between the two, and finds every one: rounding hides no item (db.go:388-390,
\* database.py:258).
EveryItemShown ==
    \A f \in flows : \A i \in DOMAIN f.items :
        /\ Micro(f.time) <= Micro(f.items[i].time)
        /\ Micro(f.items[i].time) <= Micro(f.time) + StoredDuration(f.duration)

PacketsIn(stream) == {stream.items[i].packet : i \in DOMAIN stream.items}

UdpFlows == {f \in flows : f.proto = "udp"}

\* A datagram with a payload is in one stream or one flow, whenever streams are completed
\* and begun again.
PacketsOnce ==
    /\ 1 .. Len(sent) = (UNION {PacketsIn(udp[id]) : id \in DOMAIN udp})
                            \cup (UNION {PacketsIn(f) : f \in UdpFlows})
    /\ \A id \in DOMAIN udp : \A f \in UdpFlows : PacketsIn(udp[id]) \cap PacketsIn(f) = {}
    /\ \A f, g \in UdpFlows : f # g => PacketsIn(f) \cap PacketsIn(g) = {}

Reply(h) == [src |-> h.dst, dst |-> h.src, sport |-> h.dport, dport |-> h.sport]

\* While a stream is open, the packets of its conversation in either direction go to no
\* other stream.
ConversationWhole ==
    \A i, j \in DOMAIN udp : i # j =>
        \A p \in PacketsIn(udp[i]), q \in PacketsIn(udp[j]) :
            sent[p] # sent[q] /\ sent[p] # Reply(sent[q])

\* Completing a conversation while it goes on neither loses nor doubles a datagram, and
\* never lets two open streams share the conversation (udp.go:46-77).
ConversationsHoldTogether == PacketsOnce /\ ConversationWhole

\* "We have to make sure to stay under the document limit" (udp.go:112).
UdpUnderLimit == \A f \in UdpFlows : f.kept <= Limit
================================================================================
