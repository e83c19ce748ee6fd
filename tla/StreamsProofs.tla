------------------------------ MODULE StreamsProofs ------------------------------
(***************************************************************************)
(* Proofs about Streams for any connections, headers, lengths, limit and   *)
(* width of a word, any capture, and any resolution of the database.       *)
(***************************************************************************)
EXTENDS Streams, TLAPS

--------------------------------------------------------------------------------
(* Arithmetic. *)

\* Below the limit the unsigned difference is the difference.
LEMMA UintMinusInRange ==
  ASSUME NEW a \in Nat, NEW b \in Nat, a < Word, b <= a
  PROVE  UintMinus(a, b) = a - b
<1>1. Word \in Nat /\ Word > 0
  BY StreamsAssumption
<1>2. a - b \in 0 .. Word - 1
  BY <1>1
<1>3. \A x \in 0 .. Word - 1 : x % Word = x
  BY <1>1
<1> QED
  BY <1>2, <1>3 DEF UintMinus

LEMMA UintMinusType ==
  ASSUME NEW a \in Int, NEW b \in Int
  PROVE  UintMinus(a, b) \in Nat
<1>1. Word \in Nat /\ Word > 0 /\ a - b \in Int
  BY StreamsAssumption
<1> QED
  BY <1>1 DEF UintMinus

\* Rounding down is monotonic.
LEMMA MicroMonotonic ==
  ASSUME NEW t \in Nat, NEW u \in Nat, t <= u
  PROVE  Micro(t) \in Nat /\ Micro(u) \in Nat /\ Micro(t) <= Micro(u)
<1>1. Resolution \in Nat /\ Resolution > 0
  BY StreamsAssumption
<1> QED
  BY <1>1 DEF Micro

\* A duration that is rounded down and increased by one reaches every later item.
LEMMA DurationReaches ==
  ASSUME NEW t \in Nat, NEW u \in Nat, t <= u
  PROVE  Micro(u) <= Micro(t) + StoredDuration(u - t)
<1> DEFINE R == Resolution
<1>1. R \in Nat /\ R > 0
  BY StreamsAssumption
<1>2. \A x \in Nat : x \div R \in Nat /\ R * (x \div R) <= x /\ x < R * (x \div R) + R
  BY <1>1
<1> QED
  BY <1>1, <1>2 DEF Micro, StoredDuration

--------------------------------------------------------------------------------
(* The inductive invariant. *)

\* The times of items rise and are not beyond now, the time of the latest packet.
Ordered(items, now) ==
    /\ \A i \in DOMAIN items : items[i].time \in Times /\ items[i].time <= now
    /\ \A i, j \in DOMAIN items : i <= j => items[i].time <= items[j].time

Alternate(items) ==
    \A i \in 1 .. Len(items) - 1 : items[i].from # items[i + 1].from

\* What is kept of the bytes that arrived: nothing is added, and all of it below half of
\* the limit.
KeptOf(stream) ==
    /\ stream.kept <= stream.size
    /\ 2 * stream.size <= Limit => stream.kept = stream.size

TcpGood ==
    \A c \in Connections : /\ Ordered(tcp[c].items, clock)
                           /\ Alternate(tcp[c].items)
                           /\ KeptOf(tcp[c])
                           /\ tcp[c].kept <= Limit

UdpGood ==
    \A id \in DOMAIN udp :
        /\ Ordered(udp[id].items, clock)
        /\ KeptOf(udp[id])
        /\ \A p \in PacketsIn(udp[id]) : p \in 1 .. Len(sent) /\ Identifier(sent[p]) = id

FlowsGood ==
    \A f \in flows :
        /\ Len(f.items) > 0
        /\ Ordered(f.items, MaxTime)
        /\ f.time = f.items[1].time
        /\ f.duration = f.items[Len(f.items)].time - f.items[1].time
        /\ KeptOf(f)
        /\ f.proto = "tcp" => f.kept <= Limit /\ Alternate(f.items)

SentGood == Len(sent) <= arrived

IInv == TypeOK /\ SentGood /\ TcpGood /\ UdpGood /\ FlowsGood /\ PacketsOnce

--------------------------------------------------------------------------------
(* Items. *)

TcpItem == [from : Directions, time : Times]

UdpItem == [from : Directions, time : Times, packet : Nat]

LEMMA MaximumIs ==
  ASSUME NEW S \in SUBSET Int, NEW m \in S, \A u \in S : u <= m
  PROVE  SetMaximum(S) = m
<1>1. \A t \in S : (\A u \in S : u <= t) => t = m
  OBVIOUS
<1> QED
  BY <1>1 DEF SetMaximum

\* The time that an entry ends with is that of the last item.
LEMMA LastIsLatest ==
  ASSUME NEW items, NEW now, Ordered(items, now), NEW n \in Nat \ {0}, DOMAIN items = 1 .. n
  PROVE  SetMaximum(ItemTimes(items)) = items[n].time
<1>1. ItemTimes(items) \subseteq Int
  BY StreamsAssumption DEF Ordered, ItemTimes, Times
<1>2. items[n].time \in ItemTimes(items)
  BY DEF ItemTimes
<1>3. \A u \in ItemTimes(items) : u <= items[n].time
  BY DEF Ordered, ItemTimes
<1> QED
  BY <1>1, <1>2, <1>3, MaximumIs

\* A longer list of items of the same kind, in order.
LEMMA AppendOrdered ==
  ASSUME NEW T, NEW items \in Seq(T), NEW e \in T, NEW now \in Times, NEW t \in Times,
         now <= t, Ordered(items, now), e.time = t
  PROVE  /\ Append(items, e) \in Seq(T)
         /\ Ordered(Append(items, e), t)
<1>1. /\ Len(items) \in Nat /\ DOMAIN items = 1 .. Len(items)
      /\ DOMAIN Append(items, e) = 1 .. Len(items) + 1
      /\ \A i \in 1 .. Len(items) : Append(items, e)[i] = items[i]
      /\ Append(items, e)[Len(items) + 1] = e
  OBVIOUS
<1>2. /\ Times \subseteq Int
      /\ now \in Int /\ t \in Int
  BY StreamsAssumption DEF Times
<1>3. ASSUME NEW i \in DOMAIN Append(items, e)
      PROVE  Append(items, e)[i].time \in Times /\ Append(items, e)[i].time <= t
  <2>1. CASE i = Len(items) + 1
    BY <2>1, <1>1, <1>2
  <2>2. CASE i # Len(items) + 1
    <3>1. i \in DOMAIN items /\ Append(items, e)[i] = items[i]
      BY <2>2, <1>1
    <3>2. items[i].time \in Times /\ items[i].time \in Int /\ items[i].time <= now
      BY <3>1, <1>2 DEF Ordered
    <3>3. items[i].time <= t
      BY <3>2, <1>2
    <3> QED
      BY <3>1, <3>2, <3>3
  <2> QED
    BY <2>1, <2>2
<1>4. ASSUME NEW i \in DOMAIN Append(items, e), NEW j \in DOMAIN Append(items, e), i <= j
      PROVE  Append(items, e)[i].time <= Append(items, e)[j].time
  <2>1. CASE j = Len(items) + 1
    BY <2>1, <1>1, <1>3
  <2>2. CASE j # Len(items) + 1
    BY <2>2, <1>1, <1>4 DEF Ordered
  <2> QED
    BY <2>1, <2>2
<1> QED
  BY <1>3, <1>4 DEF Ordered

\* Time that goes by disturbs nothing.
LEMMA LaterOrdered ==
  ASSUME NEW items, NEW now \in Times, NEW t \in Int, now <= t, Ordered(items, now)
  PROVE  Ordered(items, t)
  BY StreamsAssumption DEF Ordered, Times

LEMMA ConsolidatedGood ==
  ASSUME NEW items \in Seq(TcpItem), NEW from \in Directions, NEW t \in Times,
         NEW now \in Times, now <= t, Ordered(items, now), Alternate(items)
  PROVE  /\ Consolidated(items, from, t) \in Seq(TcpItem)
         /\ Ordered(Consolidated(items, from, t), t)
         /\ Alternate(Consolidated(items, from, t))
<1> DEFINE e == [from |-> from, time |-> t]
<1>1. e \in TcpItem /\ e.time = t /\ e.from = from
  BY DEF TcpItem
<1>2. CASE items # <<>> /\ items[Len(items)].from = from
  BY <1>2, LaterOrdered DEF Consolidated, Times
<1>3. CASE ~ (items # <<>> /\ items[Len(items)].from = from)
  <2>1. Consolidated(items, from, t) = Append(items, e)
    BY <1>3 DEF Consolidated
  <2>2. Append(items, e) \in Seq(TcpItem) /\ Ordered(Append(items, e), t)
    BY <1>1, AppendOrdered
  <2>3. /\ Len(items) \in Nat /\ Len(Append(items, e)) = Len(items) + 1
        /\ \A i \in 1 .. Len(items) : Append(items, e)[i] = items[i]
        /\ Append(items, e)[Len(items) + 1] = e
    BY <1>1
  <2>4. Len(items) > 0 => items[Len(items)].from # from
    BY <1>3
  <2>5. ASSUME NEW i \in 1 .. Len(items)
        PROVE  Append(items, e)[i].from # Append(items, e)[i + 1].from
    <3>1. CASE i = Len(items)
      BY <3>1, <2>3, <2>4, <1>1
    <3>2. CASE i < Len(items)
      <4>1. i \in 1 .. Len(items) - 1 /\ i + 1 \in 1 .. Len(items)
        BY <3>2, <2>3
      <4> QED
        BY <4>1, <2>3 DEF Alternate
    <3> QED
      BY <3>1, <3>2, <2>3
  <2> QED
    BY <2>1, <2>2, <2>3, <2>5 DEF Alternate
<1> QED
  BY <1>2, <1>3

--------------------------------------------------------------------------------
(* Streams. *)

\* What is kept of a chunk is a part of it, leaves the items under the limit, and is the
\* whole chunk as long as the total is not beyond half of the limit.
LEMMA TcpRoomGood ==
  ASSUME NEW size \in Nat, NEW kept \in Nat, NEW length \in Nat,
         kept <= size, kept <= Limit
  PROVE  LET room == TcpRoom(size + length, length)
         IN  /\ room \in 0 .. length
             /\ kept + room <= Limit
             /\ 2 * (size + length) <= Limit => room = length
<1>1. Limit \in Nat
  BY StreamsAssumption
<1> QED
  BY <1>1 DEF TcpRoom

LEMMA KeptAfter ==
  ASSUME NEW size \in Nat, NEW kept \in Nat, NEW length \in Nat, NEW room \in 0 .. length,
         kept <= size, 2 * size <= Limit => kept = size,
         2 * (size + length) <= Limit => room = length
  PROVE  /\ size + length \in Nat /\ kept + room \in Nat
         /\ kept + room <= size + length
         /\ 2 * (size + length) <= Limit => kept + room = size + length
  BY StreamsAssumption

LEMMA UdpRoomGood ==
  ASSUME NEW total \in Nat, NEW length \in Nat, length <= total
  PROVE  LET room == UdpRoom(total, length)
         IN  /\ room \in 0 .. length
             /\ 2 * total <= Limit => room = length
<1>1. Limit \in Nat /\ Limit < Word
  BY StreamsAssumption
<1>2. UintMinus(Limit, total) \in Nat
  <2>1. Limit \in Int /\ total \in Int
    BY <1>1
  <2> QED
    BY <2>1, UintMinusType
<1>3. 2 * total <= Limit => UintMinus(Limit, total) = Limit - total
  BY <1>1, UintMinusInRange
<1> QED
  BY <1>1, <1>2, <1>3 DEF UdpRoom

\* A datagram that joins a stream of its identifier.
LEMMA SegmentGood ==
  ASSUME NEW stream \in UdpStream, NEW h \in Headers, NEW length \in Nat,
         NEW t \in Times, NEW now \in Times, now <= t, Len(sent) \in Nat,
         Ordered(stream.items, now), KeptOf(stream)
  PROVE  LET after == Segment(stream, h, length, t)
         IN  /\ after \in UdpStream
             /\ Ordered(after.items, t)
             /\ KeptOf(after)
             /\ PacketsIn(after) = PacketsIn(stream) \cup {Len(sent) + 1}
<1> DEFINE after == Segment(stream, h, length, t)
           item == [from |-> From(h, stream), time |-> t, packet |-> Len(sent) + 1]
           room == UdpRoom(stream.size + length, length)
<1>1. /\ stream.items \in Seq(UdpItem) /\ stream.kept \in Nat /\ stream.size \in Nat
      /\ stream.packets \in Nat /\ stream.source \in {g.src : g \in Headers}
  BY DEF UdpStream, UdpItem
<1>2. item \in UdpItem /\ item.time = t
  BY DEF UdpItem, From, Directions
<1>3. /\ Append(stream.items, item) \in Seq(UdpItem)
      /\ Ordered(Append(stream.items, item), t)
  BY <1>1, <1>2, AppendOrdered
<1>4. room \in 0 .. length /\ (2 * (stream.size + length) <= Limit => room = length)
  <2>1. stream.size + length \in Nat /\ length <= stream.size + length
    BY <1>1
  <2> QED
    BY <2>1, UdpRoomGood
<1>5. after = [items |-> Append(stream.items, item), kept |-> stream.kept + room,
               size |-> stream.size + length, packets |-> stream.packets + 1,
               source |-> stream.source, lastSeen |-> t]
  BY DEF Segment
<1>6. /\ after.items = Append(stream.items, item) /\ after.kept = stream.kept + room
      /\ after.size = stream.size + length
  BY <1>5
<1>7. /\ stream.size + length \in Nat /\ stream.kept + room \in Nat
      /\ stream.kept + room <= stream.size + length
      /\ 2 * (stream.size + length) <= Limit => stream.kept + room = stream.size + length
  <2>1. /\ stream.kept <= stream.size
        /\ 2 * stream.size <= Limit => stream.kept = stream.size
    BY DEF KeptOf
  <2> HIDE DEF room
  <2> QED
    BY <1>1, <1>4, <2>1, KeptAfter
<1>8. after \in UdpStream
  <2>1. stream.packets + 1 \in Nat /\ t \in Times \cup {Never}
    BY <1>1
  <2> HIDE DEF room, item, after
  <2> QED
    BY <1>1, <1>3, <1>5, <1>7, <2>1 DEF UdpStream, UdpItem
<1> HIDE DEF room, item, after
<1>9. KeptOf(after)
  BY <1>6, <1>7 DEF KeptOf
<1>10. PacketsIn(after) = PacketsIn(stream) \cup {Len(sent) + 1}
  <2>1. /\ DOMAIN Append(stream.items, item) = DOMAIN stream.items \cup {Len(stream.items) + 1}
        /\ \A i \in DOMAIN stream.items : Append(stream.items, item)[i] = stream.items[i]
        /\ Append(stream.items, item)[Len(stream.items) + 1] = item
    BY <1>1, <1>2
  <2>2. item.packet = Len(sent) + 1 /\ after.items = Append(stream.items, item)
    BY <1>6 DEF item
  <2> QED
    BY <2>1, <2>2 DEF PacketsIn
<1>11. Ordered(after.items, t)
  BY <1>3, <1>6
<1> QED
  BY <1>8, <1>9, <1>10, <1>11 DEF after

LEMMA NewStreamGood ==
  ASSUME NEW h \in Headers, NEW now \in Times
  PROVE  LET stream == NewUdpStream(h)
         IN  /\ stream \in UdpStream
             /\ Ordered(stream.items, now)
             /\ KeptOf(stream)
             /\ PacketsIn(stream) = {}
<1>1. /\ NewUdpStream(h).items = <<>> /\ NewUdpStream(h).kept = 0
      /\ NewUdpStream(h).size = 0
  BY DEF NewUdpStream
<1>2. NewUdpStream(h) \in UdpStream
  BY DEF NewUdpStream, UdpStream
<1>3. Ordered(<<>>, now)
  BY DEF Ordered
<1>4. PacketsIn(NewUdpStream(h)) = {}
  BY <1>1 DEF PacketsIn
<1> QED
  BY <1>1, <1>2, <1>3, <1>4 DEF KeptOf

\* What an entry says of the stream it is made of.
LEMMA EntryGood ==
  ASSUME NEW proto, NEW key, NEW stream, NEW T, stream.items \in Seq(T),
         stream.items # <<>>, NEW now \in Times, Ordered(stream.items, now)
  PROVE  LET e == Entry(proto, key, stream)
         IN  /\ Len(e.items) > 0
             /\ Ordered(e.items, MaxTime)
             /\ e.time = e.items[1].time /\ e.time \in Times
             /\ e.duration = e.items[Len(e.items)].time - e.items[1].time
             /\ e.duration \in 0 .. MaxTime
<1> DEFINE e == Entry(proto, key, stream)
           items == stream.items
<1>1. Len(items) \in Nat \ {0} /\ DOMAIN items = 1 .. Len(items)
  OBVIOUS
<1>2. SetMaximum(ItemTimes(items)) = items[Len(items)].time
  BY <1>1, LastIsLatest
<1>3. /\ e.items = items /\ e.time = items[1].time
      /\ e.duration = items[Len(items)].time - items[1].time
  BY <1>2 DEF Entry
<1>4. MaxTime \in Nat /\ now \in Nat /\ now <= MaxTime
  BY StreamsAssumption DEF Times
<1>5. Ordered(items, MaxTime)
  BY <1>4, LaterOrdered
<1>6. /\ items[1].time \in Times /\ items[Len(items)].time \in Times
      /\ items[1].time <= items[Len(items)].time
  BY <1>1 DEF Ordered
<1>7. items[Len(items)].time - items[1].time \in 0 .. MaxTime
  BY <1>4, <1>6 DEF Times
<1> QED
  BY <1>1, <1>3, <1>5, <1>6, <1>7

--------------------------------------------------------------------------------
(* The steps. *)

LEMMA InitGood == Init => IInv
<1> SUFFICES ASSUME Init PROVE IInv
  OBVIOUS
<1> USE DEF Init
<1>1. TypeOK
  BY StreamsAssumption DEF TypeOK, TcpStream, NewTcpStream, Times
<1>2. TcpGood
  BY StreamsAssumption DEF TcpGood, NewTcpStream, Ordered, Alternate, KeptOf
<1>3. SentGood /\ UdpGood /\ FlowsGood
  BY DEF SentGood, UdpGood, FlowsGood
<1>4. PacketsOnce
  <2>1. DOMAIN udp = {} /\ UdpFlows = {} /\ 1 .. Len(sent) = {}
    BY DEF UdpFlows
  <2>2. /\ {PacketsIn(udp[id]) : id \in DOMAIN udp} = {}
        /\ {PacketsIn(f) : f \in UdpFlows} = {}
    BY <2>1
  <2> QED
    BY <2>1, <2>2 DEF PacketsOnce
<1> QED
  BY <1>1, <1>2, <1>3, <1>4 DEF IInv

\* A step that changes neither the datagrams nor the flows of UDP.
LEMMA UdpUntouched ==
  ASSUME PacketsOnce, UNCHANGED <<sent, udp>>, UdpFlows' = UdpFlows
  PROVE  PacketsOnce'
<1>1. sent' = sent /\ udp' = udp
  OBVIOUS
<1>2. (UNION {PacketsIn(udp[id]) : id \in DOMAIN udp})'
         = UNION {PacketsIn(udp[id]) : id \in DOMAIN udp}
  BY <1>1 DEF PacketsIn
<1>3. (UNION {PacketsIn(f) : f \in UdpFlows})' = UNION {PacketsIn(f) : f \in UdpFlows}
  BY DEF PacketsIn
<1>4. (1 .. Len(sent))' = 1 .. Len(sent)
  BY <1>1
<1>5. (1 .. Len(sent) = (UNION {PacketsIn(udp[id]) : id \in DOMAIN udp})
                           \cup (UNION {PacketsIn(f) : f \in UdpFlows}))'
  BY <1>2, <1>3, <1>4 DEF PacketsOnce
<1>6. (\A id \in DOMAIN udp : \A f \in UdpFlows : PacketsIn(udp[id]) \cap PacketsIn(f) = {})'
  <2>1. \A id \in DOMAIN udp : \A f \in UdpFlows : PacketsIn(udp[id]) \cap PacketsIn(f) = {}
    BY DEF PacketsOnce
  <2> QED
    BY <1>1, <2>1
<1>7. (\A f, g \in UdpFlows : f # g => PacketsIn(f) \cap PacketsIn(g) = {})'
  BY <1>1 DEF PacketsOnce, PacketsIn
<1> QED
  BY <1>5, <1>6, <1>7 DEF PacketsOnce

LEMMA ReassembledStep ==
  ASSUME IInv, NEW c \in Connections, NEW from \in Directions, NEW length \in Lengths,
         NEW t \in Times, Reassembled(c, from, length, t)
  PROVE  IInv'
<1> DEFINE s == tcp[c]
           total == s.size + length
           long == [items |-> Consolidated(s.items, from, t),
                    kept |-> s.kept + TcpRoom(total, length),
                    size |-> total, packets |-> s.packets + 1]
           empty == [items |-> s.items, kept |-> s.kept, size |-> s.size,
                     packets |-> s.packets + 1]
           after == IF length = 0 THEN empty ELSE long
<1>1. /\ TypeOK /\ SentGood /\ TcpGood /\ UdpGood /\ FlowsGood /\ PacketsOnce
      /\ length \in Nat /\ clock \in Times /\ clock <= t /\ Times \subseteq Int
      /\ t \in Int /\ clock \in Int
      /\ arrived' = arrived + 1 /\ arrived' \in 0 .. MaxPackets /\ clock' = t
      /\ UNCHANGED <<sent, completed, udp, flows>>
  BY StreamsAssumption DEF IInv, TypeOK, Reassembled, Arrives, Times
<1>2. /\ s \in TcpStream
      /\ s.items \in Seq(TcpItem) /\ s.kept \in Nat /\ s.size \in Nat /\ s.packets \in Nat
      /\ Ordered(s.items, clock) /\ Alternate(s.items) /\ KeptOf(s) /\ s.kept <= Limit
  BY <1>1 DEF TypeOK, TcpStream, TcpItem, TcpGood
<1>3. tcp' = [tcp EXCEPT ![c] = after]
  <2>1. s = [items |-> s.items, kept |-> s.kept, size |-> s.size, packets |-> s.packets]
    BY <1>2 DEF TcpStream
  <2>2. [s EXCEPT !.packets = s.packets + 1] = empty
    BY <2>1
  <2>3. CASE length = 0
    BY <2>2, <2>3 DEF Reassembled
  <2>4. CASE length # 0
    BY <2>4 DEF Reassembled
  <2> QED
    BY <2>3, <2>4
<1>4. /\ after \in TcpStream /\ Ordered(after.items, t) /\ Alternate(after.items)
      /\ KeptOf(after) /\ after.kept <= Limit
  <2>1. CASE length = 0
    <3>1. Ordered(s.items, t)
      BY <1>1, <1>2, LaterOrdered
    <3> QED
      BY <2>1, <3>1, <1>2 DEF TcpStream, TcpItem, KeptOf
  <2>2. CASE length # 0
    <3>1. /\ Consolidated(s.items, from, t) \in Seq(TcpItem)
          /\ Ordered(Consolidated(s.items, from, t), t)
          /\ Alternate(Consolidated(s.items, from, t))
      BY <1>1, <1>2, ConsolidatedGood
    <3>2. /\ TcpRoom(total, length) \in 0 .. length
          /\ s.kept + TcpRoom(total, length) <= Limit
          /\ 2 * total <= Limit => TcpRoom(total, length) = length
      BY <1>1, <1>2, TcpRoomGood DEF KeptOf
    <3>3. /\ total \in Nat /\ s.kept + TcpRoom(total, length) \in Nat
          /\ s.kept + TcpRoom(total, length) <= total
          /\ 2 * total <= Limit => s.kept + TcpRoom(total, length) = total
      BY <3>2, <1>1, <1>2, KeptAfter DEF KeptOf
    <3>4. /\ after = long /\ long.items = Consolidated(s.items, from, t)
          /\ long.kept = s.kept + TcpRoom(total, length) /\ long.size = total
      BY <2>2
    <3>5. KeptOf(after)
      BY <3>3, <3>4 DEF KeptOf
    <3>6. after \in TcpStream
      BY <2>2, <3>1, <3>3, <1>2 DEF TcpStream, TcpItem
    <3> QED
      BY <3>1, <3>2, <3>4, <3>5, <3>6
  <2> QED
    BY <2>1, <2>2
<1> HIDE DEF after
<1>5. TypeOK' /\ SentGood'
  BY <1>1, <1>3, <1>4 DEF TypeOK, SentGood
<1>6. TcpGood'
  <2>1. ASSUME NEW d \in Connections
        PROVE  /\ Ordered(tcp'[d].items, t) /\ Alternate(tcp'[d].items)
               /\ KeptOf(tcp'[d]) /\ tcp'[d].kept <= Limit
    <3>1. CASE d = c
      BY <3>1, <1>1, <1>3, <1>4 DEF TypeOK
    <3>2. CASE d # c
      <4>1. tcp'[d] = tcp[d]
        BY <3>2, <1>1, <1>3 DEF TypeOK
      <4> QED
        BY <4>1, <1>1, LaterOrdered DEF TcpGood
    <3> QED
      BY <3>1, <3>2
  <2> QED
    BY <2>1, <1>1 DEF TcpGood
<1>7. UdpGood'
  BY <1>1, LaterOrdered DEF UdpGood, PacketsIn
<1>8. FlowsGood'
  BY <1>1 DEF FlowsGood
<1>9. PacketsOnce'
  BY <1>1, UdpUntouched DEF UdpFlows
<1> QED
  BY <1>5, <1>6, <1>7, <1>8, <1>9 DEF IInv

LEMMA ReassemblyCompleteStep ==
  ASSUME IInv, NEW c \in Connections, ReassemblyComplete(c)
  PROVE  IInv'
<1> DEFINE s == tcp[c]
           f == Entry("tcp", c, s)
<1>1. /\ TypeOK /\ SentGood /\ TcpGood /\ UdpGood /\ FlowsGood /\ PacketsOnce
      /\ completed' \subseteq Connections
      /\ flows' = flows \/ (s.items # <<>> /\ flows' = flows \cup {f})
      /\ UNCHANGED <<arrived, clock, sent, tcp, udp>>
  BY DEF IInv, TypeOK, ReassemblyComplete
<1>2. /\ s \in TcpStream /\ clock \in Times
      /\ s.items \in Seq(TcpItem) /\ s.kept \in Nat /\ s.size \in Nat /\ s.packets \in Nat
      /\ Ordered(s.items, clock) /\ Alternate(s.items) /\ KeptOf(s) /\ s.kept <= Limit
  BY <1>1 DEF TypeOK, TcpStream, TcpItem, TcpGood
<1>3. /\ f.proto = "tcp" /\ f.key = c /\ f.items = s.items /\ f.kept = s.kept
      /\ f.size = s.size /\ f.packets = s.packets
      /\ f = [proto |-> "tcp", key |-> c, items |-> s.items, kept |-> s.kept,
              size |-> s.size, packets |-> s.packets, time |-> f.time,
              duration |-> f.duration]
  BY DEF Entry
<1>4. s.items # <<>> =>
         /\ Len(f.items) > 0
         /\ Ordered(f.items, MaxTime)
         /\ f.time = f.items[1].time /\ f.time \in Times
         /\ f.duration = f.items[Len(f.items)].time - f.items[1].time
         /\ f.duration \in 0 .. MaxTime
  BY <1>2, EntryGood
<1> HIDE DEF f
<1>5. s.items # <<>> => f \in FlowEntry
  BY <1>2, <1>3, <1>4 DEF FlowEntry, TcpItem
<1>6. TypeOK' /\ SentGood'
  BY <1>1, <1>5 DEF TypeOK, SentGood
<1>7. TcpGood' /\ UdpGood'
  BY <1>1 DEF TcpGood, UdpGood, PacketsIn
<1>8. FlowsGood'
  BY <1>1, <1>2, <1>3, <1>4 DEF FlowsGood, KeptOf
<1>9. UdpFlows' = UdpFlows
  BY <1>1, <1>3 DEF UdpFlows
<1>10. PacketsOnce'
  BY <1>1, <1>9, UdpUntouched
<1> QED
  BY <1>6, <1>7, <1>8, <1>10 DEF IInv

\* The packets of a datagram's stream before it arrives: none if there was no stream.
PacketsBefore(id) == IF id \in DOMAIN udp THEN PacketsIn(udp[id]) ELSE {}

LEMMA AssembleStep ==
  ASSUME IInv, NEW h \in Headers, NEW length \in Lengths, NEW t \in Times,
         Assemble(h, length, t)
  PROVE  IInv'
<1> DEFINE id == Identifier(h)
           stream == IF id \in DOMAIN udp THEN udp[id] ELSE NewUdpStream(h)
           after == IF length = 0 THEN stream ELSE Segment(stream, h, length, t)
           added == IF length = 0 THEN {} ELSE {Len(sent) + 1}
<1>1. /\ TypeOK /\ SentGood /\ TcpGood /\ UdpGood /\ FlowsGood /\ PacketsOnce
      /\ length \in Nat /\ clock \in Times /\ clock <= t /\ Times \subseteq Int
      /\ sent \in Seq(Headers) /\ Len(sent) \in Nat /\ clock \in Int /\ t \in Int
      /\ clock' = t /\ arrived' = arrived + 1 /\ arrived' \in 0 .. MaxPackets
      /\ UNCHANGED <<tcp, completed, flows>>
  BY StreamsAssumption DEF IInv, TypeOK, Assemble, Arrives, Times
<1>2. /\ DOMAIN udp' = DOMAIN udp \cup {id}
      /\ udp'[id] = after
      /\ \A i \in DOMAIN udp : i # id => udp'[i] = udp[i]
      /\ id \in Identifiers
  BY DEF Assemble, Identifiers
<1>3. /\ stream \in UdpStream /\ Ordered(stream.items, clock) /\ KeptOf(stream)
      /\ PacketsIn(stream) = PacketsBefore(id)
  <2>1. CASE id \in DOMAIN udp
    BY <2>1, <1>1 DEF TypeOK, UdpGood, PacketsBefore
  <2>2. CASE id \notin DOMAIN udp
    BY <2>2, <1>1, NewStreamGood DEF PacketsBefore
  <2> QED
    BY <2>1, <2>2
<1> HIDE DEF stream
<1>4. /\ after \in UdpStream /\ Ordered(after.items, t) /\ KeptOf(after)
      /\ PacketsIn(after) = PacketsBefore(id) \cup added
  <2>1. CASE length = 0
    <3>1. Ordered(stream.items, t)
      BY <1>1, <1>3, LaterOrdered
    <3> QED
      BY <2>1, <3>1, <1>3
  <2>2. CASE length # 0
    BY <2>2, <1>1, <1>3, SegmentGood
  <2> QED
    BY <2>1, <2>2
<1> HIDE DEF after
<1>5. /\ sent' \in Seq(Headers)
      /\ 1 .. Len(sent') = 1 .. Len(sent) \cup added
      /\ \A p \in 1 .. Len(sent) : sent'[p] = sent[p]
      /\ \A p \in added : sent'[p] = h /\ p \notin 1 .. Len(sent)
      /\ length = 0 => sent' = sent
      /\ length # 0 => Len(sent') = Len(sent) + 1
  BY <1>1 DEF Assemble
<1> HIDE DEF added
<1> HIDE DEF id
<1>6. TypeOK' /\ SentGood'
  <2>1. arrived \in Nat /\ MaxPackets \in Nat
    BY <1>1, StreamsAssumption DEF TypeOK
  <2>2. SentGood' /\ Len(sent') <= MaxPackets
    BY <2>1, <1>1, <1>5 DEF SentGood
  <2> QED
    BY <2>2, <1>1, <1>2, <1>4, <1>5 DEF TypeOK
<1>7. TcpGood'
  BY <1>1, LaterOrdered DEF TcpGood
<1>8. UdpGood'
  <2>1. ASSUME NEW i \in DOMAIN udp'
        PROVE  /\ Ordered(udp'[i].items, t) /\ KeptOf(udp'[i])
               /\ \A p \in PacketsIn(udp'[i]) :
                     p \in 1 .. Len(sent') /\ Identifier(sent'[p]) = i
    <3>1. CASE i = id
      <4>1. \A p \in PacketsBefore(id) : p \in 1 .. Len(sent) /\ Identifier(sent[p]) = id
        BY <1>1 DEF UdpGood, PacketsBefore
      <4>2. \A p \in added : Identifier(sent'[p]) = id
        BY <1>5 DEF id
      <4> QED
        BY <3>1, <4>1, <4>2, <1>2, <1>4, <1>5
    <3>2. CASE i # id
      <4>1. i \in DOMAIN udp /\ udp'[i] = udp[i]
        BY <3>2, <1>2
      <4>2. /\ Ordered(udp[i].items, clock) /\ KeptOf(udp[i])
            /\ \A p \in PacketsIn(udp[i]) : p \in 1 .. Len(sent) /\ Identifier(sent[p]) = i
        BY <4>1, <1>1 DEF UdpGood
      <4>3. Ordered(udp[i].items, t)
        BY <4>2, <1>1, LaterOrdered
      <4> QED
        BY <4>1, <4>2, <4>3, <1>5
    <3> QED
      BY <3>1, <3>2
  <2> QED
    BY <2>1, <1>1 DEF UdpGood
<1>9. FlowsGood'
  BY <1>1 DEF FlowsGood
<1>10. PacketsOnce'
  <2> DEFINE Open == UNION {PacketsIn(udp[i]) : i \in DOMAIN udp}
             Closed == UNION {PacketsIn(f) : f \in UdpFlows}
  <2>1. UdpFlows' = UdpFlows
    BY <1>1 DEF UdpFlows
  <2>2. Open' = Open \cup added
    <3>1. ASSUME NEW p \in Open' PROVE p \in Open \cup added
      <4>1. PICK i \in DOMAIN udp' : p \in PacketsIn(udp'[i])
        BY <3>1 DEF PacketsIn
      <4> QED
        BY <4>1, <1>2, <1>4 DEF PacketsBefore
    <3>2. ASSUME NEW p \in Open PROVE p \in Open'
      <4>1. PICK i \in DOMAIN udp : p \in PacketsIn(udp[i])
        BY <3>2
      <4>2. p \in PacketsIn(udp'[i]) /\ i \in DOMAIN udp'
        BY <4>1, <1>2, <1>4 DEF PacketsBefore
      <4> QED
        BY <4>2 DEF PacketsIn
    <3>3. ASSUME NEW p \in added PROVE p \in Open'
      <4>1. p \in PacketsIn(udp'[id]) /\ id \in DOMAIN udp'
        BY <1>2, <1>4
      <4> QED
        BY <4>1 DEF PacketsIn
    <3> QED
      BY <3>1, <3>2, <3>3
  <2>3. Closed' = Closed
    BY <2>1 DEF PacketsIn
  <2>4. 1 .. Len(sent) = Open \cup Closed
    BY <1>1 DEF PacketsOnce
  <2>5. 1 .. Len(sent') = Open' \cup Closed'
    BY <2>2, <2>3, <2>4, <1>5
  <2>6. ASSUME NEW i \in DOMAIN udp', NEW f \in UdpFlows
        PROVE  PacketsIn(udp'[i]) \cap PacketsIn(f) = {}
    <3>1. PacketsIn(f) \subseteq 1 .. Len(sent)
      BY <2>4
    <3>2. i \in DOMAIN udp => PacketsIn(udp[i]) \cap PacketsIn(f) = {}
      BY <1>1 DEF PacketsOnce
    <3>3. CASE i = id
      BY <3>1, <3>2, <3>3, <1>2, <1>4, <1>5 DEF PacketsBefore
    <3>4. CASE i # id
      BY <3>2, <3>4, <1>2
    <3> QED
      BY <3>3, <3>4
  <2>7. \A f, g \in UdpFlows : f # g => PacketsIn(f) \cap PacketsIn(g) = {}
    BY <1>1 DEF PacketsOnce
  <2> HIDE DEF Open, Closed
  <2>8. /\ \A i \in DOMAIN udp' : \A f \in UdpFlows' : PacketsIn(udp'[i]) \cap PacketsIn(f) = {}
        /\ \A f, g \in UdpFlows' : f # g => PacketsIn(f) \cap PacketsIn(g) = {}
    BY <2>1, <2>6, <2>7
  <2> QED
    BY <2>5, <2>8 DEF PacketsOnce, Open, Closed
<1> QED
  BY <1>6, <1>7, <1>8, <1>9, <1>10 DEF IInv

LEMMA CompleteOlderThanStep ==
  ASSUME IInv, NEW threshold \in 0 .. MaxTime + 1, CompleteOlderThan(threshold)
  PROVE  IInv'
<1> DEFINE old == {id \in DOMAIN udp : udp[id].lastSeen < threshold}
           ended == {id \in old : udp[id].items # <<>>}
           E(id) == Entry("udp", id, udp[id])
<1>1. /\ TypeOK /\ SentGood /\ TcpGood /\ UdpGood /\ FlowsGood /\ PacketsOnce
      /\ UNCHANGED <<arrived, clock, sent, tcp, completed>>
      /\ clock \in Times
  BY DEF IInv, TypeOK, CompleteOlderThan
<1>2. /\ DOMAIN udp' = DOMAIN udp \ old
      /\ \A id \in DOMAIN udp \ old : udp'[id] = udp[id]
      /\ flows' = flows \cup {E(id) : id \in ended}
      /\ ended \subseteq old /\ old \subseteq DOMAIN udp
      /\ \A id \in old \ ended : udp[id].items = <<>>
  BY DEF CompleteOlderThan
<1> HIDE DEF old, ended
<1>3. ASSUME NEW id \in ended
      PROVE  /\ E(id) \in FlowEntry /\ E(id).proto = "udp" /\ E(id).items = udp[id].items
             /\ Len(E(id).items) > 0 /\ Ordered(E(id).items, MaxTime) /\ KeptOf(E(id))
             /\ E(id).time = E(id).items[1].time
             /\ E(id).duration = E(id).items[Len(E(id).items)].time - E(id).items[1].time
  <2> DEFINE s == udp[id]
             f == E(id)
  <2>1. /\ id \in Identifiers /\ s \in UdpStream /\ s.items # <<>>
        /\ Ordered(s.items, clock) /\ KeptOf(s)
    BY <1>1, <1>2, <1>3 DEF TypeOK, UdpGood, ended
  <2>2. /\ s.items \in Seq(UdpItem) /\ s.kept \in Nat /\ s.size \in Nat /\ s.packets \in Nat
    BY <2>1 DEF UdpStream, UdpItem
  <2>3. /\ f.proto = "udp" /\ f.items = s.items /\ f.kept = s.kept /\ f.size = s.size
        /\ f = [proto |-> "udp", key |-> id, items |-> s.items, kept |-> s.kept,
                size |-> s.size, packets |-> s.packets, time |-> f.time,
                duration |-> f.duration]
    BY DEF Entry
  <2>4. /\ Len(f.items) > 0
        /\ Ordered(f.items, MaxTime)
        /\ f.time = f.items[1].time /\ f.time \in Times
        /\ f.duration = f.items[Len(f.items)].time - f.items[1].time
        /\ f.duration \in 0 .. MaxTime
    BY <1>1, <2>1, <2>2, EntryGood
  <2> HIDE DEF f
  <2>5. f \in FlowEntry
    BY <2>1, <2>2, <2>3, <2>4 DEF FlowEntry, UdpItem
  <2>6. KeptOf(f)
    BY <2>1, <2>3 DEF KeptOf
  <2> QED
    BY <2>3, <2>4, <2>5, <2>6 DEF f
<1> HIDE DEF E
<1>4. TypeOK' /\ SentGood'
  BY <1>1, <1>2, <1>3 DEF TypeOK, SentGood
<1>5. TcpGood' /\ UdpGood'
  BY <1>1, <1>2 DEF TcpGood, UdpGood
<1>6. FlowsGood'
  <2>1. ASSUME NEW f \in flows'
        PROVE  /\ Len(f.items) > 0 /\ Ordered(f.items, MaxTime) /\ KeptOf(f)
               /\ f.time = f.items[1].time
               /\ f.duration = f.items[Len(f.items)].time - f.items[1].time
               /\ f.proto = "tcp" => f.kept <= Limit /\ Alternate(f.items)
    <3>1. CASE f \in flows
      BY <3>1, <1>1 DEF FlowsGood
    <3>2. CASE f \notin flows
      BY <3>2, <1>2, <1>3
    <3> QED
      BY <3>1, <3>2
  <2> QED
    BY <2>1 DEF FlowsGood
<1>7. PacketsOnce'
  <2> DEFINE Open == UNION {PacketsIn(udp[i]) : i \in DOMAIN udp}
             Closed == UNION {PacketsIn(f) : f \in UdpFlows}
  <2>1. UdpFlows' = UdpFlows \cup {E(id) : id \in ended}
    BY <1>2, <1>3 DEF UdpFlows
  <2>2. \A id \in ended : PacketsIn(E(id)) = PacketsIn(udp[id])
    BY <1>3 DEF PacketsIn
  <2>3. \A id \in old \ ended : PacketsIn(udp[id]) = {}
    BY <1>2 DEF PacketsIn
  <2>4. /\ 1 .. Len(sent) = Open \cup Closed
        /\ \A i \in DOMAIN udp : \A f \in UdpFlows : PacketsIn(udp[i]) \cap PacketsIn(f) = {}
        /\ \A f, g \in UdpFlows : f # g => PacketsIn(f) \cap PacketsIn(g) = {}
    BY <1>1 DEF PacketsOnce
  <2>5. \A i, j \in DOMAIN udp : i # j => PacketsIn(udp[i]) \cap PacketsIn(udp[j]) = {}
    BY <1>1 DEF UdpGood
  <2>6. (1 .. Len(sent))' = Open' \cup Closed'
    <3>1. ASSUME NEW p \in Open \cup Closed PROVE p \in Open' \cup Closed'
      <4>1. CASE p \in Closed
        <5>1. PICK f \in UdpFlows' : p \in PacketsIn(f)
          BY <4>1, <2>1
        <5> QED
          BY <5>1 DEF PacketsIn
      <4>2. CASE \E i \in DOMAIN udp \ old : p \in PacketsIn(udp[i])
        <5>1. PICK i \in DOMAIN udp' : p \in PacketsIn(udp'[i])
          BY <4>2, <1>2
        <5> QED
          BY <5>1 DEF PacketsIn
      <4>3. CASE \E i \in old : p \in PacketsIn(udp[i])
        <5>1. PICK f \in UdpFlows' : p \in PacketsIn(f)
          BY <4>3, <2>1, <2>2, <2>3
        <5> QED
          BY <5>1 DEF PacketsIn
      <4> QED
        BY <4>1, <4>2, <4>3, <3>1
    <3>2. ASSUME NEW p \in Open' \cup Closed' PROVE p \in Open \cup Closed
      <4>1. CASE p \in Open'
        <5>1. PICK i \in DOMAIN udp' : p \in PacketsIn(udp'[i])
          BY <4>1 DEF PacketsIn
        <5> QED
          BY <5>1, <1>2
      <4>2. CASE p \in Closed'
        <5>1. PICK f \in UdpFlows' : p \in PacketsIn(f)
          BY <4>2 DEF PacketsIn
        <5> QED
          BY <5>1, <2>1, <2>2, <1>2
      <4> QED
        BY <4>1, <4>2, <3>2
    <3>3. (1 .. Len(sent))' = 1 .. Len(sent)
      BY <1>1
    <3> HIDE DEF Open, Closed
    <3> QED
      BY <3>1, <3>2, <3>3, <2>4
  <2>7. ASSUME NEW i \in DOMAIN udp', NEW f \in UdpFlows'
        PROVE  PacketsIn(udp'[i]) \cap PacketsIn(f) = {}
    BY <1>2, <2>1, <2>2, <2>4, <2>5
  <2>8. ASSUME NEW f \in UdpFlows', NEW g \in UdpFlows', f # g
        PROVE  PacketsIn(f) \cap PacketsIn(g) = {}
    BY <1>2, <2>1, <2>2, <2>4, <2>5, <2>8
  <2> HIDE DEF Open, Closed
  <2> QED
    BY <2>6, <2>7, <2>8 DEF PacketsOnce, Open, Closed
<1> QED
  BY <1>4, <1>5, <1>6, <1>7 DEF IInv

LEMMA Stutter ==
  ASSUME IInv, UNCHANGED vars
  PROVE  IInv'
<1>1. /\ TypeOK /\ SentGood /\ TcpGood /\ UdpGood /\ FlowsGood /\ PacketsOnce
      /\ UNCHANGED <<arrived, clock, sent, tcp, completed, udp, flows>>
  BY DEF IInv, vars
<1>2. TypeOK' /\ SentGood' /\ FlowsGood'
  BY <1>1 DEF TypeOK, SentGood, FlowsGood
<1>3. TcpGood' /\ UdpGood'
  BY <1>1 DEF TcpGood, UdpGood, PacketsIn
<1>4. PacketsOnce'
  BY <1>1, UdpUntouched DEF UdpFlows
<1> QED
  BY <1>2, <1>3, <1>4 DEF IInv

LEMMA Inductive == IInv /\ [Next]_vars => IInv'
<1> SUFFICES ASSUME IInv, [Next]_vars PROVE IInv'
  OBVIOUS
<1>1. CASE \E t \in Times, length \in Lengths, c \in Connections, from \in Directions :
              Reassembled(c, from, length, t)
  BY <1>1, ReassembledStep
<1>2. CASE \E t \in Times, length \in Lengths, h \in Headers : Assemble(h, length, t)
  BY <1>2, AssembleStep
<1>3. CASE \E c \in Connections : ReassemblyComplete(c)
  BY <1>3, ReassemblyCompleteStep
<1>4. CASE \E threshold \in 0 .. MaxTime + 1 : CompleteOlderThan(threshold)
  BY <1>4, CompleteOlderThanStep
<1>5. CASE UNCHANGED vars
  BY <1>5, Stutter
<1> QED
  BY <1>1, <1>2, <1>3, <1>4, <1>5 DEF Next

LEMMA Invariant == Spec => []IInv
<1> QED
  BY InitGood, Inductive, PTL DEF Spec

--------------------------------------------------------------------------------
(* The theorems. *)

\* Streams, datagrams and flow entries have their types (tcp.go:69, udp.go:86).
THEOREM TypeCorrectness == Spec => []TypeOK
<1>1. IInv => TypeOK
  BY DEF IInv
<1> QED
  BY <1>1, Invariant, PTL

\* The items of a TCP stream stay under the limit, however the bytes come in chunks
\* (tcp.go:117-126).
THEOREM TcpStaysUnderLimit == Spec => []TcpUnderLimit
<1>1. IInv => TcpUnderLimit
  BY DEF IInv, TcpGood, FlowsGood, TcpUnderLimit
<1> QED
  BY <1>1, Invariant, PTL

\* A stream, of either protocol, of at most half the limit keeps every byte
\* (tcp.go:118-125, udp.go:111-120).
THEOREM SmallStreamsAreWhole == Spec => []HalfLimitIsKept
<1>1. IInv => HalfLimitIsKept
  BY DEF IInv, TcpGood, UdpGood, FlowsGood, KeptOf, HalfLimitIsKept, Collected
<1> QED
  BY <1>1, Invariant, PTL

\* The two sides of the limit.
THEOREM LimitCutsFairly == Spec => []LimitIsFair
  BY TcpStaysUnderLimit, SmallStreamsAreWhole, PTL DEF LimitIsFair

\* Items of a TCP flow that follow each other come from different sides (tcp.go:135-143).
THEOREM SidesTakeTurns == Spec => []TurnsAlternate
<1>1. IInv => TurnsAlternate
  BY DEF IInv, FlowsGood, Alternate, TurnsAlternate
<1> QED
  BY <1>1, Invariant, PTL

\* No item of a flow is outside of the microseconds that its row names, whatever the unit
\* of the capture's times (db.go:388-390).
THEOREM ItemsAreShown == Spec => []EveryItemShown
<1>1. ASSUME IInv, NEW f \in flows, NEW i \in DOMAIN f.items
      PROVE  /\ Micro(f.time) <= Micro(f.items[i].time)
             /\ Micro(f.items[i].time) <= Micro(f.time) + StoredDuration(f.duration)
  <2> DEFINE n == Len(f.items)
             first == f.items[1].time
             item == f.items[i].time
             last == f.items[n].time
  <2>1. /\ n > 0 /\ Ordered(f.items, MaxTime) /\ f.time = first
        /\ f.duration = last - first
    BY <1>1 DEF IInv, FlowsGood
  <2>2. n \in Nat /\ DOMAIN f.items = 1 .. n
    <3>1. f.items \in Seq(TcpItem) \/ f.items \in Seq(UdpItem)
      BY <1>1 DEF IInv, TypeOK, FlowEntry, TcpItem, UdpItem
    <3> QED
      BY <3>1
  <2>3. first \in Nat /\ item \in Nat /\ last \in Nat /\ first <= item /\ item <= last
    <3>1. 1 \in DOMAIN f.items /\ n \in DOMAIN f.items /\ i \in 1 .. n /\ 1 <= i /\ i <= n
      BY <1>1, <2>1, <2>2
    <3>2. first \in Times /\ item \in Times /\ last \in Times
      BY <1>1, <2>1, <3>1 DEF Ordered
    <3>3. first <= item /\ item <= last
      BY <1>1, <2>1, <3>1 DEF Ordered
    <3> QED
      BY <3>2, <3>3, StreamsAssumption DEF Times
  <2> HIDE DEF first, item, last
  <2>4. Micro(first) <= Micro(item)
    BY <2>3, MicroMonotonic
  <2>5. /\ Micro(item) <= Micro(last)
        /\ Micro(last) <= Micro(first) + StoredDuration(last - first)
    BY <2>3, MicroMonotonic, DurationReaches
  <2>6. /\ Micro(item) \in Int /\ Micro(last) \in Int /\ Micro(first) \in Int
        /\ StoredDuration(last - first) \in Int
    BY <2>3, MicroMonotonic, StreamsAssumption DEF StoredDuration
  <2>7. Micro(item) <= Micro(first) + StoredDuration(last - first)
    BY <2>5, <2>6
  <2> QED
    BY <2>1, <2>4, <2>7 DEF first, item, last
<1>2. IInv => EveryItemShown
  BY <1>1 DEF EveryItemShown
<1> QED
  BY <1>2, Invariant, PTL

\* A datagram is in one stream or one flow, however often streams are completed and begun
\* again (udp.go:46-57, 66-73).
THEOREM DatagramsAreOnce == Spec => []PacketsOnce
<1>1. IInv => PacketsOnce
  BY DEF IInv
<1> QED
  BY <1>1, Invariant, PTL

\* The identifier is the same for both directions of a conversation, so an open stream has
\* the conversation for itself (udp.go:30-44).
THEOREM ConversationsAreWhole == Spec => []ConversationWhole
<1>1. \A h : Identifier(Reply(h)) = Identifier(h)
  BY DEF Identifier, Reply
<1>2. IInv => ConversationWhole
  BY <1>1 DEF IInv, UdpGood, ConversationWhole
<1> QED
  BY <1>2, Invariant, PTL

\* Neither a datagram nor a conversation is torn by a flush.
THEOREM ConversationsStayTogether == Spec => []ConversationsHoldTogether
  BY DatagramsAreOnce, ConversationsAreWhole, PTL DEF ConversationsHoldTogether
================================================================================
