---------------------------- MODULE ConvertersProofs ----------------------------
(***************************************************************************)
(* Proofs about Converters for any streams, any number of them and of      *)
(* replaced processes.                                                     *)
(***************************************************************************)
EXTENDS Converters, SequenceTheorems, TLAPS

OutChunk == [from : Sides, how : {"same", "error", "frames", "h2", "grpc", "notGrpc", "decoded", "raw"}]
Event == [from : Sides, how : {"same", "h2", "grpc", "notGrpc"}]

\* Some frame of the server announces gRPC.
ServerAnnounced ==
    \E j \in 1..Len(stream) : /\ stream[j].from = "s"
                              /\ \E n \in 1..Len(stream[j].h2) : stream[j].h2[n].ctype = "grpc"

\* One of the first n chunks of the stream is of this kind.
Is(i, side, kind, protocol, ok) ==
    /\ stream[i].from = side /\ stream[i].http = kind
    /\ protocol = "any" \/ stream[i].up = protocol
    /\ ok => stream[i].valid = "good"
Had(n, side, kind, protocol, ok) ==
    \E i \in 1..n : i <= Len(stream) /\ Is(i, side, kind, protocol, ok)
Granted(n, protocol, ok) ==
    \E i \in 1..n : \E j \in 1..n :
        /\ i < j /\ j <= Len(stream)
        /\ Is(i, "c", "request", protocol, ok) /\ Is(j, "s", "response", protocol, ok)

\* Chunks that are shown as gRPC, or as failed gRPC, are excused.
NoForeignGrpc(res) ==
    \A i \in 1..Len(res) : res[i].from = "s" /\ res[i].how \in {"grpc", "notGrpc"} => ServerAnnounced

\* What the attributes p may be for the class, in any state.
ClassInv(p) ==
    /\ p \in Attributes
    /\ class \notin Http2 => ~p.h2_active /\ p.buffer = "none"
    /\ class # "websocket" => ~p.key /\ ~p.switched
    /\ class # "grpc" => p.grpc = {} /\ ~p.responded

\* What the attributes p say of the first n chunks of the stream in hand.
Meaning(p, n) ==
    /\ p.key => Had(n - 1, "c", "request", "websocket", TRUE)
    /\ p.switched => Granted(n, "websocket", TRUE)
    /\ p.buffer # "none" => \/ Had(n, "c", "preface", "any", FALSE)
                            \/ Had(n - 1, "c", "request", "h2c", FALSE)
    /\ p.h2_active => Had(n, "c", "preface", "any", FALSE) \/ Granted(n, "h2c", FALSE)
    /\ (\E id \in StreamIds : <<id, "s">> \in p.grpc) \/ p.responded => ServerAnnounced

\* A buffer that is past the client's preface has met one in the first n chunks.
Opened(p, n) == p.buffer = "ready" => Had(n, "c", "preface", "any", FALSE)

\* The frame came with chunk j, or is what became of a preface in it.
CameWith(f, j) == \/ \E n \in 1..Len(stream[j].h2) : f = stream[j].h2[n]
                  \/ f = NoFrame /\ Misplaced(j)

\* The frame came with one of the first n chunks, and with one of this side.
CameFrom(n, side, f) == \E j \in 1..n : j <= Len(stream) /\ stream[j].from = side /\ CameWith(f, j)
FromStream(n, side, frames) == \A k \in 1..Len(frames) : CameFrom(n, side, frames[k])

\* The websocket frames that are left are frames of the chunk in hand.
FromChunk(frames) == \A k \in 1..Len(frames) : \E n \in 1..Len(chunk.ws) : frames[k] = chunk.ws[n]

PlaceInv ==
    /\ pc = "read" => /\ stream = << >> /\ pos = 0 /\ out = << >> /\ events = << >>
                      /\ \A s \in Sides : backlog[s] = << >>
    /\ pc = "chunk" => pos \in 1..Len(stream) + 1
    /\ pc \in {"ws", "h2", "failed"} => pos \in 1..Len(stream)
    /\ pc = "ws" => py.switched /\ FromChunk(todo)
    /\ pc = "h2" => py.h2_active

ShownInv == /\ NoForeignGrpc(out) /\ NoForeignGrpc(events)
            /\ \A s \in Sides : FromStream(pos, s, backlog[s])

ConvInv == /\ TypeOK /\ PlaceInv /\ ShownInv
           /\ ClassInv(py)
           /\ pc # "read" => Meaning(py, pos) /\ Opened(py, IF pc = "chunk" THEN pos - 1 ELSE pos)
--------------------------------------------------------------------------------
(* Facts about sequences and records. *)

LEMMA NewObjectInv == ClassInv(NewObject)
  BY DEF ClassInv, NewObject, Attributes

LEMMA SeqWider ==
  ASSUME NEW A, NEW B, A \subseteq B, NEW s \in Seq(A)
  PROVE  s \in Seq(B)
<1>1. s \in [1..Len(s) -> B] /\ Len(s) \in Nat
  BY LenProperties
<1> QED
  BY <1>1, SeqDef

LEMMA ChunkInHand ==
  ASSUME TypeOK, pos \in 1..Len(stream)
  PROVE  /\ chunk \in Chunk /\ chunk = stream[pos] /\ chunk.from \in Sides
         /\ chunk.ws \in Seq(WsFrame) /\ chunk.h2 \in Seq(H2Frame)
<1>1. stream[pos] \in Chunk
  BY ElementOfSeq DEF TypeOK
<1> QED
  BY <1>1 DEF chunk, Chunk

\* What was had stays had.
LEMMA MeaningGrows ==
  ASSUME NEW p, NEW n \in Nat, NEW m \in Nat, n <= m, Meaning(p, n)
  PROVE  Meaning(p, m)
<1>1. \A side, kind, protocol, ok :
        /\ Had(n, side, kind, protocol, ok) => Had(m, side, kind, protocol, ok)
        /\ Had(n - 1, side, kind, protocol, ok) => Had(m - 1, side, kind, protocol, ok)
  BY DEF Had
<1>2. \A protocol, ok : Granted(n, protocol, ok) => Granted(m, protocol, ok)
  BY DEF Granted
<1> QED
  BY <1>1, <1>2 DEF Meaning

LEMMA MeaningNext ==
  ASSUME NEW p, pos \in Nat, Meaning(p, pos)
  PROVE  Meaning(p, pos + 1)
<1>1. pos + 1 \in Nat /\ pos <= pos + 1
  OBVIOUS
<1> QED
  BY <1>1, MeaningGrows

\* In all the states of a chunk the preface is among the chunks up to it.
LEMMA OpenedHere ==
  ASSUME ConvInv, pos \in 1..Len(stream), pc # "read"
  PROVE  Opened(py, pos)
<1>1. CASE pc = "chunk"
  <2>1. 1..pos - 1 \subseteq 1..pos
    BY DEF ConvInv, TypeOK
  <2> QED
    BY <1>1, <2>1 DEF ConvInv, Opened, Had
<1> QED
  BY <1>1 DEF ConvInv

\* Frames of the first pos chunks are among those of the first pos + 1.
LEMMA FromStreamNext ==
  ASSUME NEW side, NEW frames, pos \in Nat, FromStream(pos, side, frames)
  PROVE  FromStream(pos + 1, side, frames)
<1>1. 1..pos \subseteq 1..pos + 1
  OBVIOUS
<1> QED
  BY <1>1 DEF FromStream, CameFrom

\* The same said of the state after a step that keeps the stream.
LEMMA SameStream ==
  ASSUME stream' = stream
  PROVE  /\ ServerAnnounced' <=> ServerAnnounced
         /\ \A n, side, kind, protocol, ok :
              Had(n, side, kind, protocol, ok)' <=> Had(n, side, kind, protocol, ok)
         /\ \A n, protocol, ok : Granted(n, protocol, ok)' <=> Granted(n, protocol, ok)
         /\ \A res : NoForeignGrpc(res)' <=> NoForeignGrpc(res)
         /\ \A n, side, frames : FromStream(n, side, frames)' <=> FromStream(n, side, frames)
  BY DEF ServerAnnounced, Had, Is, Granted, NoForeignGrpc, FromStream, CameFrom, CameWith, Misplaced

LEMMA ShownTogether ==
  ASSUME NEW A, NEW B, A \in Seq(OutChunk), B \in Seq(OutChunk),
         NoForeignGrpc(A), NoForeignGrpc(B)
  PROVE  A \o B \in Seq(OutChunk) /\ NoForeignGrpc(A \o B)
<1>1. /\ A \o B \in Seq(OutChunk) /\ Len(A \o B) = Len(A) + Len(B)
      /\ Len(A) \in Nat /\ Len(B) \in Nat
      /\ \A i \in 1..Len(A) + Len(B) : (A \o B)[i] = IF i <= Len(A) THEN A[i] ELSE B[i - Len(A)]
  BY ConcatProperties, LenProperties
<1>2. \A i \in 1..Len(A) + Len(B) : i <= Len(A) => i \in 1..Len(A)
  BY <1>1
<1>3. \A i \in 1..Len(A) + Len(B) : ~(i <= Len(A)) => i - Len(A) \in 1..Len(B)
  BY <1>1
<1> QED
  BY <1>1, <1>2, <1>3 DEF NoForeignGrpc

LEMMA FromStreamTogether ==
  ASSUME NEW n, NEW side, NEW a, NEW b, a \in Seq(H2Frame), b \in Seq(H2Frame),
         FromStream(n, side, a), FromStream(n, side, b)
  PROVE  a \o b \in Seq(H2Frame) /\ FromStream(n, side, a \o b)
<1>1. /\ a \o b \in Seq(H2Frame) /\ Len(a \o b) = Len(a) + Len(b)
      /\ Len(a) \in Nat /\ Len(b) \in Nat
      /\ \A i \in 1..Len(a) + Len(b) : (a \o b)[i] = IF i <= Len(a) THEN a[i] ELSE b[i - Len(a)]
  BY ConcatProperties, LenProperties
<1>2. \A i \in 1..Len(a) + Len(b) : i <= Len(a) => i \in 1..Len(a)
  BY <1>1
<1>3. \A i \in 1..Len(a) + Len(b) : ~(i <= Len(a)) => i - Len(a) \in 1..Len(b)
  BY <1>1
<1> QED
  BY <1>1, <1>2, <1>3 DEF FromStream

LEMMA NoFrameIsAFrame == NoFrame \in H2Frame
<1>1. (CHOOSE id \in StreamIds : TRUE) \in StreamIds
  BY ConvertersAssumption
<1> QED
  BY <1>1 DEF NoFrame, H2Frame

\* What a chunk adds came with it, as its frames or as a preface that is out of place.
LEMMA FramesOfChunk ==
  ASSUME TypeOK, pos \in 1..Len(stream), Opened(py, pos - 1)
  PROVE  /\ chunk.h2 \in Seq(H2Frame) /\ FromStream(pos, chunk.from, chunk.h2)
         /\ Frames \in Seq(H2Frame) /\ FromStream(pos, chunk.from, Frames)
<1>1. /\ chunk.h2 \in Seq(H2Frame) /\ chunk = stream[pos]
      /\ pos \in 1..pos /\ pos <= Len(stream) /\ Len(stream) \in Nat
  BY ChunkInHand, LenProperties DEF TypeOK
<1>2. FromStream(pos, chunk.from, chunk.h2)
  BY <1>1 DEF FromStream, CameFrom, CameWith
<1>3. CASE Frames = chunk.h2
  BY <1>1, <1>2, <1>3
<1>4. CASE /\ chunk.http = "preface" /\ (chunk.from = "s" \/ py.buffer = "ready")
           /\ Frames = <<NoFrame>> \o chunk.h2
  <2>1. Misplaced(pos)
    <3>1. CASE chunk.from = "s"
      BY <1>1, <1>4, <3>1 DEF Misplaced
    <3>2. CASE py.buffer = "ready"
      BY <1>1, <1>4, <3>2 DEF Misplaced, Opened, Had, Is
    <3> QED
      BY <1>4, <3>1, <3>2
  <2>2. CameFrom(pos, chunk.from, NoFrame)
    BY <1>1, <2>1 DEF CameFrom, CameWith
  <2>3. <<NoFrame>> \in Seq(H2Frame) /\ FromStream(pos, chunk.from, <<NoFrame>>)
    BY <2>2, NoFrameIsAFrame DEF FromStream
  <2> QED
    BY <1>1, <1>2, <1>4, <2>3, FromStreamTogether
<1> QED
  BY <1>3, <1>4 DEF Frames

\* The frames of a chunk are added to its side's buffer.
LEMMA FramesAdded ==
  ASSUME TypeOK, pos \in 1..Len(stream), \A s \in Sides : FromStream(pos, s, backlog[s]),
         NEW frames, frames \in Seq(H2Frame), FromStream(pos, chunk.from, frames)
  PROVE  /\ Buffered(frames) \in [Sides -> Seq(H2Frame)]
         /\ \A s \in Sides : FromStream(pos, s, Buffered(frames)[s])
<1>1. chunk.from \in Sides /\ backlog \in [Sides -> Seq(H2Frame)]
  BY ChunkInHand DEF TypeOK
<1>2. PICK more : more = backlog[chunk.from] \o frames
  OBVIOUS
<1>3. more \in Seq(H2Frame) /\ FromStream(pos, chunk.from, more)
  BY <1>1, <1>2, FromStreamTogether
<1> QED
  BY <1>1, <1>2, <1>3 DEF Buffered

--------------------------------------------------------------------------------
(* Steps: what they share. *)

LEMMA InitConv == Init => ConvInv
<1> SUFFICES ASSUME Init PROVE ConvInv
  OBVIOUS
<1>0. stream = << >> /\ Len(stream) = 0 /\ pos = 0 /\ todo = << >> /\ events = << >> /\ out = << >>
  BY DEF Init
<1>1. TypeOK
  <2>1. stream \in Seq(Chunk) /\ pos \in 0..Len(stream) + 1
    BY <1>0
  <2>2. todo \in Seq(WsFrame) /\ backlog \in [Sides -> Seq(H2Frame)]
    BY <1>0 DEF Init
  <2>3. /\ events \in Seq([from : Sides, how : {"same", "h2", "grpc", "notGrpc"}])
        /\ out \in Seq([from : Sides, how : {"same", "error", "frames", "h2", "grpc",
                                                      "notGrpc", "decoded", "raw"}])
    BY <1>0
  <2>4. py \in Attributes
    BY NewObjectInv DEF Init, ClassInv
  <2>5. streams \in 0..MaxStreams /\ kills \in 0..MaxKills
    BY ConvertersAssumption DEF Init
  <2>6. /\ class \in Classes /\ pc \in {"read", "chunk", "ws", "h2", "failed"}
        /\ answer \in {"none", "unchanged", "shown", "failed"} /\ swapped \in BOOLEAN
    BY DEF Init
  <2> QED
    BY <2>1, <2>2, <2>3, <2>4, <2>5, <2>6 DEF TypeOK
<1>2. PlaceInv /\ ShownInv
  BY <1>0 DEF Init, PlaceInv, ShownInv, NoForeignGrpc, FromStream
<1> QED
  BY <1>1, <1>2, NewObjectInv DEF Init, ConvInv

\* A step that ends the chunk in hand keeps the invariant when what it shows is sound and
\* what it leaves in the attributes and the buffers is.
LEMMA FinishKeeps ==
  ASSUME ConvInv, pos \in 1..Len(stream), NEW res, Finish(res), UNCHANGED fixed,
         res \in Seq(OutChunk), NoForeignGrpc(res),
         ClassInv(py'), Meaning(py', pos + 1), Opened(py', pos),
         backlog' \in [Sides -> Seq(H2Frame)], \A s \in Sides : FromStream(pos, s, backlog'[s])
  PROVE  ConvInv'
<1>1. /\ out' = out \o res /\ pos' = pos + 1 /\ todo' = << >> /\ events' = << >> /\ pc' = "chunk"
      /\ class' = class /\ stream' = stream /\ swapped' = swapped /\ answer' = answer
      /\ streams' = streams /\ kills' = kills
  BY DEF Finish, fixed
<1>2. out \in Seq(OutChunk) /\ NoForeignGrpc(out)
  BY DEF ConvInv, TypeOK, ShownInv, OutChunk
<1>3. out' \in Seq(OutChunk) /\ NoForeignGrpc(out')
  BY <1>1, <1>2, ShownTogether
<1>4. TypeOK'
  <2>1. << >> \in Seq(WsFrame) /\ << >> \in Seq(Event)
    BY EmptySeq
  <2>2. pos' \in 0..Len(stream) + 1
    BY <1>1 DEF ConvInv, TypeOK
  <2>3. py' \in Attributes
    BY DEF ClassInv
  <2> QED
    BY <1>1, <1>3, <2>1, <2>2, <2>3 DEF ConvInv, TypeOK, OutChunk, Event
<1>5. PlaceInv'
  BY <1>1 DEF ConvInv, TypeOK, PlaceInv
<1>6. NoForeignGrpc(<< >>)
  BY DEF NoForeignGrpc
<1>7. ShownInv'
  <2>1. \A s \in Sides : FromStream(pos + 1, s, backlog'[s])
    BY FromStreamNext DEF ConvInv, TypeOK
  <2> QED
    BY <1>1, <1>3, <1>6, <2>1, SameStream DEF ShownInv
<1>8. ClassInv(py)' /\ Meaning(py, pos)'
  BY <1>1, SameStream DEF ClassInv, Meaning
<1>9. Opened(py, pos - 1)'
  <2>1. (pos + 1) - 1 = pos
    BY DEF ConvInv, TypeOK
  <2> QED
    BY <1>1, <2>1, SameStream DEF Opened
<1> QED
  BY <1>1, <1>4, <1>5, <1>7, <1>8, <1>9 DEF ConvInv

\* A step within the chunk in hand.
LEMMA WithinKeeps ==
  ASSUME ConvInv, pos \in 1..Len(stream), UNCHANGED <<fixed, pos, out>>,
         pc' \in {"ws", "h2", "failed"},
         todo' \in Seq(WsFrame), events' \in Seq(Event), NoForeignGrpc(events'),
         ClassInv(py'), Meaning(py', pos), Opened(py', pos),
         pc' = "ws" => py'.switched /\ FromChunk(todo'),
         pc' = "h2" => py'.h2_active,
         backlog' \in [Sides -> Seq(H2Frame)], \A s \in Sides : FromStream(pos, s, backlog'[s])
  PROVE  ConvInv'
<1>1. /\ class' = class /\ stream' = stream /\ swapped' = swapped /\ answer' = answer
      /\ streams' = streams /\ kills' = kills /\ pos' = pos /\ out' = out
  BY DEF fixed
<1>2. TypeOK'
  BY <1>1 DEF ConvInv, TypeOK, ClassInv, Event
<1>3. PlaceInv'
  BY <1>1 DEF PlaceInv, FromChunk, chunk
<1>4. ShownInv'
  BY <1>1, SameStream DEF ConvInv, ShownInv
<1>5. ClassInv(py)' /\ Meaning(py, pos)' /\ Opened(py, pos)'
  BY <1>1, SameStream DEF ClassInv, Meaning, Opened
<1> QED
  BY <1>2, <1>3, <1>4, <1>5 DEF ConvInv

\* Between two streams nothing is kept but the attributes.
LEMMA ForgetKeeps ==
  ASSUME ConvInv, Forget, class' = class, ClassInv(py'),
         answer' \in {"none", "unchanged", "shown", "failed"},
         streams' \in 0..MaxStreams, kills' \in 0..MaxKills
  PROVE  ConvInv'
<1>1. /\ pc' = "read" /\ pos' = 0 /\ stream' = << >> /\ swapped' = FALSE /\ todo' = << >>
      /\ backlog' = [s \in Sides |-> << >>] /\ events' = << >> /\ out' = << >>
  BY DEF Forget
<1>3. TypeOK'
  <2>1. stream' \in Seq(Chunk) /\ pos' \in 0..Len(stream') + 1 /\ todo' \in Seq(WsFrame)
    BY <1>1
  <2>2. backlog' \in [Sides -> Seq(H2Frame)] /\ events' \in Seq(Event) /\ out' \in Seq(OutChunk)
    BY <1>1
  <2>3. py' \in Attributes /\ class' \in Classes
    BY DEF ClassInv, ConvInv, TypeOK
  <2> QED
    BY <1>1, <2>1, <2>2, <2>3 DEF TypeOK, Event, OutChunk
<1>4. PlaceInv' /\ ShownInv'
  BY <1>1 DEF PlaceInv, ShownInv, NoForeignGrpc, FromStream
<1>5. ClassInv(py)'
  BY DEF ClassInv
<1> QED
  BY <1>1, <1>3, <1>4, <1>5 DEF ConvInv

\* One chunk that is not shown as gRPC is sound.
LEMMA OneShown ==
  ASSUME TypeOK, pos \in 1..Len(stream),
         NEW how \in {"same", "error", "frames", "h2", "decoded", "raw"}
  PROVE  <<Shown(how)>> \in Seq(OutChunk) /\ NoForeignGrpc(<<Shown(how)>>)
<1>1. chunk.from \in Sides
  BY ChunkInHand
<1>2. Shown(how) \in OutChunk /\ Shown(how).how = how
  BY <1>1 DEF Shown, OutChunk
<1> HIDE DEF Shown
<1>3. <<Shown(how)>> \in Seq(OutChunk)
  BY <1>2
<1> QED
  BY <1>2, <1>3 DEF NoForeignGrpc

\* A step that ends the chunk and leaves attributes and buffers as they were.
LEMMA FinishSame ==
  ASSUME ConvInv, pos \in 1..Len(stream), pc # "read", NEW res, Finish(res),
         UNCHANGED <<fixed, py, backlog>>, res \in Seq(OutChunk), NoForeignGrpc(res)
  PROVE  ConvInv'
<1>1. py' = py /\ backlog' = backlog /\ UNCHANGED fixed
  OBVIOUS
<1>2. Meaning(py, pos + 1)
  BY MeaningGrows DEF ConvInv, TypeOK
<1>3. backlog \in [Sides -> Seq(H2Frame)] /\ \A s \in Sides : FromStream(pos, s, backlog[s])
  BY DEF ConvInv, TypeOK, ShownInv
<1>4. Opened(py, pos)
  BY OpenedHere
<1> QED
  BY <1>1, <1>2, <1>3, <1>4, FinishKeeps DEF ConvInv

--------------------------------------------------------------------------------
(* Each action preserves the invariant. *)

\* Whatever an earlier stream left in the attributes, each class begins as if it were new.
LEMMA ResetIsNew ==
  ASSUME class \in Classes, NEW p, ClassInv(p)
  PROVE  /\ ClassInv(ResetAttributes(p))
         /\ ~ResetAttributes(p).key /\ ~ResetAttributes(p).switched
         /\ ResetAttributes(p).buffer = "none" /\ ~ResetAttributes(p).h2_active
         /\ ResetAttributes(p).grpc = {} /\ ~ResetAttributes(p).responded
<1>1. class \in Http2 => class = "http2" \/ class = "websocket" \/ class = "grpc"
  BY DEF Http2
<1>2. CASE class = "http2"
  BY <1>2 DEF ResetAttributes, Http2Reset, ClassInv, Attributes, Http2
<1>3. CASE class = "websocket"
  BY <1>3 DEF ResetAttributes, Http2Reset, WebsocketReset, ClassInv, Attributes, Http2
<1>4. CASE class = "grpc"
  BY <1>4 DEF ResetAttributes, Http2Reset, GrpcReset, ClassInv, Attributes, Http2
<1>5. CASE class \notin Http2
  BY <1>5 DEF ResetAttributes, ClassInv, Attributes, Http2
<1> QED
  BY <1>1, <1>2, <1>3, <1>4, <1>5

\* A stream is read, with its first two chunks exchanged or as it is.
LEMMA StreamIsRead ==
  ASSUME NEW s \in Streams
  PROVE  /\ s \in Seq(Chunk)
         /\ FromServer(s) => Exchanged(s) \in Seq(Chunk)
<1>1. s \in Seq(Chunk)
  BY ConvertersAssumption
<1>2. ASSUME FromServer(s) PROVE Exchanged(s) \in Seq(Chunk)
  <2>1. Len(s) \in Nat /\ Len(s) > 1
    BY <1>1, <1>2, LenProperties DEF FromServer
  <2>2. s[1] \in Chunk /\ s[2] \in Chunk
    BY <1>1, <2>1, ElementOfSeq
  <2>3. <<s[2], s[1]>> \in Seq(Chunk)
    BY <2>2
  <2>4. SubSeq(s, 3, Len(s)) \in Seq(Chunk)
    <3>1. \A i \in 3..Len(s) : s[i] \in Chunk
      BY <1>1, <2>1, ElementOfSeq
    <3> QED
      BY <1>1, <2>1, <3>1, SubSeqProperties
  <2> QED
    BY <2>3, <2>4, ConcatProperties DEF Exchanged
<1> QED
  BY <1>1, <1>2

LEMMA ReadStreamKeeps ==
  ASSUME ConvInv, ReadStream
  PROVE  ConvInv'
<1>1. PICK s \in Streams : stream' = IF FromServer(s) THEN Exchanged(s) ELSE s
  BY DEF ReadStream
<1>2. /\ pc = "read" /\ streams < MaxStreams /\ streams' = streams + 1 /\ pos' = 1
      /\ pc' = "chunk" /\ answer' = "none" /\ py' = ResetAttributes(py)
      /\ UNCHANGED <<class, todo, backlog, events, out, kills>>
  BY DEF ReadStream
<1>3. swapped' \in BOOLEAN
  BY DEF ReadStream, FromServer
<1>4. stream' \in Seq(Chunk) /\ Len(stream') \in Nat
  BY <1>1, StreamIsRead, LenProperties
<1>5. /\ out = << >> /\ events = << >> /\ \A t \in Sides : backlog[t] = << >>
  BY <1>2 DEF ConvInv, PlaceInv
<1>6. ClassInv(py') /\ ~py'.key /\ ~py'.switched /\ py'.buffer = "none" /\ ~py'.h2_active
      /\ py'.grpc = {} /\ ~py'.responded
  BY <1>2, ResetIsNew DEF ConvInv, TypeOK
<1>7. TypeOK'
  <2>1. pos' \in 0..Len(stream') + 1
    BY <1>2, <1>4
  <2>2. streams' \in 0..MaxStreams
    BY <1>2, ConvertersAssumption DEF ConvInv, TypeOK
  <2> QED
    BY <1>2, <1>3, <1>4, <1>6, <2>1, <2>2 DEF ConvInv, TypeOK, ClassInv
<1>8. PlaceInv' /\ ShownInv'
  BY <1>2, <1>4, <1>5 DEF PlaceInv, ShownInv, NoForeignGrpc, FromStream
<1>9. ClassInv(py)' /\ Meaning(py, pos)' /\ Opened(py, pos - 1)'
  BY <1>2, <1>6 DEF ClassInv, Meaning, Opened
<1> QED
  BY <1>2, <1>7, <1>8, <1>9 DEF ConvInv

LEMMA RawFramesKeeps ==
  ASSUME ConvInv, RawFrames
  PROVE  ConvInv'
<1>1. /\ pc = "chunk" /\ pos \in 1..Len(stream) /\ py.switched
      /\ todo' = chunk.ws /\ pc' = "ws"
      /\ UNCHANGED <<fixed, pos, backlog, events, out, py>>
  BY DEF RawFrames, ConvInv, PlaceInv, TypeOK
<1>2. todo' \in Seq(WsFrame) /\ FromChunk(todo')
  BY <1>1, ChunkInHand DEF ConvInv, FromChunk
<1>3. /\ events \in Seq(Event) /\ NoForeignGrpc(events) /\ ClassInv(py) /\ Meaning(py, pos)
      /\ backlog \in [Sides -> Seq(H2Frame)] /\ \A s \in Sides : FromStream(pos, s, backlog[s])
  BY <1>1 DEF ConvInv, TypeOK, ShownInv, Event
<1>4. Opened(py, pos)
  BY <1>1, OpenedHere
<1> QED
  BY <1>1, <1>2, <1>3, <1>4, WithinKeeps

\* The chunk in hand is one of the first pos.
LEMMA InHandIs ==
  ASSUME pos \in 1..Len(stream), Len(stream) \in Nat,
         NEW side, NEW kind, NEW protocol, NEW ok,
         chunk.from = side, chunk.http = kind, protocol = "any" \/ chunk.up = protocol,
         ok => chunk.valid = "good"
  PROVE  /\ Is(pos, side, kind, protocol, ok)
         /\ Had(pos, side, kind, protocol, ok)
  BY DEF Is, Had, chunk

LEMMA RawHttp2Keeps ==
  ASSUME ConvInv, RawHttp2
  PROVE  ConvInv'
<1>1. /\ pc = "chunk" /\ pos \in 1..Len(stream) /\ class \in Http2 /\ UNCHANGED fixed
      /\ Len(stream) \in Nat
  BY DEF RawHttp2, ConvInv, PlaceInv, TypeOK
<1>2. /\ chunk.from \in Sides /\ chunk.h2 \in Seq(H2Frame)
  BY <1>1, ChunkInHand DEF ConvInv
<1>3. /\ events \in Seq(Event) /\ NoForeignGrpc(events) /\ ClassInv(py) /\ Meaning(py, pos)
      /\ backlog \in [Sides -> Seq(H2Frame)] /\ \A s \in Sides : FromStream(pos, s, backlog[s])
      /\ todo \in Seq(WsFrame) /\ TypeOK /\ Opened(py, pos - 1)
  BY <1>1 DEF ConvInv, TypeOK, ShownInv, Event
<1>4. CASE /\ ~py.h2_active /\ chunk.from = "c" /\ chunk.http = "preface"
           /\ py' = [py EXCEPT !.h2_active = TRUE, !.buffer = "ready"]
           /\ backlog' = [s \in Sides |-> IF s = "c" THEN chunk.h2 ELSE << >>]
           /\ pc' = "h2" /\ UNCHANGED <<pos, todo, events, out>>
  <2>1. Had(pos, "c", "preface", "any", FALSE)
    BY <1>1, <1>4, InHandIs
  <2>2. ClassInv(py') /\ Meaning(py', pos) /\ py'.h2_active /\ Opened(py', pos)
    BY <1>1, <1>3, <1>4, <2>1 DEF ClassInv, Attributes, Meaning, Opened
  <2>3. << >> \in Seq(H2Frame) /\ FromStream(pos, "s", << >>)
    BY DEF FromStream
  <2>4. FromStream(pos, "c", chunk.h2)
    BY <1>1, <1>3, <1>4, FramesOfChunk
  <2>5. backlog' \in [Sides -> Seq(H2Frame)] /\ \A s \in Sides : FromStream(pos, s, backlog'[s])
    BY <1>2, <1>4, <2>3, <2>4 DEF Sides
  <2> QED
    BY <1>1, <1>3, <1>4, <2>2, <2>5, WithinKeeps
<1>5. CASE /\ py.h2_active
           /\ py' = [py EXCEPT !.buffer = IF chunk.from = "c" THEN "ready" ELSE py.buffer]
           /\ backlog' = Buffered(Frames)
           /\ chunk.from = "s" \/ py.buffer = "ready" \/ chunk.http = "preface"
           /\ pc' = "h2" /\ UNCHANGED <<pos, todo, events, out>>
  <2>1. chunk.from = "s" \/ py.buffer = "ready" \/ Had(pos, "c", "preface", "any", FALSE)
    BY <1>1, <1>2, <1>5, InHandIs DEF Sides
  <2>2. Opened(py, pos)
    BY <1>1, OpenedHere
  <2>3. ClassInv(py') /\ Meaning(py', pos) /\ py'.h2_active
    BY <1>1, <1>3, <1>5, <2>1 DEF ClassInv, Attributes, Meaning
  <2>4. Opened(py', pos)
    <3>1. py'.buffer = (IF chunk.from = "c" THEN "ready" ELSE py.buffer)
      BY <1>3, <1>5 DEF ClassInv, Attributes
    <3>2. chunk.from = "s" => chunk.from # "c"
      OBVIOUS
    <3> QED
      BY <2>1, <2>2, <3>1, <3>2 DEF Opened
  <2>5. backlog' \in [Sides -> Seq(H2Frame)] /\ \A s \in Sides : FromStream(pos, s, backlog'[s])
    BY <1>1, <1>3, <1>5, FramesOfChunk, FramesAdded
  <2> QED
    BY <1>1, <1>3, <1>5, <2>3, <2>4, <2>5, WithinKeeps
<1>6. CASE Finish(<<Error>>) /\ UNCHANGED <<py, backlog>>
  <2>1. <<Error>> \in Seq(OutChunk) /\ NoForeignGrpc(<<Error>>)
    BY <1>1, OneShown DEF Error, Shown, ConvInv
  <2> QED
    BY <1>1, <1>6, <2>1, FinishSame
<1> QED
  BY <1>4, <1>5, <1>6 DEF RawHttp2

\* HTTP/1 has the process out of a chunk at once, so the chunk is one of the stream's.
LEMMA InHttp1 ==
  ASSUME ConvInv, Http1
  PROVE  /\ pos \in 1..Len(stream) /\ Len(stream) \in Nat /\ pc = "chunk"
         /\ class \in Http /\ ~py.switched /\ ~py.h2_active
         /\ ClassInv(py) /\ Meaning(py, pos) /\ Meaning(py, pos + 1)
         /\ Opened(py, pos) /\ Opened(py, pos - 1)
         /\ backlog \in [Sides -> Seq(H2Frame)] /\ \A s \in Sides : FromStream(pos, s, backlog[s])
<1>1. pos \in 1..Len(stream) /\ Len(stream) \in Nat /\ pc = "chunk"
  BY DEF Http1, ConvInv, PlaceInv, TypeOK
<1>2. Meaning(py, pos) /\ Meaning(py, pos + 1)
  BY <1>1, MeaningGrows DEF ConvInv
<1>3. Opened(py, pos) /\ Opened(py, pos - 1)
  BY <1>1, OpenedHere DEF ConvInv
<1> QED
  BY <1>1, <1>2, <1>3 DEF Http1, ConvInv, TypeOK, ShownInv

LEMMA WebsocketRequestKeeps ==
  ASSUME ConvInv, WebsocketRequest
  PROVE  ConvInv'
<1>1. /\ pos \in 1..Len(stream) /\ Len(stream) \in Nat /\ class \in Http
      /\ ~py.switched /\ ~py.h2_active /\ Opened(py, pos)
      /\ ClassInv(py) /\ Meaning(py, pos + 1)
      /\ backlog \in [Sides -> Seq(H2Frame)] /\ \A s \in Sides : FromStream(pos, s, backlog[s])
  BY InHttp1 DEF WebsocketRequest
<1>2. PICK key \in BOOLEAN : key = (chunk.valid = "good" \/ (chunk.valid = "none" /\ py.key))
  OBVIOUS
<1>3. /\ chunk.from = "c" /\ chunk.http = "request" /\ class = "websocket" /\ Up = "websocket"
      /\ Finish(<<IF chunk.valid = "none" THEN Error ELSE Same>>)
      /\ py' = [py EXCEPT !.key = key]
      /\ UNCHANGED <<fixed, backlog>>
  BY <1>2 DEF WebsocketRequest
<1>4. chunk.up = "websocket"
  BY <1>3 DEF Up
<1>5. key => Had((pos + 1) - 1, "c", "request", "websocket", TRUE)
  <2>1. (pos + 1) - 1 = pos
    BY <1>1
  <2>2. chunk.valid = "good" => Had(pos, "c", "request", "websocket", TRUE)
    BY <1>1, <1>3, <1>4, InHandIs
  <2>3. py.key => Had((pos + 1) - 1, "c", "request", "websocket", TRUE)
    BY <1>1 DEF Meaning
  <2> QED
    BY <1>2, <2>1, <2>2, <2>3, Zenon
<1>6. ClassInv(py') /\ Opened(py', pos)
  BY <1>1, <1>3 DEF ClassInv, Attributes, Opened
<1>7. Meaning(py', pos + 1)
  BY <1>1, <1>3, <1>5 DEF ClassInv, Attributes, Meaning
<1>8. PICK res : res = <<IF chunk.valid = "none" THEN Error ELSE Same>>
  OBVIOUS
<1>9. res \in Seq(OutChunk) /\ NoForeignGrpc(res)
  <2>1. /\ <<Same>> \in Seq(OutChunk) /\ NoForeignGrpc(<<Same>>)
        /\ <<Error>> \in Seq(OutChunk) /\ NoForeignGrpc(<<Error>>)
    BY <1>1, OneShown DEF Same, Error, Shown, ConvInv
  <2> QED
    BY <1>8, <2>1
<1> QED
  BY <1>1, <1>3, <1>6, <1>7, <1>8, <1>9, FinishKeeps

LEMMA UpgradeRequestKeeps ==
  ASSUME ConvInv, UpgradeRequest
  PROVE  ConvInv'
<1>1. /\ pos \in 1..Len(stream) /\ Len(stream) \in Nat /\ class \in Http
      /\ ~py.switched /\ ~py.h2_active
      /\ ClassInv(py) /\ Meaning(py, pos + 1)
  BY InHttp1 DEF UpgradeRequest
<1>2. /\ chunk.from = "c" /\ chunk.http = "request" /\ Up = "h2c"
      /\ \E res \in {<<Same>>, <<Same, Shown("h2")>>, <<Error>>} : Finish(res)
      /\ py' = [py EXCEPT !.buffer = "fresh"]
      /\ backlog' = [s \in Sides |-> << >>] /\ UNCHANGED fixed
  <2>1. chunk.valid \in {"none", "good", "bad"}
    BY <1>1, ChunkInHand DEF ConvInv, Chunk
  <2> QED
    BY <2>1 DEF UpgradeRequest
<1>3. chunk.up = "h2c" /\ class \in Http2
  BY <1>1, <1>2 DEF Up, Http
<1>4. Had(pos, "c", "request", "h2c", FALSE)
  BY <1>1, <1>2, <1>3, InHandIs
<1>5. Had((pos + 1) - 1, "c", "request", "h2c", FALSE)
  <2>1. (pos + 1) - 1 = pos
    BY <1>1
  <2> QED
    BY <1>4, <2>1, Zenon
<1>6. ClassInv(py') /\ Meaning(py', pos + 1) /\ Opened(py', pos)
  <2>1. ClassInv(py')
    BY <1>1, <1>2, <1>3 DEF ClassInv, Attributes
  <2>2. Meaning(py', pos + 1)
    BY <1>1, <1>2, <1>5 DEF ClassInv, Attributes, Meaning
  <2>3. Opened(py', pos)
    BY <1>1, <1>2 DEF ClassInv, Attributes, Opened
  <2> QED
    BY <2>1, <2>2, <2>3
<1>7. PICK res \in {<<Same>>, <<Same, Shown("h2")>>, <<Error>>} : Finish(res)
  BY <1>2
<1>8. res \in Seq(OutChunk) /\ NoForeignGrpc(res)
  <2>1. /\ <<Same>> \in Seq(OutChunk) /\ NoForeignGrpc(<<Same>>)
        /\ <<Error>> \in Seq(OutChunk) /\ NoForeignGrpc(<<Error>>)
    BY <1>1, OneShown DEF Same, Error, Shown, ConvInv
  <2>2. PICK a \in OutChunk, b \in OutChunk : /\ a = Same /\ a.how = "same"
                                              /\ b = Shown("h2") /\ b.how = "h2"
    <3>1. chunk.from \in Sides
      BY <1>1, ChunkInHand DEF ConvInv
    <3>2. Same \in OutChunk /\ Same.how = "same"
      BY <3>1 DEF Same, OutChunk
    <3>3. Shown("h2") \in OutChunk /\ Shown("h2").how = "h2"
      BY <3>1 DEF Shown, OutChunk
    <3> QED
      BY <3>2, <3>3, Zenon
  <2>3. <<a, b>> \in Seq(OutChunk)
    BY <2>2
  <2>4. NoForeignGrpc(<<a, b>>)
    BY <2>2 DEF NoForeignGrpc
  <2> QED
    BY <1>7, <2>1, <2>2, <2>3, <2>4, Zenon
<1>9. backlog' \in [Sides -> Seq(H2Frame)] /\ \A s \in Sides : FromStream(pos, s, backlog'[s])
  BY <1>2 DEF FromStream
<1> QED
  BY <1>1, <1>2, <1>6, <1>7, <1>8, <1>9, FinishKeeps

\* The chunks of HTTP/1 that leave the attributes alone.
LEMMA QuietHttp1Keeps ==
  ASSUME ConvInv, RequestRefused \/ PlainRequest \/ ResponseRefused \/ PlainResponse
  PROVE  ConvInv'
<1>1. Http1 /\ UNCHANGED <<fixed, py, backlog>>
  BY DEF RequestRefused, PlainRequest, ResponseRefused, PlainResponse
<1>2. PICK how \in {"same", "error", "decoded"} : Finish(<<Shown(how)>>)
  BY DEF RequestRefused, PlainRequest, ResponseRefused, PlainResponse, Same, Error, Shown
<1>3. pos \in 1..Len(stream) /\ pc = "chunk"
  BY <1>1, InHttp1
<1>4. <<Shown(how)>> \in Seq(OutChunk) /\ NoForeignGrpc(<<Shown(how)>>)
  BY <1>3, OneShown DEF ConvInv
<1> QED
  BY <1>1, <1>2, <1>3, <1>4, FinishSame

\* The request before and the response in hand make a grant.
LEMMA GrantInHand ==
  ASSUME pos \in 1..Len(stream), Len(stream) \in Nat, NEW protocol, NEW ok,
         Had(pos - 1, "c", "request", protocol, ok), Is(pos, "s", "response", protocol, ok)
  PROVE  Granted(pos, protocol, ok)
<1>1. PICK i \in 1..pos - 1 : Is(i, "c", "request", protocol, ok)
  BY DEF Had
<1>2. i \in 1..pos /\ i < pos /\ pos \in 1..pos
  BY <1>1
<1> QED
  BY <1>1, <1>2 DEF Granted

LEMMA WebsocketResponseKeeps ==
  ASSUME ConvInv, WebsocketResponse
  PROVE  ConvInv'
<1>1. /\ pos \in 1..Len(stream) /\ Len(stream) \in Nat
      /\ ClassInv(py) /\ Meaning(py, pos) /\ Opened(py, pos)
      /\ backlog \in [Sides -> Seq(H2Frame)] /\ \A s \in Sides : FromStream(pos, s, backlog[s])
  BY InHttp1 DEF WebsocketResponse
<1>2. PICK missed : missed = IF chunk.sound THEN py.missed ELSE Sides
  OBVIOUS
<1>3. /\ chunk.from = "s" /\ chunk.http = "response" /\ class = "websocket" /\ Up = "websocket"
      /\ py.key /\ chunk.valid = "good"
      /\ py' = [py EXCEPT !.switched = TRUE, !.deflate = chunk.deflate, !.missed = missed]
      /\ UNCHANGED <<fixed, backlog>>
  BY <1>2 DEF WebsocketResponse, GrantsWebsocket
<1>4. chunk.up = "websocket" /\ chunk.deflate \in BOOLEAN /\ chunk.ws \in Seq(WsFrame)
  BY <1>1, <1>3, ChunkInHand DEF Up, ConvInv, Chunk
<1>5. missed \in SUBSET Sides
  BY <1>1, <1>2 DEF ClassInv, Attributes
<1>6. Is(pos, "s", "response", "websocket", TRUE)
  BY <1>1, <1>3, <1>4, InHandIs
<1>7. Granted(pos, "websocket", TRUE)
  BY <1>1, <1>3, <1>6, GrantInHand DEF Meaning
<1>8. ClassInv(py') /\ Meaning(py', pos) /\ py'.switched /\ Opened(py', pos)
  BY <1>1, <1>3, <1>4, <1>5, <1>7 DEF ClassInv, Attributes, Meaning, Opened
<1>9. CASE todo' = chunk.ws /\ pc' = "ws" /\ UNCHANGED <<pos, events, out>>
  <2>1. events \in Seq(Event) /\ NoForeignGrpc(events)
    BY DEF ConvInv, TypeOK, ShownInv, Event
  <2>2. FromChunk(todo')
    BY <1>4, <1>9 DEF FromChunk
  <2> QED
    BY <1>1, <1>3, <1>4, <1>8, <1>9, <2>1, <2>2, WithinKeeps
<1>10. CASE Finish(<<Error>>)
  <2>1. Meaning(py', pos + 1)
    BY <1>1, <1>8, MeaningNext
  <2>2. <<Error>> \in Seq(OutChunk) /\ NoForeignGrpc(<<Error>>)
    BY <1>1, OneShown DEF Error, Shown, ConvInv
  <2> QED
    BY <1>1, <1>3, <1>8, <1>10, <2>1, <2>2, FinishKeeps
<1> QED
  BY <1>9, <1>10 DEF WebsocketResponse

LEMMA UpgradeResponseKeeps ==
  ASSUME ConvInv, UpgradeResponse
  PROVE  ConvInv'
<1>1. /\ pos \in 1..Len(stream) /\ Len(stream) \in Nat /\ class \in Http
      /\ ClassInv(py) /\ Meaning(py, pos) /\ Opened(py, pos) /\ Opened(py, pos - 1)
      /\ backlog \in [Sides -> Seq(H2Frame)] /\ \A s \in Sides : FromStream(pos, s, backlog[s])
  BY InHttp1 DEF UpgradeResponse
<1>2. /\ chunk.from = "s" /\ chunk.http = "response" /\ Up = "h2c" /\ py.buffer # "none"
      /\ py' = [py EXCEPT !.h2_active = TRUE]
      /\ backlog' = Buffered(chunk.h2)
      /\ events' = <<Shown("same")>> /\ pc' = "h2"
      /\ UNCHANGED <<fixed, pos, todo, out>>
  BY DEF UpgradeResponse
<1>3. chunk.up = "h2c" /\ class \in Http2
  BY <1>1, <1>2 DEF Up, Http
<1>4. Is(pos, "s", "response", "h2c", FALSE)
  BY <1>1, <1>2, <1>3, InHandIs
<1>5. Had(pos, "c", "preface", "any", FALSE) \/ Granted(pos, "h2c", FALSE)
  BY <1>1, <1>2, <1>4, GrantInHand DEF Meaning
<1>6. ClassInv(py') /\ Meaning(py', pos) /\ py'.h2_active /\ Opened(py', pos)
  BY <1>1, <1>2, <1>3, <1>5 DEF ClassInv, Attributes, Meaning, Opened
<1>7. events' \in Seq(Event) /\ NoForeignGrpc(events')
  <2>1. Shown("same") \in Event /\ Shown("same").how = "same"
    BY <1>1, ChunkInHand DEF Shown, Event, ConvInv
  <2> HIDE DEF Shown
  <2> QED
    BY <1>2, <2>1 DEF NoForeignGrpc
<1>8. backlog' \in [Sides -> Seq(H2Frame)] /\ \A s \in Sides : FromStream(pos, s, backlog'[s])
  BY <1>1, <1>2, FramesOfChunk, FramesAdded DEF ConvInv
<1>9. todo' \in Seq(WsFrame)
  BY <1>2 DEF ConvInv, TypeOK
<1> QED
  BY <1>1, <1>2, <1>6, <1>7, <1>8, <1>9, WithinKeeps

\* The frame at the head of a buffer came with a chunk of its side, and so did the others.
LEMMA HeadAndTail ==
  ASSUME NEW n, NEW side, NEW frames, frames \in Seq(H2Frame), frames # << >>,
         FromStream(n, side, frames)
  PROVE  /\ Head(frames) \in H2Frame /\ CameFrom(n, side, Head(frames))
         /\ Tail(frames) \in Seq(H2Frame) /\ FromStream(n, side, Tail(frames))
<1>1. /\ Len(frames) \in Nat /\ 1 \in 1..Len(frames)
      /\ Head(frames) = frames[1] /\ Head(frames) \in H2Frame /\ Tail(frames) \in Seq(H2Frame)
  BY EmptySeq, LenProperties, HeadTailProperties
<1>2. \A k \in 1..Len(Tail(frames)) : k + 1 \in 1..Len(frames) /\ Tail(frames)[k] = frames[k + 1]
  BY <1>1, HeadTailProperties
<1> QED
  BY <1>1, <1>2 DEF FromStream

\* An exception over a frame ends the chunk or, for what a client sends, the stream.
LEMMA RaisedKeeps ==
  ASSUME ConvInv, pc = "h2", Raised, UNCHANGED fixed, UNCHANGED py,
         backlog' \in [Sides -> Seq(H2Frame)], \A s \in Sides : FromStream(pos, s, backlog'[s])
  PROVE  ConvInv'
<1>1. /\ pos \in 1..Len(stream) /\ Len(stream) \in Nat /\ py.h2_active
      /\ ClassInv(py) /\ Meaning(py, pos) /\ Meaning(py, pos + 1) /\ Opened(py, pos)
      /\ todo \in Seq(WsFrame) /\ events \in Seq(Event) /\ NoForeignGrpc(events)
  BY MeaningGrows, OpenedHere DEF ConvInv, PlaceInv, TypeOK, ShownInv, Event
<1>2. py' = py /\ UNCHANGED fixed
  OBVIOUS
<1>3. CASE Finish(<<Error>>)
  <2>1. <<Error>> \in Seq(OutChunk) /\ NoForeignGrpc(<<Error>>)
    BY <1>1, OneShown DEF Error, Shown, ConvInv
  <2> QED
    BY <1>1, <1>2, <1>3, <2>1, FinishKeeps
<1>4. CASE /\ ~(class = "websocket" \/ chunk.from = "s")
           /\ pc' = "failed" /\ UNCHANGED <<pos, todo, events, out>>
  BY <1>1, <1>2, <1>4, WithinKeeps
<1> QED
  BY <1>3, <1>4 DEF Raised

\* What a server's headers announce comes from a chunk of the server.
LEMMA HeadersKeep ==
  ASSUME ConvInv, pc = "h2", class = "grpc",
         NEW f \in H2Frame, CameFrom(pos, chunk.from, f)
  PROVE  LET p == GrpcHeaders(f, chunk.from)
         IN  ClassInv(p) /\ Meaning(p, pos) /\ p.h2_active
<1>1. /\ pos \in 1..Len(stream) /\ py.h2_active /\ ClassInv(py) /\ Meaning(py, pos)
  BY DEF ConvInv, PlaceInv
<1>2. chunk.from \in Sides /\ f.id \in StreamIds
  BY <1>1, ChunkInHand DEF ConvInv, H2Frame
<1>3. f.ctype = "grpc" /\ chunk.from = "s" => ServerAnnounced
  BY <1>1 DEF ServerAnnounced, CameFrom, CameWith, NoFrame, ConvInv, TypeOK
<1>4. PICK now : now = IF f.ctype = "grpc" THEN py.grpc \cup {<<f.id, chunk.from>>}
                       ELSE IF f.ctype = "other" THEN py.grpc \ {<<f.id, chunk.from>>} ELSE py.grpc
  OBVIOUS
<1>5. now \subseteq StreamIds \X Sides
  BY <1>1, <1>2, <1>4 DEF ClassInv, Attributes
<1>6. \A id : <<id, "s">> \in now => ServerAnnounced
  <2> SUFFICES ASSUME NEW id, <<id, "s">> \in now PROVE ServerAnnounced
    OBVIOUS
  <2>1. CASE <<id, "s">> \in py.grpc
    BY <1>1, <1>5, <2>1 DEF Meaning, ClassInv, Attributes
  <2>2. CASE <<id, "s">> \notin py.grpc
    BY <1>3, <1>4, <2>2
  <2> QED
    BY <2>1, <2>2
<1>7. PICK was : was = (py.responded \/ (chunk.from = "s" /\ <<f.id, chunk.from>> \in now))
  OBVIOUS
<1>8. was \in BOOLEAN /\ (was => ServerAnnounced)
  BY <1>1, <1>6, <1>7 DEF Meaning, ClassInv, Attributes
<1>9. GrpcHeaders(f, chunk.from) = [py EXCEPT !.grpc = now, !.responded = was]
  BY <1>4, <1>7 DEF GrpcHeaders
<1>10. PICK p : p = [py EXCEPT !.grpc = now, !.responded = was]
  OBVIOUS
<1>11. ClassInv(p) /\ p.h2_active
  BY <1>1, <1>5, <1>8, <1>10 DEF ClassInv, Attributes
<1>12. Meaning(p, pos)
  BY <1>1, <1>6, <1>8, <1>10 DEF ClassInv, Attributes, Meaning
<1> QED
  BY <1>9, <1>10, <1>11, <1>12

\* How a frame is shown: as gRPC from a server only after one of its frames announced it.
LEMMA EventIsSound ==
  ASSUME ConvInv, pc = "h2", NEW f \in H2Frame
  PROVE  LET e == Shown(IF class = "grpc" THEN GrpcEvent(f) ELSE "h2")
         IN  e \in Event /\ (e.from = "s" /\ e.how \in {"grpc", "notGrpc"} => ServerAnnounced)
<1>1. pos \in 1..Len(stream) /\ Meaning(py, pos) /\ chunk.from \in Sides /\ f.id \in StreamIds
  BY ChunkInHand DEF ConvInv, PlaceInv, H2Frame
<1>2. PICK how : how = IF class = "grpc" THEN GrpcEvent(f) ELSE "h2"
  OBVIOUS
<1>3. how \in {"h2", "grpc", "notGrpc"}
  BY <1>2 DEF GrpcEvent
<1>4. how \in {"grpc", "notGrpc"} /\ chunk.from = "s" => ServerAnnounced
  BY <1>1, <1>2 DEF GrpcEvent, LooksAsGrpc, Meaning
<1>5. Shown(how) \in Event /\ Shown(how).from = chunk.from /\ Shown(how).how = how
  BY <1>1, <1>3 DEF Shown, Event
<1> QED
  BY <1>2, <1>4, <1>5

LEMMA HandleH2FrameKeeps ==
  ASSUME ConvInv, HandleH2Frame
  PROVE  ConvInv'
<1>0. /\ pc = "h2" /\ pos \in 1..Len(stream) /\ Len(stream) \in Nat /\ py.h2_active
  BY DEF HandleH2Frame, ConvInv, PlaceInv, TypeOK
<1>1. /\ pc = "h2" /\ pos \in 1..Len(stream) /\ Len(stream) \in Nat /\ py.h2_active
      /\ ClassInv(py) /\ Meaning(py, pos) /\ Meaning(py, pos + 1) /\ Opened(py, pos)
      /\ todo \in Seq(WsFrame) /\ events \in Seq(Event) /\ NoForeignGrpc(events)
      /\ backlog \in [Sides -> Seq(H2Frame)] /\ \A s \in Sides : FromStream(pos, s, backlog[s])
  BY <1>0, MeaningGrows, OpenedHere DEF ConvInv, TypeOK, ShownInv, Event
<1>2. chunk.from \in Sides /\ UNCHANGED fixed /\ backlog[chunk.from] # << >>
  BY <1>1, ChunkInHand DEF ConvInv, HandleH2Frame
<1>3. PICK f : f = Head(backlog[chunk.from])
  OBVIOUS
<1>4. /\ f \in H2Frame /\ CameFrom(pos, chunk.from, f)
      /\ Tail(backlog[chunk.from]) \in Seq(H2Frame)
      /\ FromStream(pos, chunk.from, Tail(backlog[chunk.from]))
  <2>1. PICK frames, side : frames = backlog[chunk.from] /\ side = chunk.from
    OBVIOUS
  <2>2. frames \in Seq(H2Frame) /\ frames # << >> /\ FromStream(pos, side, frames)
    BY <1>1, <1>2, <2>1
  <2>3. /\ Head(frames) \in H2Frame /\ CameFrom(pos, side, Head(frames))
        /\ Tail(frames) \in Seq(H2Frame) /\ FromStream(pos, side, Tail(frames))
    BY <2>2, HeadAndTail
  <2> QED
    BY <1>3, <2>1, <2>3
<1>5. backlog' = backlog \/ backlog' = [backlog EXCEPT ![chunk.from] = Tail(backlog[chunk.from])]
  BY DEF HandleH2Frame
<1>6. backlog' \in [Sides -> Seq(H2Frame)] /\ \A s \in Sides : FromStream(pos, s, backlog'[s])
  BY <1>1, <1>2, <1>4, <1>5
<1>7. CASE (Finish(<<Error>>) \/ Finish(events)) /\ UNCHANGED py
  <2>1. <<Error>> \in Seq(OutChunk) /\ NoForeignGrpc(<<Error>>)
    BY <1>1, OneShown DEF Error, Shown, ConvInv
  <2>2. Event \subseteq OutChunk
    BY DEF Event, OutChunk
  <2>3. events \in Seq(OutChunk)
    BY <1>1, <2>2, SeqWider
  <2>4. ClassInv(py') /\ Meaning(py', pos + 1) /\ Opened(py', pos)
    BY <1>1, <1>7
  <2> QED
    BY <1>1, <1>2, <1>6, <1>7, <2>1, <2>3, <2>4, FinishKeeps
<1>8. CASE Raised /\ UNCHANGED py
  BY <1>1, <1>2, <1>6, <1>8, RaisedKeeps
<1>9. CASE /\ events' = Append(events, Shown(IF class = "grpc" THEN GrpcEvent(f) ELSE "h2"))
           /\ py' = CASE f.type = "settings" /\ class = "websocket" -> WebsocketSettings(f)
                      [] f.type = "headers" /\ class = "grpc" -> GrpcHeaders(f, chunk.from)
                      [] OTHER -> py
           /\ UNCHANGED <<pc, pos, todo, out>>
  <2>1. PICK e : e = Shown(IF class = "grpc" THEN GrpcEvent(f) ELSE "h2")
    OBVIOUS
  <2>2. e \in Event /\ (e.from = "s" /\ e.how \in {"grpc", "notGrpc"} => ServerAnnounced)
    BY <1>1, <1>4, <2>1, EventIsSound
  <2>3. events' \in Seq(Event) /\ Len(events') = Len(events) + 1 /\ Len(events) \in Nat
        /\ \A i \in 1..Len(events) + 1 : events'[i] = IF i <= Len(events) THEN events[i] ELSE e
    BY <1>1, <1>9, <2>1, <2>2
  <2>4. NoForeignGrpc(events')
    <3> SUFFICES ASSUME NEW i \in 1..Len(events'),
                        events'[i].from = "s", events'[i].how \in {"grpc", "notGrpc"}
                 PROVE  ServerAnnounced
      BY DEF NoForeignGrpc
    <3>1. CASE i <= Len(events)
      <4>1. i \in 1..Len(events) /\ events'[i] = events[i]
        BY <2>3, <3>1
      <4> QED
        BY <1>1, <4>1 DEF NoForeignGrpc
    <3>2. CASE ~(i <= Len(events))
      BY <2>2, <2>3, <3>2
    <3> QED
      BY <3>1, <3>2
  <2>5. ClassInv(py') /\ Meaning(py', pos) /\ py'.h2_active /\ Opened(py', pos)
    <3>1. CASE py' = py
      BY <1>1, <3>1
    <3>2. CASE f.type = "settings" /\ class = "websocket" /\ py' = WebsocketSettings(f)
      <4>1. f.on \in BOOLEAN
        BY <1>4 DEF H2Frame
      <4> QED
        BY <1>1, <3>2, <4>1 DEF WebsocketSettings, ClassInv, Attributes, Meaning, Opened
    <3>3. CASE class = "grpc" /\ py' = GrpcHeaders(f, chunk.from)
      <4>1. ClassInv(py') /\ Meaning(py', pos) /\ py'.h2_active
        BY <1>1, <1>4, <3>3, HeadersKeep
      <4>2. py'.buffer = py.buffer
        BY <3>3 DEF GrpcHeaders
      <4> QED
        BY <1>1, <4>1, <4>2 DEF Opened
    <3> QED
      BY <1>9, <3>1, <3>2, <3>3
  <2> QED
    BY <1>1, <1>2, <1>6, <1>9, <2>3, <2>4, <2>5, WithinKeeps
<1> QED
  BY <1>3, <1>7, <1>8, <1>9 DEF HandleH2Frame

LEMMA BufferEmptyKeeps ==
  ASSUME ConvInv, BufferEmpty
  PROVE  ConvInv'
<1>1. /\ pc = "h2" /\ pos \in 1..Len(stream) /\ events \in Seq(Event) /\ NoForeignGrpc(events)
      /\ Finish(events) /\ UNCHANGED <<fixed, py, backlog>>
  BY DEF BufferEmpty, ConvInv, PlaceInv, TypeOK, ShownInv, Event
<1>2. Event \subseteq OutChunk
  BY DEF Event, OutChunk
<1>3. events \in Seq(OutChunk)
  BY <1>1, <1>2, SeqWider
<1> QED
  BY <1>1, <1>3, FinishSame

\* What the frames of a websocket do to the attributes concerns the fragments only.
LEMMA FragmentsOnly ==
  ASSUME ConvInv, pc = "ws", NEW frags \in {"dict", "list"}, NEW kept \in Nat, NEW missed \in SUBSET Sides
  PROVE  LET p == [py EXCEPT !.frags = frags, !.kept = kept, !.missed = missed]
         IN  ClassInv(p) /\ Meaning(p, pos) /\ p.switched /\ Opened(p, pos)
<1>1. ClassInv(py) /\ Meaning(py, pos) /\ py.switched /\ Opened(py, pos)
  BY DEF ConvInv, PlaceInv
<1> QED
  BY <1>1 DEF ClassInv, Attributes, Meaning, Opened

\* What holds of the chunk in hand while its frames are handled.
LEMMA InFrames ==
  ASSUME ConvInv, pc = "ws"
  PROVE  /\ pos \in 1..Len(stream) /\ Len(stream) \in Nat /\ chunk.from \in Sides
         /\ py \in Attributes /\ todo \in Seq(WsFrame) /\ FromChunk(todo)
         /\ events \in Seq(Event) /\ NoForeignGrpc(events)
         /\ backlog \in [Sides -> Seq(H2Frame)] /\ \A s \in Sides : FromStream(pos, s, backlog[s])
         /\ <<Error>> \in Seq(OutChunk) /\ NoForeignGrpc(<<Error>>)
<1>1. pos \in 1..Len(stream) /\ FromChunk(todo)
  BY DEF ConvInv, PlaceInv
<1>2. <<Error>> \in Seq(OutChunk) /\ NoForeignGrpc(<<Error>>)
  BY <1>1, OneShown DEF Error, Shown, ConvInv
<1> QED
  BY <1>1, <1>2, ChunkInHand DEF ConvInv, TypeOK, ShownInv, ClassInv, Event

LEMMA RefuseFrameKeeps ==
  ASSUME ConvInv, RefuseFrame \/ InflateFails
  PROVE  ConvInv'
<1>1. /\ pc = "ws" /\ Finish(<<Error>>) /\ UNCHANGED <<fixed, backlog>>
      /\ py' = [py EXCEPT !.frags = "list", !.kept = 0, !.missed = py.missed \cup {chunk.from}]
  BY DEF RefuseFrame, InflateFails
<1>2. PICK missed : missed = py.missed \cup {chunk.from}
  OBVIOUS
<1>3. missed \in SUBSET Sides
  BY <1>1, <1>2, InFrames DEF Attributes
<1>4. ClassInv(py') /\ Meaning(py', pos) /\ Opened(py', pos)
  BY <1>1, <1>2, <1>3, FragmentsOnly
<1>5. Meaning(py', pos + 1)
  <2>1. pos \in Nat
    BY <1>1, InFrames
  <2> QED
    BY <1>4, <2>1, MeaningNext
<1> QED
  BY <1>1, <1>4, <1>5, InFrames, FinishKeeps

LEMMA RepeatFrameKeeps ==
  ASSUME ConvInv, RepeatFrame
  PROVE  ConvInv'
<1>1. /\ pc = "ws" /\ UNCHANGED <<fixed, pc, pos, todo, backlog, events, out>>
      /\ py' = [py EXCEPT !.kept = IF py.kept < MaxKept THEN py.kept + 1 ELSE py.kept]
  BY DEF RepeatFrame
<1>2. PICK frags, kept, missed : /\ frags = py.frags /\ missed = py.missed
                                 /\ kept = IF py.kept < MaxKept THEN py.kept + 1 ELSE py.kept
  OBVIOUS
<1>3. kept \in Nat /\ frags \in {"dict", "list"} /\ missed \in SUBSET Sides
  BY <1>1, <1>2, InFrames DEF Attributes
<1>4. py' = [py EXCEPT !.frags = frags, !.kept = kept, !.missed = missed]
  BY <1>1, <1>2, InFrames DEF Attributes
<1>5. ClassInv(py') /\ Meaning(py', pos) /\ py'.switched /\ Opened(py', pos)
  <2>1. pc = "ws"
    BY <1>1
  <2> QED
    BY <1>3, <1>4, <2>1, FragmentsOnly
<1> QED
  BY <1>1, <1>5, InFrames, WithinKeeps

LEMMA ShowFrameKeeps ==
  ASSUME ConvInv, ShowFrame
  PROVE  ConvInv'
<1>1. /\ pc = "ws" /\ todo # << >> /\ todo' = Tail(todo)
      /\ UNCHANGED <<fixed, pc, pos, backlog, events, out>>
  BY DEF ShowFrame
<1>2. py' = py \/ py' = [py EXCEPT !.frags = "list", !.kept = 0]
  BY DEF ShowFrame
<1>3. ClassInv(py') /\ Meaning(py', pos) /\ py'.switched /\ Opened(py', pos)
  <2>1. CASE py' = py
    BY <1>1, <2>1 DEF ConvInv, PlaceInv
  <2>2. CASE py' = [py EXCEPT !.frags = "list", !.kept = 0]
    <3>1. py.missed \in SUBSET Sides
      BY <1>1, InFrames DEF Attributes
    <3>2. py' = [py EXCEPT !.frags = "list", !.kept = 0, !.missed = py.missed]
      BY <1>1, <2>2, InFrames DEF Attributes
    <3> QED
      BY <1>1, <3>1, <3>2, FragmentsOnly
  <2> QED
    BY <1>2, <2>1, <2>2
<1>4. todo' \in Seq(WsFrame) /\ FromChunk(todo')
  <2>1. todo \in Seq(WsFrame) /\ FromChunk(todo)
    BY <1>1, InFrames
  <2>2. /\ Tail(todo) \in Seq(WsFrame)
        /\ \A k \in 1..Len(Tail(todo)) : k + 1 \in 1..Len(todo) /\ Tail(todo)[k] = todo[k + 1]
    BY <1>1, <2>1, LenProperties, HeadTailProperties
  <2> QED
    BY <1>1, <2>1, <2>2 DEF FromChunk
<1> QED
  BY <1>1, <1>3, <1>4, InFrames, WithinKeeps

\* A byte that is left over leaves everything but the chunk as it is.
LEMMA StubFrameKeeps ==
  ASSUME ConvInv, StubFrame
  PROVE  ConvInv'
<1>1. /\ pc = "ws" /\ Finish(<<Error>>) /\ UNCHANGED <<fixed, py, backlog>>
  BY DEF StubFrame
<1> QED
  BY <1>1, InFrames, FinishSame

LEMMA FramesDoneKeeps ==
  ASSUME ConvInv, FramesDone
  PROVE  ConvInv'
<1>1. /\ pc = "ws" /\ Finish(<<Shown("frames")>>) /\ UNCHANGED <<fixed, py, backlog>>
  BY DEF FramesDone
<1>2. <<Shown("frames")>> \in Seq(OutChunk) /\ NoForeignGrpc(<<Shown("frames")>>)
  BY <1>1, InFrames, OneShown DEF ConvInv
<1> QED
  BY <1>1, <1>2, InFrames, FinishSame

\* A chunk of a plain class by itself is shown as it was, decoded or raw.
LEMMA ChunkDecodes ==
  ASSUME ConvInv, ConvertChunk
  PROVE  /\ pc = "chunk" /\ pos \in 1..Len(stream) /\ UNCHANGED <<fixed, py, backlog>>
         /\ \E res \in Seq(OutChunk) : /\ Finish(res)
                                       /\ \A i \in 1..Len(res) : res[i].how \in {"same", "decoded", "raw"}
<1>1. /\ pc = "chunk" /\ pos \in 1..Len(stream) /\ UNCHANGED <<fixed, py, backlog>>
      /\ chunk.packets \in 0..2
  <2>1. pc = "chunk" /\ pos \in 1..Len(stream) /\ UNCHANGED <<fixed, py, backlog>>
    BY DEF ConvertChunk, ConvInv, PlaceInv, TypeOK
  <2> QED
    BY <2>1, ChunkInHand DEF ConvInv, Chunk
<1>2. PICK res \in Decoded \cup Base64DecodeConverter \cup QUICConverter : Finish(res)
  BY DEF ConvertChunk, Plain, TLSConverter, DNSConverter, ProtobufConverter
<1>3. \A how \in {"same", "decoded", "raw"} : Shown(how) \in OutChunk /\ Shown(how).how = how
  BY <1>1, ChunkInHand DEF Shown, OutChunk, ConvInv
<1>4. CASE res \in Decoded \cup Base64DecodeConverter
  <2>1. PICK how \in {"same", "decoded", "raw"} : res = <<Shown(how)>>
    BY <1>4 DEF Decoded, Base64DecodeConverter, Same, Shown
  <2>2. PICK e \in OutChunk : e = Shown(how) /\ e.how \in {"same", "decoded", "raw"}
    BY <1>3
  <2>3. res = <<e>> /\ res \in Seq(OutChunk)
    BY <2>1, <2>2
  <2>4. \A i \in 1..Len(res) : res[i].how \in {"same", "decoded", "raw"}
    BY <2>2, <2>3
  <2> QED
    BY <1>1, <1>2, <2>3, <2>4
<1>5. CASE res \in QUICConverter
  <2>1. PICK n \in 0..2 : /\ DOMAIN res = 1..n
                          /\ \A i \in 1..n : \E how \in {"decoded", "raw"} : res[i] = Shown(how)
                          /\ res = [i \in 1..n |-> res[i]]
    <3>1. CASE \E n \in {chunk.packets} : res = [i \in 1..n |-> Shown("decoded")]
      BY <1>1, <3>1
    <3>2. CASE \E n \in 1..chunk.packets :
                  res = [i \in 1..n |-> Shown(IF i = n THEN "raw" ELSE "decoded")]
      BY <1>1, <3>2
    <3> QED
      BY <1>5, <3>1, <3>2 DEF QUICConverter
  <2>2. \A i \in 1..n : res[i] \in OutChunk /\ res[i].how \in {"decoded", "raw"}
    BY <1>3, <2>1
  <2>3. res \in [1..n -> OutChunk] /\ n \in Nat
    BY <2>1, <2>2
  <2>4. res \in Seq(OutChunk) /\ Len(res) = n
    BY <2>3, SeqDef, LenProperties
  <2> QED
    BY <1>1, <1>2, <2>2, <2>4
<1> QED
  BY <1>2, <1>4, <1>5

LEMMA ConvertChunkKeeps ==
  ASSUME ConvInv, ConvertChunk
  PROVE  ConvInv'
<1>1. /\ pc = "chunk" /\ pos \in 1..Len(stream) /\ UNCHANGED <<fixed, py, backlog>>
  BY ChunkDecodes
<1>2. PICK res \in Seq(OutChunk) : /\ Finish(res)
                                   /\ \A i \in 1..Len(res) : res[i].how \in {"same", "decoded", "raw"}
  BY ChunkDecodes
<1>3. NoForeignGrpc(res)
  BY <1>2 DEF NoForeignGrpc
<1> QED
  BY <1>1, <1>2, <1>3, FinishSame

LEMMA AnswerKeeps ==
  ASSUME ConvInv, Answer
  PROVE  ConvInv'
<1>1. Forget /\ UNCHANGED <<class, py, streams, kills>>
  BY DEF Answer
<1>2. answer' \in {"none", "unchanged", "shown", "failed"}
  BY DEF Answer
<1>3. ClassInv(py') /\ streams' \in 0..MaxStreams /\ kills' \in 0..MaxKills
  BY <1>1 DEF ConvInv, TypeOK
<1> QED
  BY <1>1, <1>2, <1>3, ForgetKeeps

\* A new process has a new object.
LEMMA KillKeeps ==
  ASSUME ConvInv, Kill
  PROVE  ConvInv'
<1>1. Forget /\ UNCHANGED <<class, streams>> /\ answer' = "none" /\ py' = NewObject
      /\ kills < MaxKills /\ kills' = kills + 1
  BY DEF Kill
<1>2. streams' \in 0..MaxStreams /\ kills' \in 0..MaxKills
  BY <1>1, ConvertersAssumption DEF ConvInv, TypeOK
<1>3. ClassInv(py')
  BY <1>1, NewObjectInv
<1> QED
  BY <1>1, <1>2, <1>3, ForgetKeeps

LEMMA StutterKeeps ==
  ASSUME ConvInv, UNCHANGED vars
  PROVE  ConvInv'
<1>1. /\ class' = class /\ pc' = pc /\ stream' = stream /\ swapped' = swapped /\ pos' = pos
      /\ todo' = todo /\ backlog' = backlog /\ events' = events /\ out' = out /\ py' = py
      /\ answer' = answer /\ streams' = streams /\ kills' = kills
  BY DEF vars
<1>2. TypeOK'
  BY <1>1 DEF ConvInv, TypeOK
<1>3. PlaceInv'
  BY <1>1 DEF ConvInv, PlaceInv, FromChunk, chunk
<1>4. ShownInv'
  BY <1>1, SameStream DEF ConvInv, ShownInv
<1>5. /\ ClassInv(py)'
      /\ pc' # "read" => Meaning(py, pos)' /\ Opened(py, IF pc = "chunk" THEN pos - 1 ELSE pos)'
  BY <1>1, SameStream DEF ConvInv, ClassInv, Meaning, Opened
<1> QED
  BY <1>2, <1>3, <1>4, <1>5 DEF ConvInv

LEMMA NextConv == ConvInv /\ [Next]_vars => ConvInv'
<1> SUFFICES ASSUME ConvInv, [Next]_vars PROVE ConvInv'
  OBVIOUS
<1>1. CASE ReadStream
  BY <1>1, ReadStreamKeeps
<1>2. CASE RawFrames \/ RawHttp2
  BY <1>2, RawFramesKeeps, RawHttp2Keeps
<1>3. CASE RequestRefused \/ PlainRequest \/ ResponseRefused \/ PlainResponse
  BY <1>3, QuietHttp1Keeps
<1>4. CASE WebsocketRequest \/ UpgradeRequest \/ WebsocketResponse \/ UpgradeResponse
  BY <1>4, WebsocketRequestKeeps, UpgradeRequestKeeps, WebsocketResponseKeeps, UpgradeResponseKeeps
<1>5. CASE HandleH2Frame \/ BufferEmpty
  BY <1>5, HandleH2FrameKeeps, BufferEmptyKeeps
<1>6. CASE StubFrame \/ RefuseFrame \/ RepeatFrame \/ InflateFails \/ ShowFrame \/ FramesDone
  BY <1>6, StubFrameKeeps, RefuseFrameKeeps, RepeatFrameKeeps, ShowFrameKeeps, FramesDoneKeeps
<1>7. CASE ConvertChunk \/ Answer \/ Kill
  BY <1>7, ConvertChunkKeeps, AnswerKeeps, KillKeeps
<1>8. CASE UNCHANGED vars
  BY <1>8, StutterKeeps
<1> QED
  BY <1>1, <1>2, <1>3, <1>4, <1>5, <1>6, <1>7, <1>8 DEF Next, Handle

LEMMA SpecConv == Spec => []ConvInv
  BY InitConv, NextConv, PTL DEF Spec
--------------------------------------------------------------------------------
\* The attributes of the object, the buffers and the results have their types in every state,
\* whatever streams the process has been given (converters/helpers, http2.py, websockets.py).
THEOREM ConverterTypeCorrectness == Spec => []TypeOK
<1>1. ConvInv => TypeOK
  BY DEF ConvInv
<1> QED
  BY <1>1, SpecConv, PTL

\* No class ever handles a chunk as a protocol this stream has not agreed on, and no server's
\* frame is shown as gRPC when this server announced none, however many streams were read
\* before with the same object (handle_stream of http2.py, websockets.py and grpc.py).
THEOREM NoStreamLeaks == Spec => []NothingFromEarlierStreams
<1>1. ConvInv => NothingFromEarlierStreams
  <2> SUFFICES ASSUME ConvInv PROVE NothingFromEarlierStreams
    OBVIOUS
  <2>1. pc \in {"ws", "h2"} => Meaning(py, pos) /\ pos \in 1..Len(stream) /\ Len(stream) \in Nat
    BY DEF ConvInv, PlaceInv, TypeOK
  <2>2. pc = "ws" => Granted(pos, "websocket", TRUE)
    BY <2>1 DEF ConvInv, PlaceInv, Meaning
  <2>3. pc = "h2" => Had(pos, "c", "preface", "any", FALSE) \/ Granted(pos, "h2c", FALSE)
    BY <2>1 DEF ConvInv, PlaceInv, Meaning
  <2>4. NoForeignGrpc(out)
    BY DEF ConvInv, ShownInv
  <2> QED
    BY <2>1, <2>2, <2>3, <2>4, SMTT(30)
    DEF NothingFromEarlierStreams, Granted, Had, Is, NoForeignGrpc, ServerAnnounced
<1> QED
  BY <1>1, SpecConv, PTL

--------------------------------------------------------------------------------
(* What a chunk is lost for. *)

\* A chunk that is turned into res is lost only if res ends with an error.
LEMMA LostByItsEnd ==
  ASSUME ConvInv, NEW res, res \in Seq(OutChunk), Finish(res), Lost
  PROVE  Len(res) \in 1..Len(res) /\ res[Len(res)].how = "error"
<1>1. out \in Seq(OutChunk) /\ out' = out \o res /\ pc' = "chunk"
  BY DEF ConvInv, TypeOK, OutChunk, Finish
<1>2. /\ Len(out') = Len(out) + Len(res) /\ Len(out) \in Nat /\ Len(res) \in Nat
      /\ \A i \in 1..Len(out) + Len(res) : out'[i] = IF i <= Len(out) THEN out[i] ELSE res[i - Len(out)]
  BY <1>1, ConcatProperties, LenProperties
<1>3. Len(out') > Len(out) /\ out'[Len(out')].how = "error"
  BY <1>1 DEF Lost
<1>4. Len(res) \in 1..Len(res) /\ Len(out') \in 1..Len(out) + Len(res) /\ ~(Len(out') <= Len(out))
      /\ Len(out') - Len(out) = Len(res)
  BY <1>2, <1>3
<1> QED
  BY <1>2, <1>3, <1>4

\* So it is not lost when it is shown in another way.
LEMMA ShownIsNotLost ==
  ASSUME ConvInv, pos \in 1..Len(stream), NEW how \in {"same", "frames", "h2", "decoded", "raw"},
         Finish(<<Shown(how)>>)
  PROVE  ~Lost
<1>1. <<Shown(how)>> \in Seq(OutChunk)
  BY OneShown DEF ConvInv
<1>2. Len(<<Shown(how)>>) = 1 /\ <<Shown(how)>>[1].how = how
  BY DEF Shown
<1> QED
  BY <1>1, <1>2, LostByItsEnd

\* A frame over which a chunk is lost was spoilt by its side.
LEMMA LostOverHttp2 ==
  ASSUME ConvInv, HandleH2Frame, Lost
  PROVE  ItsSideIsBad
<1>1. /\ pc = "h2" /\ pos \in 1..Len(stream) /\ Len(stream) \in Nat /\ class \in Http2
      /\ chunk.from \in Sides /\ backlog[chunk.from] # << >>
      /\ backlog[chunk.from] \in Seq(H2Frame) /\ FromStream(pos, chunk.from, backlog[chunk.from])
  <2>1. pc = "h2" /\ pos \in 1..Len(stream) /\ Len(stream) \in Nat /\ class \in Http2
    BY DEF HandleH2Frame, ConvInv, PlaceInv, TypeOK, ClassInv
  <2>2. chunk.from \in Sides
    BY <2>1, ChunkInHand DEF ConvInv
  <2> QED
    BY <2>1, <2>2 DEF HandleH2Frame, ConvInv, TypeOK, ShownInv
<1>2. PICK f : f = Head(backlog[chunk.from])
  OBVIOUS
<1>3. CameFrom(pos, chunk.from, f)
  <2>1. PICK frames : frames = backlog[chunk.from]
    OBVIOUS
  <2>2. frames \in Seq(H2Frame) /\ frames # << >> /\ FromStream(pos, chunk.from, frames)
    BY <1>1, <2>1
  <2> QED
    BY <1>2, <2>1, <2>2, HeadAndTail
<1>4. CASE Unreadable(f)
  <2>1. PICK i \in 1..pos : stream[i].from = chunk.from /\ CameWith(f, i)
    BY <1>3 DEF CameFrom
  <2>2. Spoils(i)
    BY <1>4, <2>1 DEF CameWith, Spoils
  <2>3. pc' = "failed" => class \in {"http2", "grpc"} /\ chunk.from = "c"
    BY <1>1, <1>2 DEF HandleH2Frame, Raised, Finish, Http2, Sides
  <2> QED
    BY <1>1, <2>1, <2>2, <2>3 DEF ItsSideIsBad
<1>5. CASE ~Unreadable(f)
  <2>1. out' = out /\ pc' = pc
    BY <1>1, <1>2, <1>5 DEF HandleH2Frame, Unreadable, ExtendedConnect
  <2>2. Len(out) \in Nat
    BY LenProperties DEF ConvInv, TypeOK
  <2> QED
    BY <1>1, <2>1, <2>2 DEF Lost
<1> QED
  BY <1>4, <1>5

\* A chunk of HTTP/1 that is lost asks for another protocol or cannot be read.
LEMMA LostInHttp1 ==
  ASSUME ConvInv, Http1, Lost,
         \/ RequestRefused \/ WebsocketRequest \/ UpgradeRequest \/ PlainRequest
         \/ ResponseRefused \/ WebsocketResponse \/ UpgradeResponse \/ PlainResponse
  PROVE  ItsSideIsBad
<1>1. /\ pos \in 1..Len(stream) /\ pc = "chunk" /\ class \in Http
      /\ ~(class \in Http2 /\ chunk.from = "c" /\ chunk.http = "preface")
  BY InHttp1 DEF Http1
<1>2. chunk.up \in {"absent", "none", "websocket", "h2c"} /\ (Up # "none" => chunk.up = Up)
  BY <1>1, ChunkInHand DEF Up, ConvInv, Chunk
<1>3. ASSUME pc' # "failed",
             /\ chunk.from = "c" /\ chunk.http = "request" => chunk.up # "none"
             /\ chunk.from = "s" /\ chunk.http = "response" /\ chunk.sound => chunk.up # "none"
      PROVE  ItsSideIsBad
  BY <1>1, <1>3 DEF ItsSideIsBad
<1>4. CASE RequestRefused
  BY <1>2, <1>3, <1>4 DEF RequestRefused, Finish
<1>5. CASE WebsocketRequest \/ UpgradeRequest
  BY <1>2, <1>3, <1>5 DEF WebsocketRequest, UpgradeRequest, Finish
<1>6. CASE PlainRequest
  BY <1>1, <1>6, ShownIsNotLost DEF PlainRequest, Same, Shown
<1>7. CASE ResponseRefused
  BY <1>2, <1>3, <1>7 DEF ResponseRefused, Finish
<1>8. CASE WebsocketResponse
  BY <1>2, <1>3, <1>8 DEF WebsocketResponse, GrantsWebsocket, Finish
<1>9. CASE UpgradeResponse
  BY <1>2, <1>3, <1>9 DEF UpgradeResponse
<1>10. CASE PlainResponse
  BY <1>1, <1>10, ShownIsNotLost DEF PlainResponse
<1> QED
  BY <1>4, <1>5, <1>6, <1>7, <1>8, <1>9, <1>10

\* So do frames of a websocket, unless they are compressed.
LEMMA LostInFrames ==
  ASSUME ConvInv, Lost,
         StubFrame \/ RefuseFrame \/ RepeatFrame \/ InflateFails \/ ShowFrame \/ FramesDone
  PROVE  ItsSideIsBad
<1>1. pc = "ws" /\ pos \in 1..Len(stream) /\ todo \in Seq(WsFrame) /\ FromChunk(todo)
      /\ Len(out) \in Nat
  <2>1. pc = "ws" /\ Len(out) \in Nat
    BY LenProperties DEF StubFrame, RefuseFrame, RepeatFrame, InflateFails, ShowFrame, FramesDone,
                         ConvInv, TypeOK
  <2> QED
    BY <2>1, InFrames
<1>2. CASE StubFrame
  <2>1. todo # << >> /\ Head(todo).op = "stub" /\ pc' = "chunk"
    BY <1>2 DEF StubFrame, Finish
  <2>2. 1 \in 1..Len(todo) /\ Head(todo) = todo[1]
    BY <1>1, <2>1, EmptySeq, LenProperties, HeadTailProperties
  <2> QED
    BY <1>1, <2>1, <2>2 DEF ItsSideIsBad, FromChunk
<1>3. CASE RefuseFrame \/ InflateFails
  BY <1>1, <1>3 DEF RefuseFrame, InflateFails, Refused, Inflated, Compressed, Finish, ItsSideIsBad
<1>4. CASE RepeatFrame \/ ShowFrame
  BY <1>1, <1>4 DEF RepeatFrame, ShowFrame, Lost
<1>5. CASE FramesDone
  BY <1>1, <1>5, ShownIsNotLost DEF FramesDone
<1> QED
  BY <1>2, <1>3, <1>4, <1>5

\* The plain classes lose nothing, and what HTTP/2 has read is shown.
LEMMA ElsewhereNotLost ==
  ASSUME ConvInv, ReadStream \/ RawFrames \/ BufferEmpty \/ ConvertChunk \/ Answer \/ Kill
  PROVE  ~Lost
<1>1. Len(out) \in Nat
  BY LenProperties DEF ConvInv, TypeOK
<1>2. CASE ReadStream \/ RawFrames
  BY <1>1, <1>2 DEF ReadStream, RawFrames, Lost
<1>3. CASE Answer \/ Kill
  <2>1. pc' = "read" /\ Len(out') = 0
    BY <1>3 DEF Answer, Kill, Forget
  <2> QED
    BY <1>1, <2>1 DEF Lost
<1>4. CASE BufferEmpty
  <2>1. events \in Seq(Event) /\ Finish(events)
    BY <1>4 DEF BufferEmpty, ConvInv, TypeOK, Event
  <2>2. Event \subseteq OutChunk
    BY DEF Event, OutChunk
  <2>3. events \in Seq(OutChunk)
    BY <2>1, <2>2, SeqWider
  <2>4. \A e \in Event : e.how # "error"
    BY DEF Event
  <2>5. \A i \in 1..Len(events) : events[i] \in Event
    BY <2>1, ElementOfSeq
  <2> QED
    BY <2>1, <2>3, <2>4, <2>5, LostByItsEnd
<1>5. CASE ConvertChunk
  <2>1. PICK res \in Seq(OutChunk) : /\ Finish(res)
                                     /\ \A i \in 1..Len(res) : res[i].how # "error"
    BY <1>5, ChunkDecodes
  <2> QED
    BY <2>1, LostByItsEnd
<1> QED
  BY <1>2, <1>3, <1>4, <1>5

LEMMA LostStep ==
  ASSUME ConvInv, Next, Lost
  PROVE  ItsSideIsBad
<1>1. CASE RawHttp2
  <2>1. pc = "chunk" /\ Len(out) \in Nat
    BY <1>1, LenProperties DEF RawHttp2, ConvInv, TypeOK
  <2>2. py.h2_active /\ chunk.http # "preface" /\ pc' = "chunk"
    BY <1>1, <2>1 DEF RawHttp2, Finish, Lost
  <2> QED
    BY <2>1, <2>2 DEF ItsSideIsBad
<1>2. CASE \/ RequestRefused \/ WebsocketRequest \/ UpgradeRequest \/ PlainRequest
           \/ ResponseRefused \/ WebsocketResponse \/ UpgradeResponse \/ PlainResponse
  <2>1. Http1
    BY <1>2 DEF RequestRefused, WebsocketRequest, UpgradeRequest, PlainRequest,
                ResponseRefused, WebsocketResponse, UpgradeResponse, PlainResponse
  <2> QED
    BY <1>2, <2>1, LostInHttp1
<1>3. CASE HandleH2Frame
  BY <1>3, LostOverHttp2
<1>4. CASE StubFrame \/ RefuseFrame \/ RepeatFrame \/ InflateFails \/ ShowFrame \/ FramesDone
  BY <1>4, LostInFrames
<1>5. CASE ReadStream \/ RawFrames \/ BufferEmpty \/ ConvertChunk \/ Answer \/ Kill
  BY <1>5, ElsewhereNotLost
<1> QED
  BY <1>1, <1>2, <1>3, <1>4, <1>5 DEF Next, Handle

\* A chunk is lost only for what its own side has sent in this stream: bytes that stay in the
\* HTTP/2 buffer of that side, a byte left over behind websocket frames, a message of HTTP/1 that
\* cannot be read or asks for another protocol; and a stream is given up as a whole only by http2
\* and grpc, over what a client sent as HTTP/2 (http_gzip.py, http2.py, websockets.py).
THEOREM TheRestIsShown == Spec => BadBytesCostTheirSide
<1>1. ConvInv /\ [Next]_vars => [Lost => ItsSideIsBad]_vars
  BY LostStep
<1> QED
  BY <1>1, SpecConv, PTL DEF Spec, BadBytesCostTheirSide

================================================================================
