------------------------------- MODULE Converters -------------------------------
(***************************************************************************)
(* One converter process (go-importer/converters): the loop of             *)
(* helpers.Converter.run, which answers each stream it reads with one list *)
(* of chunks, and the classes that are stacked on one another to convert   *)
(* HTTP: HTTPConverter (http_gzip.py), HTTP2Converter (http2.py), and on   *)
(* top of it WebsocketConverter (websockets.py) or GRPCConverter           *)
(* (grpc.py); and the classes that turn each chunk by itself into what it  *)
(* decodes to.  The object outlives the streams: what a stream leaves in   *)
(* its attributes must not show in the next.                               *)
(*                                                                         *)
(* A chunk is given by what its bytes are to each parser: as HTTP/1 (http, *)
(* up, valid, sound, deflate), as websocket frames (ws), as HTTP/2 frames  *)
(* (h2).                                                                   *)
(* A frame whose handling leaves the frame at the head of the loop is      *)
(* handled again, as in the code.  The caller (internal/converters) kills  *)
(* and replaces a process that has not answered in time.                   *)
(***************************************************************************)
EXTENDS Naturals, Sequences

CONSTANTS Streams,      \* streams the process may be given, each a sequence of chunks
          StreamIds,    \* HTTP/2 stream identifiers
          MaxStreams,   \* bound: streams one process is given
          MaxKills,     \* bound: times the caller replaces the process
          MaxKept       \* bound: fragments kept of one message

Http2 == {"http2", "websocket", "grpc"}
Http == {"http"} \cup Http2
Plain == {"tls", "dns", "protobuf", "b64decode", "quic"}
Classes == Http \cup Plain
Sides == {"c", "s"}

\* A websocket frame: a control frame, the first frame of a message, a continuation, or a
\* single byte that is left of the chunk.  sound: its data can be decompressed.
WsFrame == [op : {"control", "first", "cont", "stub"}, fin : BOOLEAN, rsv1 : BOOLEAN,
            sound : BOOLEAN]

\* An HTTP/2 frame, a header block with its continuations being one.  broken: the buffer
\* cannot take it; on: SETTINGS that enable the extended CONNECT; request: HEADERS with
\* pseudo headers; decodes: HEADERS that HPACK can decode; ctype: what content-type they
\* announce; parses: DATA that reads as one gRPC message.  DATA is never empty.
H2Frame == [type : {"settings", "headers", "data", "broken"}, id : StreamIds, on : BOOLEAN,
            request : BOOLEAN, decodes : BOOLEAN, ctype : {"none", "grpc", "other"},
            parses : BOOLEAN]

\* up: the protocol the message's Connection and Upgrade fields name, "absent" when a request
\* has no Connection field, or a response that switches protocols lacks one of them.  valid:
\* the key (the settings, for HTTP/2) of the request to upgrade: not there, usable or not; and
\* of a response whether it has the right answer to the key.  sound: a response's body and the
\* parameters of its extension can be read.  packets: the QUIC packets in it.
Chunk == [from : Sides, http : {"request", "response", "preface", "none"},
          up : {"absent", "none", "websocket", "h2c"}, valid : {"none", "good", "bad"},
          sound : BOOLEAN, deflate : BOOLEAN,
          ws : Seq(WsFrame), h2 : Seq(H2Frame), packets : 0..2]

ASSUME ConvertersAssumption == /\ Streams \subseteq Seq(Chunk) /\ StreamIds # {}
                               /\ MaxStreams \in Nat /\ MaxKills \in Nat /\ MaxKept \in Nat

VARIABLES class,    \* the converter this process runs
          pc,       \* where run is
          stream,   \* stream.Chunks, in the order they are handled
          swapped,  \* whether the first two were exchanged
          pos,      \* the chunk in hand
          todo,     \* websocket frames left of it
          backlog,  \* HTTP/2 frames left in the buffer of each side
          events,   \* what the chunk in hand has been turned into so far
          out,      \* result_data
          py,       \* the attributes of the converter object
          answer,   \* what the last stream was answered with
          streams,  \* streams given to the process
          kills     \* times the process was replaced

vars == <<class, pc, stream, swapped, pos, todo, backlog, events, out, py, answer, streams, kills>>

\* h2_active, the preamble the server-side buffer is at ("none": no buffers), then
\* websocket_key, switched_protocols, websocket_deflate, the fragments (a dict with one
\* entry until the first error, a list afterwards) and how many are kept, the sides of
\* which a compressed message was passed over, websocket_enable_connect_protocol, the
\* streams and sides that announced gRPC, _stream_responded_grpc_once.
Attributes == [h2_active : BOOLEAN, buffer : {"none", "fresh", "ready"}, key : BOOLEAN,
               switched : BOOLEAN, deflate : BOOLEAN, frags : {"dict", "list"},
               kept : Nat, missed : SUBSET Sides, connect : BOOLEAN,
               grpc : SUBSET (StreamIds \X Sides), responded : BOOLEAN]

NewObject == [h2_active |-> FALSE, buffer |-> "none", key |-> FALSE, switched |-> FALSE,
              deflate |-> FALSE, frags |-> "dict", kept |-> 0, missed |-> {}, connect |-> FALSE,
              grpc |-> {}, responded |-> FALSE]

\* What each handle_stream takes back before it turns to the chunks.
Http2Reset(p) == [p EXCEPT !.h2_active = FALSE, !.buffer = "none"]

\* A reset that would forget to take the protocol back.
WebsocketResetKeepsSwitched(p) ==
    [p EXCEPT !.key = FALSE, !.connect = FALSE, !.deflate = FALSE,
              !.frags = "dict", !.kept = 0, !.missed = {}]

WebsocketReset(p) ==
    [p EXCEPT !.key = FALSE, !.switched = FALSE, !.connect = FALSE, !.deflate = FALSE,
              !.frags = "dict", !.kept = 0, !.missed = {}]

GrpcReset(p) == [p EXCEPT !.grpc = {}, !.responded = FALSE]

\* The attributes p when another stream is begun.
ResetAttributes(p) == CASE class = "http2" -> Http2Reset(p)
                        [] class = "websocket" -> Http2Reset(WebsocketReset(p))
                        [] class = "grpc" -> Http2Reset(GrpcReset(p))
                        [] OTHER -> p

\* A stream whose server seems to have spoken first is read with two chunks exchanged.
FromServer(s) == class \in Http2 /\ Len(s) > 1 /\ s[1].from = "s"
Exchanged(s) == <<s[2], s[1]>> \o SubSeq(s, 3, Len(s))

Init == /\ class \in Classes
        /\ pc = "read"
        /\ stream = << >> /\ swapped = FALSE /\ pos = 0
        /\ todo = << >> /\ backlog = [s \in Sides |-> << >>]
        /\ events = << >> /\ out = << >>
        /\ py = NewObject
        /\ answer = "none" /\ streams = 0 /\ kills = 0

chunk == stream[pos]
fixed == <<class, stream, swapped, answer, streams, kills>>

\* The chunk has been turned into res, the list handle_stream adds to its result.
Finish(res) == /\ out' = out \o res
               /\ pos' = pos + 1
               /\ todo' = << >> /\ events' = << >>
               /\ pc' = "chunk"

Same == [from |-> chunk.from, how |-> "same"]
Error == [from |-> chunk.from, how |-> "error"]
Shown(how) == [from |-> chunk.from, how |-> how]

\* An exception that is not an H2Error.  WebsocketConverter turns it into a chunk, and so
\* does HTTPConverter for the server's chunks; from a client's chunk of the other classes
\* it reaches run, which gives the stream up.
Raised == IF class = "websocket" \/ chunk.from = "s"
            THEN Finish(<<Error>>)
            ELSE /\ pc' = "failed"
                 /\ UNCHANGED <<pos, todo, events, out>>

\* What a buffer of h2 makes of a preface it does not expect: the header of a frame that is
\* longer than any.
NoFrame == [type |-> "broken", id |-> CHOOSE id \in StreamIds : TRUE, on |-> FALSE,
            request |-> FALSE, decodes |-> FALSE, ctype |-> "none", parses |-> FALSE]

\* The frames the chunk adds: only the client's buffer takes a preface off, and only once.
Frames == IF chunk.http = "preface" /\ (chunk.from = "s" \/ py.buffer = "ready")
            THEN <<NoFrame>> \o chunk.h2 ELSE chunk.h2

\* One buffer for both directions.
BufferedForBoth(frames) == [s \in Sides |-> backlog[s] \o frames]

\* The buffers after frames were added on the side of the chunk in hand.
Buffered(frames) == [backlog EXCEPT ![chunk.from] = backlog[chunk.from] \o frames]
--------------------------------------------------------------------------------
\* run reads a stream; HTTP2Converter exchanges the first two chunks if the server's is first.
ReadStream ==
    /\ pc = "read" /\ streams < MaxStreams
    /\ \E s \in Streams : /\ swapped' = FromServer(s)
                          /\ stream' = IF FromServer(s) THEN Exchanged(s) ELSE s
    /\ streams' = streams + 1
    /\ pos' = 1 /\ pc' = "chunk" /\ answer' = "none"
    /\ py' = ResetAttributes(py)
    /\ UNCHANGED <<class, todo, backlog, events, out, kills>>

\* switched_protocols: the chunk is websocket frames.
RawFrames == /\ pc = "chunk" /\ pos <= Len(stream)
             /\ py.switched
             /\ todo' = chunk.ws /\ pc' = "ws"
             /\ UNCHANGED <<fixed, pos, backlog, events, out, py>>

\* HTTP/2: a preface begins it, whatever came before; later chunks are added to the buffer
\* of their side, which for the client's demands the preface first.
RawHttp2 ==
    /\ pc = "chunk" /\ pos <= Len(stream) /\ class \in Http2
    /\ ~py.switched
    /\ \/ /\ ~py.h2_active /\ chunk.from = "c" /\ chunk.http = "preface"
          /\ py' = [py EXCEPT !.h2_active = TRUE, !.buffer = "ready"]
          /\ backlog' = [s \in Sides |-> IF s = "c" THEN chunk.h2 ELSE << >>]
          /\ pc' = "h2"
          /\ UNCHANGED <<pos, todo, events, out>>
       \/ /\ py.h2_active
          /\ \/ chunk.from = "s" \/ py.buffer = "ready" \/ chunk.http = "preface"
          /\ py' = [py EXCEPT !.buffer = IF chunk.from = "c" THEN "ready" ELSE py.buffer]
          /\ backlog' = Buffered(Frames)
          /\ pc' = "h2"
          /\ UNCHANGED <<pos, todo, events, out>>
       \/ /\ py.h2_active /\ chunk.from = "c" /\ py.buffer # "ready" /\ chunk.http # "preface"
          /\ Finish(<<Error>>)
          /\ UNCHANGED <<py, backlog>>
    /\ UNCHANGED fixed

Http1 == /\ pc = "chunk" /\ pos <= Len(stream) /\ class \in Http
         /\ ~py.switched /\ ~py.h2_active
         /\ ~(class \in Http2 /\ chunk.from = "c" /\ chunk.http = "preface")

\* The protocol the message asks for, which HTTPConverter does not look at.
Up == IF class = "http" THEN "none" ELSE chunk.up

\* A client's chunk that is no request; the websocket class looks into the Connection field
\* without asking whether it is there.
RequestRefused ==
    /\ Http1 /\ chunk.from = "c"
    /\ chunk.http # "request" \/ (class = "websocket" /\ Up = "absent")
    /\ Finish(<<Error>>)
    /\ UNCHANGED <<fixed, py, backlog>>

\* The key is kept, an empty one in the place of another.
WebsocketRequest ==
    /\ Http1 /\ chunk.from = "c" /\ chunk.http = "request"
    /\ class = "websocket" /\ Up = "websocket"
    /\ Finish(<<IF chunk.valid = "none" THEN Error ELSE Same>>)
    /\ py' = [py EXCEPT !.key = chunk.valid = "good" \/ (chunk.valid = "none" /\ py.key)]
    /\ UNCHANGED <<fixed, backlog>>

\* handle_http2_upgrade: new buffers, and the settings in the request as a frame, unless
\* they cannot be read.
UpgradeRequest ==
    /\ Http1 /\ chunk.from = "c" /\ chunk.http = "request" /\ Up = "h2c"
    /\ Finish(CASE chunk.valid = "none" -> <<Same>>
                [] chunk.valid = "good" -> <<Same, Shown("h2")>>
                [] chunk.valid = "bad" -> <<Error>>)
    /\ py' = [py EXCEPT !.buffer = "fresh"]
    /\ backlog' = [s \in Sides |-> << >>]
    /\ UNCHANGED fixed

PlainRequest ==
    /\ Http1 /\ chunk.from = "c" /\ chunk.http = "request" /\ Up # "h2c"
    /\ class = "websocket" => Up = "none"
    /\ Finish(<<Same>>)
    /\ UNCHANGED <<fixed, py, backlog>>

\* The answer to a handshake with the key this stream's client sent.
GrantsWebsocket == class = "websocket" /\ Up = "websocket" /\ py.key /\ chunk.valid = "good"

\* A server's chunk that is no response, the answer to a handshake nobody began or with
\* the wrong key, an upgrade nobody asked for, one that lacks a field the websocket class
\* looks into, and a body that cannot be read.
ResponseRefused ==
    /\ Http1 /\ chunk.from = "s"
    /\ \/ chunk.http # "response"
       \/ class = "websocket" /\ Up \in {"absent", "websocket"} /\ ~GrantsWebsocket
       \/ Up = "h2c" /\ py.buffer = "none"
       \/ ~chunk.sound /\ ~GrantsWebsocket
    /\ Finish(<<Error>>)
    /\ UNCHANGED <<fixed, py, backlog>>

\* The protocol is switched, before the parameters of the extension and the body are looked
\* at.  What follows the header are frames already; if they or the parameters cannot be read,
\* the decompressors of what comes next are missing or have passed over a message.
WebsocketResponse ==
    /\ Http1 /\ chunk.from = "s" /\ chunk.http = "response" /\ GrantsWebsocket
    /\ py' = [py EXCEPT !.switched = TRUE, !.deflate = chunk.deflate,
                        !.missed = IF chunk.sound THEN py.missed ELSE Sides]
    /\ \/ /\ chunk.sound
          /\ todo' = chunk.ws /\ pc' = "ws"
          /\ UNCHANGED <<pos, events, out>>
       \/ /\ ~chunk.sound
          /\ Finish(<<Error>>)
    /\ UNCHANGED <<fixed, backlog>>

\* What follows the header of the response is HTTP/2.
UpgradeResponse ==
    /\ Http1 /\ chunk.from = "s" /\ chunk.http = "response" /\ chunk.sound
    /\ Up = "h2c" /\ py.buffer # "none"
    /\ py' = [py EXCEPT !.h2_active = TRUE]
    /\ backlog' = Buffered(chunk.h2)
    /\ events' = <<Shown("same")>> /\ pc' = "h2"
    /\ UNCHANGED <<fixed, pos, todo, out>>

\* Any other response is shown with its body decompressed.
PlainResponse ==
    /\ Http1 /\ chunk.from = "s" /\ chunk.http = "response" /\ chunk.sound /\ Up # "h2c"
    /\ class = "websocket" => Up = "none"
    /\ \E how \in {"same", "decoded"} : Finish(<<Shown(how)>>)
    /\ UNCHANGED <<fixed, py, backlog>>
--------------------------------------------------------------------------------
\* GRPCConverter.handle_http2_event looks at a DATA frame as gRPC unless its stream and
\* side did not announce it, the frame is the server's, and no response was gRPC yet.
LooksAsGrpc(id, side) == ~(/\ <<id, side>> \notin py.grpc
                           /\ side = "s" /\ ~py.responded)

\* The attributes after GRPCConverter.handle_http2_headers.
GrpcHeaders(f, side) ==
    LET now == IF f.ctype = "grpc" THEN py.grpc \cup {<<f.id, side>>}
               ELSE IF f.ctype = "other" THEN py.grpc \ {<<f.id, side>>} ELSE py.grpc
    IN  [py EXCEPT !.grpc = now,
                   !.responded = py.responded \/ (side = "s" /\ <<f.id, side>> \in now)]

\* GRPCConverter.handle_http2_event: how a frame is shown.
GrpcEvent(f) == IF f.type # "data" \/ ~LooksAsGrpc(f.id, chunk.from) THEN "h2"
                ELSE IF f.parses THEN "grpc" ELSE "notGrpc"

\* WebsocketConverter.handle_http2_headers: it calls decode on header values that are text.
ExtendedConnect(f) == py.connect /\ chunk.from = "c" /\ f.request

\* WebsocketConverter.handle_http2_event: the attributes after a server's settings.
WebsocketSettings(f) == [py EXCEPT !.connect = @ \/ (f.on /\ chunk.from = "s")]

\* One round of the loop over a buffer: a frame leaves it, whatever becomes of it, unless the
\* buffer cannot take it.  Such a frame is refused, or the rest of it is waited for, as the
\* library has it; it stays where it is, and what is behind it is never seen.
HandleH2Frame ==
    /\ pc = "h2" /\ backlog[chunk.from] # << >>
    /\ LET f == Head(backlog[chunk.from])
           fails == f.type = "headers"
                      /\ (~f.decodes \/ (class = "websocket" /\ ExtendedConnect(f)))
       IN  /\ backlog' = IF f.type = "broken" THEN backlog
                         ELSE [backlog EXCEPT ![chunk.from] = Tail(backlog[chunk.from])]
           /\ \/ /\ f.type = "broken"
                 /\ Finish(<<Error>>) \/ Finish(events)    \* H2Error, or the loop just ends
                 /\ UNCHANGED py
              \/ /\ fails
                 /\ Raised
                 /\ UNCHANGED py
              \/ /\ f.type # "broken" /\ ~fails
                 /\ events' = Append(events, Shown(IF class = "grpc" THEN GrpcEvent(f) ELSE "h2"))
                 /\ py' = CASE f.type = "settings" /\ class = "websocket" -> WebsocketSettings(f)
                            [] f.type = "headers" /\ class = "grpc" -> GrpcHeaders(f, chunk.from)
                            [] OTHER -> py
                 /\ UNCHANGED <<pc, pos, todo, out>>
    /\ UNCHANGED fixed

BufferEmpty == /\ pc = "h2" /\ backlog[chunk.from] = << >>
               /\ Finish(events)
               /\ UNCHANGED <<fixed, backlog, py>>

\* What handle_websocket_permessage_deflate makes of the frame at the head.
Compressed(f) == py.deflate /\ f.op \in {"first", "cont"}
Refused(f) == Compressed(f) /\ (IF f.fin THEN py.frags = "dict" /\ f.op # "cont"
                                ELSE py.frags = "list" \/ f.op # "cont")
Again(f) == Compressed(f) /\ ~f.fin /\ ~Refused(f)
Inflated(f) == Compressed(f) /\ f.fin /\ f.rsv1 /\ ~Refused(f)

\* The second byte of a frame is looked at without asking whether it is there.
StubFrame ==
    /\ pc = "ws" /\ todo # << >> /\ Head(todo).op = "stub"
    /\ Finish(<<Error>>)
    /\ UNCHANGED <<fixed, backlog, py>>

\* An exception: the rest of the chunk is lost, and the dict of fragments becomes a list.
RefuseFrame ==
    /\ pc = "ws" /\ todo # << >> /\ Refused(Head(todo))
    /\ py' = [py EXCEPT !.frags = "list", !.kept = 0,
                        !.missed = py.missed \cup {chunk.from}]
    /\ Finish(<<Error>>)
    /\ UNCHANGED <<fixed, backlog>>

\* None is returned, and the loop goes on with the same frame.
RepeatFrame ==
    /\ pc = "ws" /\ todo # << >> /\ Again(Head(todo))
    /\ py' = [py EXCEPT !.kept = IF py.kept < MaxKept THEN py.kept + 1 ELSE py.kept]
    /\ UNCHANGED <<fixed, pc, pos, todo, backlog, events, out>>

\* The decompressor fails over data it cannot read, and may fail over others when it has
\* not seen an earlier message.
InflateFails ==
    /\ pc = "ws" /\ todo # << >> /\ Inflated(Head(todo))
    /\ ~Head(todo).sound \/ chunk.from \in py.missed
    /\ py' = [py EXCEPT !.frags = "list", !.kept = 0,
                        !.missed = py.missed \cup {chunk.from}]
    /\ Finish(<<Error>>)
    /\ UNCHANGED <<fixed, backlog>>

\* The frame is shown.
ShowFrame ==
    /\ pc = "ws" /\ todo # << >>
    /\ LET f == Head(todo)
       IN  /\ f.op # "stub" /\ ~Refused(f) /\ ~Again(f)
           /\ Inflated(f) => f.sound
           /\ py' = IF Compressed(f) THEN [py EXCEPT !.frags = "list", !.kept = 0] ELSE py
    /\ todo' = Tail(todo)
    /\ UNCHANGED <<fixed, pc, pos, backlog, events, out>>

FramesDone == /\ pc = "ws" /\ todo = << >>
              /\ Finish(<<Shown("frames")>>)
              /\ UNCHANGED <<fixed, backlog, py>>
--------------------------------------------------------------------------------
\* The plain classes: a chunk as it is shown, or the error and then the chunk as it was.
Decoded == {<<Shown("decoded")>>, <<Shown("raw")>>}

TLSConverter == Decoded
DNSConverter == Decoded
ProtobufConverter == Decoded
Base64DecodeConverter == {<<Shown("decoded")>>, <<Same>>}

\* One chunk for each packet up to the first that does not parse, with which the rest is shown.
QUICConverter ==
    {[i \in 1..n |-> Shown("decoded")] : n \in {chunk.packets}}
        \cup {[i \in 1..n |-> Shown(IF i = n THEN "raw" ELSE "decoded")] : n \in 1..chunk.packets}

ConvertChunk ==
    /\ pc = "chunk" /\ pos <= Len(stream) /\ class \in Plain
    /\ \E res \in CASE class = "tls" -> TLSConverter [] class = "dns" -> DNSConverter
                   [] class = "protobuf" -> ProtobufConverter
                   [] class = "b64decode" -> Base64DecodeConverter
                   [] class = "quic" -> QUICConverter :
         Finish(res)
    /\ UNCHANGED <<fixed, backlog, py>>
--------------------------------------------------------------------------------
\* Forget of a loop that would count chunks across streams.
ForgetNotThePlace == /\ pc' = "read" /\ pos' = pos
                     /\ stream' = << >> /\ swapped' = FALSE
                     /\ todo' = << >> /\ backlog' = [s \in Sides |-> << >>]
                     /\ events' = << >> /\ out' = << >>

\* What is local to handle_stream and the buffers it makes, when it is over.
Forget == /\ pc' = "read" /\ pos' = 0
          /\ stream' = << >> /\ swapped' = FALSE
          /\ todo' = << >> /\ backlog' = [s \in Sides |-> << >>]
          /\ events' = << >> /\ out' = << >>

\* A run that answers only when it has something to show.
AnswerUnlessNothing == /\ pc = "chunk" /\ pos > Len(stream) /\ out # << >>
                       /\ answer' = "shown"
                       /\ Forget
                       /\ UNCHANGED <<class, py, streams, kills>>

\* The answer: nothing when as many chunks come out as went in, and of the same lengths,
\* as they are when nothing was changed and may be otherwise.
Answer == /\ \/ pc = "chunk" /\ pos > Len(stream)
             \/ pc = "failed"
          /\ answer' \in IF pc = "failed" THEN {"failed"}
                         ELSE IF Len(out) # Len(stream) THEN {"shown"}
                         ELSE IF ~swapped /\ \A i \in 1..Len(out) : out[i].how = "same"
                           THEN {"unchanged"} ELSE {"unchanged", "shown"}
          /\ Forget
          /\ UNCHANGED <<class, py, streams, kills>>

\* The caller's time-out: the process is killed, and a new one reads the next stream.
Kill == /\ kills < MaxKills /\ pc # "read"
        /\ kills' = kills + 1
        /\ answer' = "none"
        /\ Forget
        /\ py' = NewObject
        /\ UNCHANGED <<class, streams>>

Handle == \/ RawFrames \/ RawHttp2
          \/ RequestRefused \/ WebsocketRequest \/ UpgradeRequest \/ PlainRequest
          \/ ResponseRefused \/ WebsocketResponse \/ UpgradeResponse \/ PlainResponse
          \/ HandleH2Frame \/ BufferEmpty
          \/ StubFrame \/ RefuseFrame \/ RepeatFrame \/ InflateFails \/ ShowFrame \/ FramesDone
          \/ ConvertChunk \/ Answer

Next == ReadStream \/ Handle \/ Kill

Spec == Init /\ [][Next]_vars

\* The process goes on with what it has read.
FairSpec == Spec /\ WF_vars(Handle)
--------------------------------------------------------------------------------
TypeOK == /\ class \in Classes
          /\ pc \in {"read", "chunk", "ws", "h2", "failed"}
          /\ stream \in Seq(Chunk) /\ pos \in 0..Len(stream) + 1
          /\ todo \in Seq(WsFrame) /\ backlog \in [Sides -> Seq(H2Frame)]
          /\ events \in Seq([from : Sides, how : {"same", "h2", "grpc", "notGrpc"}])
          /\ out \in Seq([from : Sides, how : {"same", "error", "frames", "h2", "grpc",
                                                      "notGrpc", "decoded", "raw"}])
          /\ py \in Attributes
          /\ answer \in {"none", "unchanged", "shown", "failed"}
          /\ streams \in 0..MaxStreams /\ kills \in 0..MaxKills /\ swapped \in BOOLEAN

\* No stream is read with what an earlier one left in the attributes: bytes are taken for
\* websocket frames only after the client of this stream asked for a websocket with a key
\* and the server granted it, for HTTP/2 only after this client's preface or a granted
\* upgrade, and a server's frames for gRPC only if this server announced it.
NothingFromEarlierStreams ==
    LET seen(side, kind, protocol, ok) ==
          {i \in 1..pos : /\ i <= Len(stream) /\ stream[i].from = side /\ stream[i].http = kind
                          /\ protocol = "any" \/ stream[i].up = protocol
                          /\ ok => stream[i].valid = "good"}
        granted(protocol, ok) == \E i \in seen("c", "request", protocol, ok) :
                                 \E j \in seen("s", "response", protocol, ok) : i < j
    IN  /\ pc = "ws" => granted("websocket", TRUE)
        /\ pc = "h2" => seen("c", "preface", "any", FALSE) # {} \/ granted("h2c", FALSE)
        /\ \A i \in 1..Len(out) : out[i].from = "s" /\ out[i].how \in {"grpc", "notGrpc"} =>
              \E j \in 1..Len(stream) : /\ stream[j].from = "s"
                                        /\ \E n \in 1..Len(stream[j].h2) :
                                              stream[j].h2[n].ctype = "grpc"

\* The step loses the chunk in hand: it is shown as an error, or the stream is given up.
Lost == \/ pc' = "failed"
        \/ Len(out') > Len(out) /\ out'[Len(out')].how = "error"

\* A preface that is not the first of a client.
Misplaced(i) == /\ stream[i].http = "preface"
                /\ \/ stream[i].from = "s"
                   \/ \E j \in 1..i - 1 : stream[j].from = "c" /\ stream[j].http = "preface"

\* A frame that is, or may become, an error.
Unreadable(f) == \/ f.type = "broken"
                 \/ f.type = "headers" /\ (~f.decodes \/ (class = "websocket" /\ f.request))

\* The chunk brings such a frame, or what is taken for one, to the buffer of its side.
Spoils(i) == Misplaced(i) \/ \E n \in 1..Len(stream[i].h2) : Unreadable(stream[i].h2[n])

\* What a chunk that is lost in this step may be lost for.
ItsSideIsBad ==
    /\ pc' = "failed" => class \in {"http2", "grpc"} /\ pc = "h2" /\ chunk.from = "c"
    /\ pc = "h2" => \E i \in 1..pos : stream[i].from = chunk.from /\ Spoils(i)
    /\ pc = "ws" /\ ~py.deflate => \E n \in 1..Len(chunk.ws) : chunk.ws[n].op = "stub"
    /\ pc = "chunk" /\ ~py.h2_active /\ chunk.up = "none" =>
          /\ ~(chunk.from = "c" /\ chunk.http = "request")
          /\ ~(chunk.from = "s" /\ chunk.http = "response" /\ chunk.sound)
    /\ pc = "chunk" => ~(chunk.from = "c" /\ chunk.http = "preface" /\ class \in Http2)

\* Only what a side has sent in this stream costs its chunks.  Of HTTP/2, every chunk behind
\* bad bytes may be lost, as they stay in the buffer, but only on their side; a stream is given
\* up only by HTTP2Converter and GRPCConverter and for what its client sends.  A chunk of
\* websocket frames that are not compressed is lost for a byte left over in it only (compressed
\* ones share their fragments, whatever the side).  A message of HTTP/1 that asks for no other
\* protocol and can be read is never lost, and a client's preface neither.
BadBytesCostTheirSide == [][Lost => ItsSideIsBad]_vars

\* A continuation without its beginning, in a compressed connection that has had no message.
Looping == pc = "ws" /\ todo # << >> /\ Again(Head(todo))

\* Every stream is answered, or its process is killed, unless the loop over the frames
\* has met such a continuation.
EveryStreamAnswered == pc # "read" ~> pc = "read" \/ Looping

\* The error of line 77 is for fragments that do not fit: a message that is whole, while no
\* fragment is kept, is not refused.
WholeMessagesPass ==
    [][RefuseFrame => ~(Head(todo).op = "first" /\ Head(todo).fin /\ py.kept = 0)]_vars
================================================================================
