------------------------------ MODULE MCConverters ------------------------------
(***************************************************************************)
(* Streams of up to three chunks: a client's opening, a server's answer to *)
(* it (the right one or another's), and what may follow; streams in which  *)
(* the server's first chunk is before the client's; and HTTP/2 in which    *)
(* the server's frames are bad before either side goes on.                 *)
(***************************************************************************)
EXTENDS Converters

Blank == [from |-> "c", http |-> "none", up |-> "none", valid |-> "none", sound |-> TRUE,
          deflate |-> FALSE, ws |-> << >>, h2 |-> << >>, packets |-> 1]
Answers(c) == [c EXCEPT !.from = "s"]

Frame(op, fin, rsv1) == [op |-> op, fin |-> fin, rsv1 |-> rsv1, sound |-> TRUE]
Whole == Frame("first", TRUE, TRUE)
Begin == Frame("first", FALSE, TRUE)
Middle == Frame("cont", FALSE, FALSE)
End == Frame("cont", TRUE, FALSE)
Ping == Frame("control", TRUE, FALSE)
Mangled == [Whole EXCEPT !.sound = FALSE]
Stub == Frame("stub", FALSE, FALSE)
WsChunks == {[Blank EXCEPT !.ws = w] : w \in {<<Whole>>, <<Ping, Whole, Whole>>, <<Begin, End>>,
                                              <<Middle, End>>, <<End, Whole>>,
                                              <<Mangled>>, <<Ping, Stub>>}}

H2(type, ctype) == [type |-> type, id |-> 1, on |-> type = "settings", request |-> type = "headers",
                    decodes |-> TRUE, ctype |-> ctype, parses |-> type = "data"]
Headers == H2("headers", "none")
GrpcHeader == H2("headers", "grpc")
Garbled == [Headers EXCEPT !.decodes = FALSE]
Data == H2("data", "none")
NoMessage == [Data EXCEPT !.parses = FALSE]
Broken == H2("broken", "none")
H2Chunks == {[Blank EXCEPT !.h2 = f, !.packets = 2] :
                f \in {<<GrpcHeader, Data>>, <<Headers, NoMessage>>, <<Garbled, Data>>, <<Broken, Data>>}}

Preface(f) == [Blank EXCEPT !.http = "preface", !.h2 = f]
Prefaces == {Preface(<<Headers, Data>>), Preface(<<GrpcHeader>>)}

Upgrade(protocol, valid) == [Blank EXCEPT !.http = "request", !.up = protocol, !.valid = valid]
Granted(protocol, valid, deflate, ws, h2) ==
    [from |-> "s", http |-> "response", up |-> protocol, valid |-> valid, sound |-> TRUE,
     deflate |-> deflate, ws |-> ws, h2 |-> h2, packets |-> 0]
Unsound(c) == [c EXCEPT !.sound = FALSE]

Openings == {Upgrade(p, v) : p \in {"websocket", "h2c"}, v \in {"none", "good", "bad"}}
              \cup {Upgrade(p, "none") : p \in {"none", "absent"}} \cup Prefaces
Grants == {Granted("websocket", "good", d, w, << >>) : d \in BOOLEAN, w \in {<< >>, <<Whole>>}}
            \cup {Granted("websocket", "bad", TRUE, << >>, << >>)}
            \cup {Granted("h2c", "none", FALSE, << >>, f) :
                     f \in {<< >>, <<H2("settings", "none"), GrpcHeader>>}}
            \cup {Unsound(Granted("websocket", "good", TRUE, << >>, << >>)),
                  Unsound(Granted("h2c", "none", FALSE, << >>, << >>))}
            \cup {Granted(p, "none", FALSE, << >>, << >>) : p \in {"none", "absent"}}
            \cup {Answers([Blank EXCEPT !.h2 = <<H2("settings", "none")>>])}
Followers == LET c == WsChunks \cup H2Chunks \cup {Preface(<<Data>>)} IN c \cup {Answers(k) : k \in c}

MCStreams == {<<a, b, c>> : a \in Openings, b \in Grants, c \in Followers}
               \cup {<<a, Answers(b), c>> : a \in Prefaces, b \in H2Chunks, c \in H2Chunks}
               \cup {<<b, a>> : a \in Openings, b \in Grants}
               \cup {<<a>> : a \in Openings \cup Grants} \cup {<< >>}
================================================================================
