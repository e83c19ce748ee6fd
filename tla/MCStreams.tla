-------------------------------- MODULE MCStreams --------------------------------
(***************************************************************************)
(* One TCP connection; UDP packets of a conversation, their replies, and   *)
(* packets that exchange the ports but not the hosts.                      *)
(***************************************************************************)
EXTENDS Streams

Header(src, dst, sport, dport) == [src |-> src, dst |-> dst, sport |-> sport, dport |-> dport]

MCHeaders == {Header("a", "b", 1, 2), Header("b", "a", 2, 1), Header("a", "b", 3, 2)}
================================================================================
