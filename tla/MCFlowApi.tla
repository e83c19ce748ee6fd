-------------------------------- MODULE MCFlowApi --------------------------------
(***************************************************************************)
(* Two flows, of two items and of one, that begin at the ends of ticks of  *)
(* two microseconds.                                                       *)
(***************************************************************************)
EXTENDS FlowApi

MCTime == [f \in Flows |-> IF f = "f1" THEN 2 ELSE 4]
MCItemTimes == [f \in Flows |-> IF f = "f1" THEN {2, 3} ELSE {4}]

Ask(op) == [op |-> op, regex |-> FALSE, refused |-> FALSE, bounded |-> FALSE, lo |-> 0, hi |-> 0,
            want |-> {}, avoid |-> {}, both |-> FALSE, flow |-> "f1", star |-> FALSE]
MCRequests ==
    {[Ask("query") EXCEPT !.regex = TRUE],
     [Ask("query") EXCEPT !.regex = TRUE, !.bounded = TRUE, !.lo = 2, !.hi = 3],
     [Ask("query") EXCEPT !.regex = TRUE, !.refused = TRUE],
     [Ask("query") EXCEPT !.want = {"flag-in", "starred"}, !.both = TRUE],
     Ask("detail"),
     [Ask("star") EXCEPT !.star = TRUE],
     [Ask("star") EXCEPT !.star = FALSE],
     [Ask("stats") EXCEPT !.lo = 1],
     [Ask("stats") EXCEPT !.hi = 6]}
================================================================================
