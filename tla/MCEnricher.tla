------------------------------- MODULE MCEnricher -------------------------------
(***************************************************************************)
(* Two flows and three lines: an alert about flow "f", a line that is not *)
(* JSON, and a line without an alert whose ends are exchanged, that both   *)
(* flows match and whose flowbit is a tag nobody has listed.               *)
(***************************************************************************)
EXTENDS Enricher

MCFlows == {"f", "g"}
MCTags == {"tcp", "suricata", "blocked", "traversal"}
MCListedTags == {"tcp", "suricata", "blocked"}

Line(valid, action, metadata, bits, straight, swapped) ==
    [valid |-> valid, rule |-> "r", action |-> action, metadata |-> metadata,
     hasBits |-> bits # {}, bits |-> bits,
     match |-> [w \in Ways |-> IF w = "straight" THEN straight ELSE swapped]]

MCEve == << Line(TRUE, "allowed", {}, {}, {"f"}, {}),
            Line(FALSE, "", {}, {}, {}, {}),
            Line(TRUE, "", {}, {"traversal"}, {}, {"f", "g"}) >>
================================================================================
