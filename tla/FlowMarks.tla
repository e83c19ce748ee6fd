------------------------------- MODULE FlowMarks -------------------------------
(***************************************************************************)
(* What the enricher (cmd/enricher/main.go) promises to those who read the *)
(* flow table, without its offset, its scans, its workers and its restarts.*)
(*                                                                         *)
(* A flow is stored with the tag of its protocol.  Afterwards its columns  *)
(* are sets that only grow, by all the tags or by the signature of one     *)
(* line at a time, a complete line of eve.json that is about this flow.    *)
(* Enricher implements this specification.                                 *)
(***************************************************************************)
EXTENDS Naturals

CONSTANTS Flows,        \* flows the assembler may store
          FlowTag,      \* the tag every flow is stored with
          About,        \* About[n]: the flows line n is about
          TagsIn,       \* TagsIn[n]: the tags line n asks for
          SignaturesIn  \* SignaturesIn[n]: the signature line n asks for, if any

VARIABLES written,      \* complete lines of eve.json
          stored,       \* flows with a row in the flow table
          tagsOf,       \* tagsOf[f]: the tags a reader finds in that row
          signaturesOf  \* signaturesOf[f]: its signatures

marksVars == <<written, stored, tagsOf, signaturesOf>>

MarksInit == /\ written = 0 /\ stored = {}
             /\ tagsOf = [f \in Flows |-> {}]
             /\ signaturesOf = [f \in Flows |-> {}]

Write == /\ written + 1 \in DOMAIN About
         /\ written' = written + 1
         /\ UNCHANGED <<stored, tagsOf, signaturesOf>>

Store(f) == /\ f \notin stored
            /\ stored' = stored \cup {f}
            /\ tagsOf' = [tagsOf EXCEPT ![f] = {FlowTag}]
            /\ UNCHANGED <<written, signaturesOf>>

\* FlowAddTags for line n: its tags get to a row together.
AddTags(f, n) == /\ f \in stored \cap About[n]
                 /\ tagsOf' = [tagsOf EXCEPT ![f] = @ \cup TagsIn[n]]
                 /\ UNCHANGED <<written, stored, signaturesOf>>

\* FlowAddSignatures for line n.
AddSignature(f, n) == /\ f \in stored \cap About[n]
                      /\ SignaturesIn[n] # {}
                      /\ signaturesOf' = [signaturesOf EXCEPT ![f] = @ \cup SignaturesIn[n]]
                      /\ UNCHANGED <<written, stored, tagsOf>>

MarksNext == \/ Write
             \/ \E f \in Flows : \/ Store(f)
                                 \/ \E n \in 1 .. written : AddTags(f, n) \/ AddSignature(f, n)

MarksSpec == MarksInit /\ [][MarksNext]_marksVars
================================================================================
