------------------------------ MODULE BatchedTable ------------------------------
(***************************************************************************)
(* What a CopyBatcher promises to the code that pushes rows to it, without *)
(* its loop, its worker pool and its time-outs (batcher.go).               *)
(*                                                                         *)
(* A row that is pushed is settled together with other rows of the same    *)
(* table, in a group no larger than the batch size: the rows of a group    *)
(* are all stored or all lost.  Afterwards each pusher is told, once and   *)
(* on its own, what became of its row.  CopyBatcher implements this        *)
(* specification; FlowStore is built on it.                                *)
(***************************************************************************)
EXTENDS Naturals, FiniteSets

CONSTANTS Records,      \* the rows that may be pushed
          Table,        \* Table[r]: the table row r belongs to
          BatchSize     \* rows one COPY may hold

VARIABLES row,          \* what became of each row
          told          \* what the row's callback was given

tableVars == <<row, told>>

TableTypeOK == /\ row \in [Records -> {"idle", "pending", "stored", "failed"}]
               /\ told \in [Records -> {"nothing", "ok", "error"}]

TableInit == /\ row = [r \in Records |-> "idle"]
             /\ told = [r \in Records |-> "nothing"]

\* PushCallback has been called for r.
Submit(r) == /\ row[r] = "idle"
             /\ row' = [row EXCEPT ![r] = "pending"]
             /\ UNCHANGED told

\* One COPY ends: the rows S it holds share its outcome.
Settle(S, outcome) ==
    /\ S # {}
    /\ \A r \in S : row[r] = "pending"
    /\ \A r, q \in S : Table[r] = Table[q]
    /\ Cardinality(S) <= BatchSize
    /\ row' = [r \in Records |-> IF r \in S THEN outcome ELSE row[r]]
    /\ UNCHANGED told

\* The callback of r runs.
Tell(r) == /\ row[r] \in {"stored", "failed"}
           /\ told[r] = "nothing"
           /\ told' = [told EXCEPT ![r] = IF row[r] = "stored" THEN "ok" ELSE "error"]
           /\ UNCHANGED row

TableNext == \/ \E r \in Records : Submit(r) \/ Tell(r)
             \/ \E S \in SUBSET Records, outcome \in {"stored", "failed"} :
                    Settle(S, outcome)

TableSpec == TableInit /\ [][TableNext]_tableVars
================================================================================
