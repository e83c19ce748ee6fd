------------------------------ MODULE MCCopyBatcher ------------------------------
(***************************************************************************)
(* Two batchers that share one worker, as flow, flow_item and flow_index do*)
(* on a machine with two or three CPUs (NumCPU / 2 workers): the smallest  *)
(* instance in which a batch waits for the batch of another table.  With   *)
(* batches of two rows, three rows fill a batch and start another; the     *)
(* other table gets no rows here, its empty batches compete for the worker.*)
(* Four batch identities are one more than Backpressure allows at once.    *)
(***************************************************************************)
EXTENDS CopyBatcher

MCBatchers == {"flow", "flow_item"}
MCRecords == {"i1", "i2", "i3"}
MCTable == [r \in MCRecords |-> "flow_item"]
MCBatches == 1 .. 4

\* Batch identities are interchangeable: the first two batches are called 1 and 2.
MCInit == Init /\ queue = <<1, 2>>

MCSpec == MCInit /\ [][Next]_vars /\ Fairness
================================================================================
