----------------------------- MODULE MCFlowPipeline -----------------------------
(***************************************************************************)
(* One flow with two items and one index row, in batches of two rows, and  *)
(* one worker for the three tables: the items share a batch or the time-out*)
(* separates them, and every batch waits for those of the other tables.    *)
(***************************************************************************)
EXTENDS FlowPipeline

MCFlows == {"f"}
MCItems == {"i1", "i2"}
MCIndexes == {"x"}
MCRecords == MCFlows \cup MCItems \cup MCIndexes
MCItemsOf == [f \in MCFlows |-> MCItems]
MCIndexesOf == [f \in MCFlows |-> MCIndexes]
MCBatchers == {"flow", "flow_item", "flow_index"}
MCTable == [r \in MCRecords |-> IF r \in MCFlows THEN "flow"
                                ELSE IF r \in MCItems THEN "flow_item" ELSE "flow_index"]
MCBatches == 1..5

\* Batch identities are interchangeable: the first three batches are called 1, 2 and 3.
MCInit == PipelineInit /\ queue = <<1, 2, 3>>

MCSpec == MCInit /\ [][PipelineNext]_pipelineVars /\ PipelineFairness
================================================================================
