-------------------------------- MODULE FlowRows --------------------------------
(***************************************************************************)
(* The rows one flow becomes (FlowInsert, internal/pkg/db/db.go), and the  *)
(* table each of them goes to: shared by FlowStore and FlowPipeline.       *)
(***************************************************************************)
EXTENDS FiniteSets

CONSTANTS Flows,        \* flows whose streams have been reassembled (also their flow rows)
          Items,        \* flow_item rows
          Indexes,      \* flow_index rows
          ItemsOf,      \* ItemsOf[f]: the items of flow f
          IndexesOf     \* IndexesOf[f]: the index rows of flow f

ASSUME FlowRowsAssumption ==
    /\ ItemsOf \in [Flows -> SUBSET Items]
    /\ IndexesOf \in [Flows -> SUBSET Indexes]
    /\ \A f, g \in Flows : f # g => /\ ItemsOf[f] \cap ItemsOf[g] = {}
                                    /\ IndexesOf[f] \cap IndexesOf[g] = {}
    /\ IsFiniteSet(Items)
    /\ Flows \cap Items = {} /\ Flows \cap Indexes = {} /\ Items \cap Indexes = {}

Rows == Flows \cup Items \cup Indexes

Tables == {"flow", "flow_item", "flow_index"}

TableOf == [r \in Rows |-> IF r \in Flows THEN "flow"
                           ELSE IF r \in Items THEN "flow_item" ELSE "flow_index"]
================================================================================
