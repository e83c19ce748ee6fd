------------------------------- MODULE FlowCatalog -------------------------------
(***************************************************************************)
(* What a reader of the database (api/database.py) may rely on: a flow has *)
(* no visible items until its flow row is there, it appears together with  *)
(* at least one of its items, and what it shows never changes afterwards.  *)
(* FlowStore implements this specification.                                *)
(***************************************************************************)
EXTENDS FiniteSets

CONSTANTS Flows,        \* flows given to FlowInsert
          ItemsOf       \* ItemsOf[f]: the items of flow f

VARIABLE visible        \* visible[f]: the items a reader finds for flow f

CatalogInit == visible = [f \in Flows |-> {}]

\* One COPY into the flow table makes the flows F appear.
Appear(F, shown) ==
    /\ \A f \in F : /\ visible[f] = {}
                    /\ shown[f] # {}
    /\ visible' = [f \in Flows |-> IF f \in F THEN shown[f] ELSE visible[f]]

CatalogNext ==
    \E F \in SUBSET Flows, shown \in [Flows -> SUBSET UNION {ItemsOf[f] : f \in Flows}] :
        /\ \A f \in F : shown[f] \subseteq ItemsOf[f]
        /\ Appear(F, shown)

CatalogSpec == CatalogInit /\ [][CatalogNext]_visible
================================================================================
