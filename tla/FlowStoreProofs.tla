----------------------------- MODULE FlowStoreProofs -----------------------------
(***************************************************************************)
(* Proofs about FlowStore for any set of flows with any items, and any     *)
(* batch size.                                                             *)
(***************************************************************************)
EXTENDS FlowStore, FiniteSetTheorems, TLAPS

\* Callbacks speak of settled rows, and tell what became of them.
ToldRight ==
    \A r \in Rows : /\ told[r] = "ok" => row[r] = "stored"
                    /\ told[r] = "error" => row[r] = "failed"

\* A flow row is pushed only at the end, and a flow under way has items.
FlowRowLast ==
    \A f \in Flows : /\ phase[f] \notin {"flow", "done"} => row[f] = "idle"
                     /\ phase[f] = "done" => told[f] # "nothing"
                     /\ phase[f] # "new" => ItemsOf[f] # {}
                     /\ f \in fingerprints => phase[f] \in {"insert", "flow", "done"}

\* After the wait every item has been answered; a flow goes on with at least one stored
\* item and is dropped with none.
ItemsDecided ==
    \A f \in Flows :
        /\ phase[f] \in {"insert", "flow", "done", "dropped"} =>
              \A r \in ItemsOf[f] : told[r] # "nothing"
        /\ phase[f] \in {"insert", "flow", "done"} => \E r \in ItemsOf[f] : told[r] = "ok"
        /\ phase[f] = "dropped" => \A r \in ItemsOf[f] : told[r] = "error"

IndInv == TypeOK /\ ToldRight /\ FlowRowLast /\ ItemsDecided

--------------------------------------------------------------------------------

LEMMA RowKinds ==
  /\ \A f \in Flows : f \in Rows /\ ItemsOf[f] \subseteq Rows /\ ItemsOf[f] \subseteq Items
  /\ \A f \in Flows : \A r \in ItemsOf[f] \cup IndexesOf[f] : r \notin Flows
  /\ \A f \in Flows : IndexesOf[f] \subseteq Rows
  /\ \A f \in Flows : \A g \in Flows : \A r \in ItemsOf[f] : r \notin IndexesOf[g]
  BY FlowRowsAssumption DEF Rows

LEMMA InitInv == Init => IndInv
  BY RowKinds DEF Init, IndInv, TypeOK, ToldRight, FlowRowLast, ItemsDecided,
     Database!TableInit, Database!TableTypeOK

\* Pushing a row that is not a flow row.
LEMMA SubmitInv ==
  ASSUME IndInv, NEW r \in Rows, r \notin Flows, Database!Submit(r),
         UNCHANGED <<phase, fingerprints>>
  PROVE  IndInv'
<1> USE DEF IndInv, TypeOK, Database!Submit, Database!TableTypeOK
<1>1. TypeOK'
  OBVIOUS
<1>2. ToldRight'
  BY DEF ToldRight
<1>3. FlowRowLast'
  BY RowKinds DEF FlowRowLast
<1>4. ItemsDecided'
  BY DEF ItemsDecided
<1> QED
  BY <1>1, <1>2, <1>3, <1>4

\* A step of FlowInsert that only moves on, before the items are settled.
LEMMA PhaseInv ==
  ASSUME IndInv, NEW f \in Flows, NEW p \in {"index", "items", "wait"},
         phase[f] \in {"new", "index", "items"}, ItemsOf[f] # {},
         phase' = [phase EXCEPT ![f] = p], UNCHANGED <<row, told, fingerprints>>
  PROVE  IndInv'
<1> USE DEF IndInv
<1>1. TypeOK'
  BY DEF TypeOK, Database!TableTypeOK
<1>2. ToldRight'
  BY DEF ToldRight
<1>3. FlowRowLast'
  BY DEF TypeOK, FlowRowLast
<1>4. ItemsDecided'
  BY DEF TypeOK, ItemsDecided
<1> QED
  BY <1>1, <1>2, <1>3, <1>4

LEMMA ItemsSettledInv ==
  ASSUME IndInv, NEW f \in Flows, ItemsSettled(f)
  PROVE  IndInv'
<1> USE DEF IndInv
<1>1. ItemsOf[f] # {} /\ phase[f] = "wait" /\ UNCHANGED <<row, told>>
  BY DEF ItemsSettled, FlowRowLast
<1>2. \A r \in ItemsOf[f] : r \in Rows /\ told[r] \in {"ok", "error"}
  BY RowKinds DEF ItemsSettled, TypeOK, Database!TableTypeOK
<1>3. IsFiniteSet(ItemsOf[f]) /\ Errors(f) \subseteq ItemsOf[f]
  BY RowKinds, FlowRowsAssumption, FS_Subset DEF Errors
<1>4. TypeOK'
  BY DEF ItemsSettled, TypeOK, Database!TableTypeOK
<1>5. ToldRight'
  BY <1>1 DEF ToldRight
<1>6. CASE Errors(f) # {} /\ Cardinality(Errors(f)) = Cardinality(ItemsOf[f])
  <2>1. Errors(f) = ItemsOf[f]
    BY <1>3, <1>6, FS_Subset
  <2>2. \A r \in ItemsOf[f] : told[r] = "error"
    BY <2>1 DEF Errors
  <2>3. phase' = [phase EXCEPT ![f] = "dropped"] /\ UNCHANGED fingerprints
    BY <1>6 DEF ItemsSettled
  <2>4. FlowRowLast'
    BY <1>1, <2>3 DEF TypeOK, FlowRowLast
  <2>5. ItemsDecided'
    BY <1>1, <1>2, <2>2, <2>3 DEF TypeOK, ItemsDecided
  <2> QED
    BY <1>4, <1>5, <2>4, <2>5
<1>7. CASE ~(Errors(f) # {} /\ Cardinality(Errors(f)) = Cardinality(ItemsOf[f]))
  <2>1. Errors(f) # ItemsOf[f]
    BY <1>1, <1>7
  <2>2. \E r \in ItemsOf[f] : told[r] = "ok"
    BY <2>1, <1>2 DEF Errors
  <2>3. phase' = [phase EXCEPT ![f] = "insert"] /\ fingerprints' = fingerprints \cup {f}
    BY <1>7 DEF ItemsSettled
  <2>4. FlowRowLast'
    BY <1>1, <2>3 DEF TypeOK, FlowRowLast
  <2>5. ItemsDecided'
    BY <1>1, <1>2, <2>2, <2>3 DEF TypeOK, ItemsDecided
  <2> QED
    BY <1>4, <1>5, <2>4, <2>5
<1> QED
  BY <1>6, <1>7

LEMMA PushFlowInv ==
  ASSUME IndInv, NEW f \in Flows, PushFlow(f)
  PROVE  IndInv'
<1> USE DEF IndInv
<1>1. /\ phase[f] = "insert" /\ phase' = [phase EXCEPT ![f] = "flow"]
      /\ row' = [row EXCEPT ![f] = "pending"] /\ row[f] = "idle"
      /\ UNCHANGED <<told, fingerprints>>
  BY DEF PushFlow, Database!Submit
<1>2. TypeOK'
  BY <1>1 DEF TypeOK, Database!TableTypeOK
<1>3. ToldRight'
  BY <1>1, RowKinds DEF ToldRight, TypeOK, Database!TableTypeOK
<1>4. FlowRowLast'
  BY <1>1, RowKinds DEF TypeOK, FlowRowLast, Database!TableTypeOK
<1>5. ItemsDecided'
  BY <1>1 DEF TypeOK, ItemsDecided
<1> QED
  BY <1>2, <1>3, <1>4, <1>5

LEMMA FlowSettledInv ==
  ASSUME IndInv, NEW f \in Flows, FlowSettled(f)
  PROVE  IndInv'
<1> USE DEF IndInv, FlowSettled
<1>1. TypeOK' /\ ToldRight'
  BY DEF TypeOK, ToldRight, Database!TableTypeOK
<1>2. FlowRowLast'
  BY DEF TypeOK, FlowRowLast
<1>3. ItemsDecided'
  BY DEF TypeOK, ItemsDecided
<1> QED
  BY <1>1, <1>2, <1>3

LEMMA FingerprintsFlushInv ==
  ASSUME IndInv, FingerprintsFlush
  PROVE  IndInv'
  BY DEF IndInv, FingerprintsFlush, TypeOK, ToldRight, FlowRowLast, ItemsDecided,
     Database!TableTypeOK

\* The end of a COPY, spelled out.
LEMMA SettleEffect ==
  ASSUME SettleRows
  PROVE  \E S \in SUBSET Rows, o \in {"stored", "failed"} :
           /\ \A r \in S : row[r] = "pending"
           /\ row' = [r \in Rows |-> IF r \in S THEN o ELSE row[r]]
           /\ UNCHANGED <<told, phase, fingerprints>>
<1>1. PICK S \in SUBSET {r \in Rows : row[r] = "pending"}, o \in {"stored", "failed"} :
         Database!Settle(S, o)
  BY DEF SettleRows
<1>2. S \in SUBSET Rows
  BY <1>1
<1> QED
  BY <1>1, <1>2 DEF Database!Settle, SettleRows

LEMMA SettleRowsInv ==
  ASSUME IndInv, SettleRows
  PROVE  IndInv'
<1> USE DEF IndInv
<1>1. PICK S \in SUBSET Rows, o \in {"stored", "failed"} :
           /\ \A r \in S : row[r] = "pending"
           /\ row' = [r \in Rows |-> IF r \in S THEN o ELSE row[r]]
           /\ UNCHANGED <<told, phase, fingerprints>>
  BY SettleEffect
<1>2. TypeOK'
  BY <1>1 DEF TypeOK, Database!TableTypeOK
<1>3. ToldRight'
  BY <1>1 DEF ToldRight
<1>4. FlowRowLast'
  BY <1>1, RowKinds DEF FlowRowLast
<1>5. ItemsDecided'
  BY <1>1 DEF ItemsDecided
<1> QED
  BY <1>2, <1>3, <1>4, <1>5

LEMMA TellRowInv ==
  ASSUME IndInv, NEW r \in Rows, TellRow(r)
  PROVE  IndInv'
<1> USE DEF IndInv
<1>1. /\ row[r] \in {"stored", "failed"} /\ told[r] = "nothing"
      /\ told' = [told EXCEPT ![r] = IF row[r] = "stored" THEN "ok" ELSE "error"]
      /\ UNCHANGED <<row, phase, fingerprints>>
  BY DEF TellRow, Database!Tell
<1>2. TypeOK'
  BY <1>1 DEF TypeOK, Database!TableTypeOK
<1>3. ToldRight'
  BY <1>1 DEF ToldRight, TypeOK, Database!TableTypeOK
<1>4. \A q \in Rows : told[q] # "nothing" => told'[q] = told[q]
  BY <1>1 DEF TypeOK, Database!TableTypeOK
<1>5. FlowRowLast'
  BY <1>1, <1>4, RowKinds DEF FlowRowLast
<1>6. ItemsDecided'
  BY <1>1, <1>4, RowKinds DEF ItemsDecided
<1> QED
  BY <1>2, <1>3, <1>5, <1>6

\* The invariant is inductive.
LEMMA NextInv ==
  ASSUME IndInv, [Next]_vars
  PROVE  IndInv'
<1>1. CASE UNCHANGED vars
  BY <1>1 DEF vars, IndInv, TypeOK, ToldRight, FlowRowLast, ItemsDecided,
     Database!TableTypeOK
<1>2. ASSUME NEW f \in Flows, FlowInsert(f) PROVE IndInv'
  BY <1>2, PhaseInv DEF FlowInsert
<1>3. ASSUME NEW f \in Flows, PushIndex(f) PROVE IndInv'
  BY <1>3, SubmitInv, RowKinds DEF PushIndex
<1>4. ASSUME NEW f \in Flows, IndexPushed(f) PROVE IndInv'
  BY <1>4, PhaseInv DEF IndexPushed, IndInv, FlowRowLast
<1>5. ASSUME NEW f \in Flows, PushItem(f) PROVE IndInv'
  BY <1>5, SubmitInv, RowKinds DEF PushItem
<1>6. ASSUME NEW f \in Flows, ItemsPushed(f) PROVE IndInv'
  BY <1>6, PhaseInv DEF ItemsPushed, IndInv, FlowRowLast
<1>7. ASSUME NEW f \in Flows, ItemsSettled(f) PROVE IndInv'
  BY <1>7, ItemsSettledInv
<1>8. ASSUME NEW f \in Flows, PushFlow(f) PROVE IndInv'
  BY <1>8, PushFlowInv
<1>9. ASSUME NEW f \in Flows, FlowSettled(f) PROVE IndInv'
  BY <1>9, FlowSettledInv
<1>10. CASE FingerprintsFlush
  BY <1>10, FingerprintsFlushInv
<1>11. CASE SettleRows
  BY <1>11, SettleRowsInv
<1>12. ASSUME NEW r \in Rows, TellRow(r) PROVE IndInv'
  BY <1>12, TellRowInv
<1> QED
  BY <1>1, <1>2, <1>3, <1>4, <1>5, <1>6, <1>7, <1>8, <1>9, <1>10, <1>11, <1>12 DEF Next

LEMMA SpecInv == Spec => []IndInv
  BY InitInv, NextInv, PTL DEF Spec

--------------------------------------------------------------------------------
(* Every step is a step of FlowCatalog or is not visible to readers. *)

\* Steps that store no row change nothing a reader sees.
LEMMA Invisible ==
  ASSUME IndInv, \A r \in Rows : row'[r] = "stored" <=> row[r] = "stored"
  PROVE  UNCHANGED visibleItems
<1>1. \A f \in Flows : row'[f] = "stored" <=> row[f] = "stored"
  BY RowKinds
<1>2. \A f \in Flows : {r \in ItemsOf[f] : row'[r] = "stored"}
                         = {r \in ItemsOf[f] : row[r] = "stored"}
  BY RowKinds
<1> QED
  BY <1>1, <1>2 DEF visibleItems

\* The rows of a visible flow and of its items are settled.
LEMMA SettledBelow ==
  ASSUME IndInv, NEW f \in Flows, row[f] # "idle"
  PROVE  /\ \A r \in ItemsOf[f] : row[r] \in {"stored", "failed"}
         /\ \E r \in ItemsOf[f] : row[r] = "stored"
<1>1. phase[f] \in {"flow", "done"}
  BY DEF IndInv, FlowRowLast
<1>2. \A r \in ItemsOf[f] : told[r] \in {"ok", "error"} /\ r \in Rows
  BY <1>1, RowKinds DEF IndInv, TypeOK, Database!TableTypeOK, ItemsDecided
<1> QED
  BY <1>1, <1>2 DEF IndInv, ToldRight, ItemsDecided

\* A COPY makes those flows appear whose rows it stores.
LEMMA SettleStep ==
  ASSUME IndInv, SettleRows
  PROVE  [Catalog!CatalogNext]_visibleItems
<1>1. PICK S \in SUBSET Rows, o \in {"stored", "failed"} :
           /\ \A r \in S : row[r] = "pending"
           /\ row' = [r \in Rows |-> IF r \in S THEN o ELSE row[r]]
           /\ UNCHANGED <<told, phase, fingerprints>>
  BY SettleEffect
<1>2. CASE o = "failed"
  BY <1>1, <1>2, Invisible
<1>3. CASE o = "stored"
  <2> DEFINE F == S \cap Flows
             shown == [f \in Flows |-> {r \in ItemsOf[f] : row[r] = "stored"}]
  <2>1. \A f \in Flows : row[f] # "idle" =>
            {r \in ItemsOf[f] : row'[r] = "stored"} = {r \in ItemsOf[f] : row[r] = "stored"}
    <3> SUFFICES ASSUME NEW f \in Flows, row[f] # "idle"
                 PROVE  {r \in ItemsOf[f] : row'[r] = "stored"}
                          = {r \in ItemsOf[f] : row[r] = "stored"}
      OBVIOUS
    <3>1. \A r \in ItemsOf[f] : r \in Rows /\ r \notin S
      BY <1>1, SettledBelow, RowKinds
    <3> QED
      BY <3>1, <1>1
  <2>2. \A f \in F : visibleItems[f] = {} /\ shown[f] # {}
    <3> SUFFICES ASSUME NEW f \in F PROVE visibleItems[f] = {} /\ shown[f] # {}
      OBVIOUS
    <3>1. f \in Flows /\ row[f] = "pending"
      BY <1>1
    <3> QED
      BY <3>1, SettledBelow DEF visibleItems
  <2>3. \A f \in Flows : visibleItems'[f] = IF f \in F THEN shown[f] ELSE visibleItems[f]
    <3> SUFFICES ASSUME NEW f \in Flows
                 PROVE  visibleItems'[f] = IF f \in F THEN shown[f] ELSE visibleItems[f]
      OBVIOUS
    <3>0. f \in Rows
      BY RowKinds
    <3>1. CASE f \in F
      <4>1. row[f] = "pending" /\ row'[f] = "stored"
        BY <1>1, <1>3, <3>0, <3>1
      <4> QED
        BY <4>1, <3>1, <2>1 DEF visibleItems
    <3>2. CASE f \notin F
      <4>1. row'[f] = row[f]
        BY <1>1, <3>0, <3>2
      <4>2. row[f] = "stored" => {r \in ItemsOf[f] : row'[r] = "stored"}
                                   = {r \in ItemsOf[f] : row[r] = "stored"}
        BY <2>1
      <4> QED
        BY <4>1, <4>2, <3>2 DEF visibleItems
    <3> QED
      BY <3>1, <3>2
  <2>4. visibleItems' = [f \in Flows |-> IF f \in F THEN shown[f] ELSE visibleItems[f]]
    BY <2>3 DEF visibleItems
  <2>5. /\ F \in SUBSET Flows
        /\ shown \in [Flows -> SUBSET UNION {ItemsOf[f] : f \in Flows}]
        /\ \A f \in F : shown[f] \subseteq ItemsOf[f]
    OBVIOUS
  <2>6. Catalog!Appear(F, shown)
    BY <2>2, <2>4 DEF Catalog!Appear
  <2> HIDE DEF F, shown
  <2> QED
    BY <2>5, <2>6 DEF Catalog!CatalogNext
<1> QED
  BY <1>2, <1>3

LEMMA StepSimulation ==
  ASSUME IndInv, [Next]_vars
  PROVE  [Catalog!CatalogNext]_visibleItems
<1>1. CASE UNCHANGED vars
  BY <1>1, Invisible DEF vars
<1>2. ASSUME NEW f \in Flows,
             \/ FlowInsert(f) \/ IndexPushed(f) \/ ItemsPushed(f) \/ ItemsSettled(f)
             \/ FlowSettled(f)
      PROVE  UNCHANGED visibleItems
  <2>1. row' = row
    BY <1>2 DEF FlowInsert, IndexPushed, ItemsPushed, ItemsSettled, FlowSettled
  <2> QED
    BY <2>1, Invisible
<1>3. ASSUME NEW f \in Flows, PushIndex(f) \/ PushItem(f) \/ PushFlow(f)
      PROVE  UNCHANGED visibleItems
  <2>1. \E r \in Rows : row[r] = "idle" /\ row' = [row EXCEPT ![r] = "pending"]
    BY <1>3, RowKinds DEF PushIndex, PushItem, PushFlow, Database!Submit
  <2>2. row \in [Rows -> {"idle", "pending", "stored", "failed"}]
    BY DEF IndInv, TypeOK, Database!TableTypeOK
  <2>3. \A r \in Rows : row'[r] = "stored" <=> row[r] = "stored"
    BY <2>1, <2>2
  <2> QED
    BY <2>3, Invisible
<1>4. CASE FingerprintsFlush
  BY <1>4, Invisible DEF FingerprintsFlush
<1>5. CASE SettleRows
  BY <1>5, SettleStep
<1>6. ASSUME NEW r \in Rows, TellRow(r) PROVE UNCHANGED visibleItems
  BY <1>6, Invisible DEF TellRow, Database!Tell
<1> QED
  BY <1>1, <1>2, <1>3, <1>4, <1>5, <1>6 DEF Next

LEMMA InitSimulation == Init => Catalog!CatalogInit
  BY RowKinds DEF Init, Database!TableInit, visibleItems, Catalog!CatalogInit

--------------------------------------------------------------------------------
(* The results. *)

\* Type correctness of the rows, the callbacks and the phases of FlowInsert.
THEOREM TypeCorrectness == Spec => []TypeOK
  BY SpecInv, PTL DEF IndInv

\* A flow is given up only when every one of its items failed, and then its row is not
\* pushed: at most index rows, pushed before the items, remain (db.go:342, 366-370).
THEOREM DroppedFlowsLeaveIndexOnly == Spec => []DroppedLeavesIndexOnly
<1>1. IndInv => DroppedLeavesIndexOnly
  <2> SUFFICES ASSUME IndInv, NEW f \in Flows, phase[f] = "dropped"
               PROVE  /\ Remains(f) \subseteq IndexesOf[f]
                      /\ row[f] = "idle" /\ f \notin fingerprints
    BY DEF DroppedLeavesIndexOnly
  <2>1. row[f] = "idle" /\ f \notin fingerprints
    BY DEF IndInv, FlowRowLast
  <2>2. \A r \in ItemsOf[f] : row[r] = "failed"
    BY RowKinds DEF IndInv, ToldRight, ItemsDecided
  <2> QED
    BY <2>1, <2>2 DEF Remains
<1> QED
  BY <1>1, SpecInv, PTL

\* A flow with a stored item is never given up: at the end its row is settled.
THEOREM PartialFlowsAreKept == Spec => []PartialFlowKept
<1>1. IndInv => PartialFlowKept
  <2> SUFFICES ASSUME IndInv, NEW f \in Flows, NEW r \in ItemsOf[f], row[r] = "stored",
                      phase[f] \in {"dropped", "done"}
               PROVE  phase[f] = "done" /\ row[f] \in {"stored", "failed"}
    BY DEF PartialFlowKept
  <2>1. r \in Rows /\ f \in Rows
    BY RowKinds
  <2>2. phase[f] = "done"
    BY <2>1 DEF IndInv, ItemsDecided, ToldRight
  <2>3. told[f] \in {"ok", "error"}
    BY <2>1, <2>2 DEF IndInv, FlowRowLast, TypeOK, Database!TableTypeOK
  <2> QED
    BY <2>1, <2>2, <2>3 DEF IndInv, ToldRight
<1> QED
  BY <1>1, SpecInv, PTL

\* Both directions of the promise about flows that lose items: given up if and only if no
\* item is stored, and nothing but index rows left of what was given up (db.go:342, 362-380).
THEOREM FlowsWithoutItemsAreGivenUp == Spec => []GivenUpIffNoItem
<1>1. IndInv => FlowsKeptHaveItems
  BY RowKinds DEF IndInv, ToldRight, ItemsDecided, FlowsKeptHaveItems
<1> QED
  BY <1>1, SpecInv, DroppedFlowsLeaveIndexOnly, PartialFlowsAreKept, PTL DEF GivenUpIffNoItem

\* FlowStore implements FlowCatalog: readers find a flow with at least one item, from
\* one moment on, and what they find never changes.
THEOREM FlowStoreImplementsFlowCatalog == Spec => ImplementsFlowCatalog
<1>1. IndInv /\ [Next]_vars => [Catalog!CatalogNext]_visibleItems
  BY StepSimulation
<1> QED
  BY <1>1, InitSimulation, SpecInv, PTL DEF Spec, ImplementsFlowCatalog, Catalog!CatalogSpec

================================================================================
