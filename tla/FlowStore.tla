-------------------------------- MODULE FlowStore --------------------------------
(***************************************************************************)
(* FlowInsert (internal/pkg/db/db.go): how one flow becomes rows of the    *)
(* flow_index, flow_item and flow tables.                                  *)
(*                                                                         *)
(* FlowInsert pushes the index rows and then the item rows, one blocking   *)
(* PushCallback after the other, and returns.  A goroutine waits for the   *)
(* callbacks of all items; unless every item failed, it queues the flow's  *)
(* fingerprints and pushes the flow row.  Many FlowInserts run at once, on *)
(* the assembler's worker pool, and share batches.  The three tables are   *)
(* those of BatchedTable, which CopyBatcher implements; FlowPipeline is    *)
(* this on the batchers themselves, and implements it.                     *)
(*                                                                         *)
(* FlowInsert also submits the flow's tags to KnownTagsUpsert and looks up *)
(* the pcap row; neither decides what happens to the rows modelled here.   *)
(***************************************************************************)
EXTENDS Naturals, FlowRows

CONSTANT BatchSize      \* rows one COPY may hold

VARIABLES row,          \* what became of each row: "idle", "pending", "stored" or "failed"
          told,         \* what the row's callback was given: "nothing", "ok" or "error"
          phase,        \* how far FlowInsert and its goroutine have come with each flow
          fingerprints  \* db.fingerprints: flows whose fingerprints wait for a flush

vars == <<row, told, phase, fingerprints>>

Database == INSTANCE BatchedTable WITH Records <- Rows, Table <- TableOf

TypeOK == /\ Database!TableTypeOK
          /\ phase \in [Flows -> {"new", "index", "items", "wait", "insert", "flow",
                                  "dropped", "done"}]
          /\ fingerprints \subseteq Flows

Init == /\ Database!TableInit
        /\ phase = [f \in Flows |-> "new"]
        /\ fingerprints = {}

--------------------------------------------------------------------------------

\* FlowInsert is called; an empty flow is not even tried.
FlowInsert(f) ==
    /\ phase[f] = "new"
    /\ ItemsOf[f] # {}
    /\ phase' = [phase EXCEPT ![f] = "index"]
    /\ UNCHANGED <<row, told, fingerprints>>

\* batcherFlowIndex.PushAllCallback: its callback only logs.
PushIndex(f) ==
    /\ phase[f] = "index"
    /\ \E r \in IndexesOf[f] : Database!Submit(r)
    /\ UNCHANGED <<phase, fingerprints>>

IndexPushed(f) ==
    /\ phase[f] = "index"
    /\ \A r \in IndexesOf[f] : row[r] # "idle"
    /\ phase' = [phase EXCEPT ![f] = "items"]
    /\ UNCHANGED <<row, told, fingerprints>>

\* batcherFlowItem.PushAllCallback.
PushItem(f) ==
    /\ phase[f] = "items"
    /\ \E r \in ItemsOf[f] : Database!Submit(r)
    /\ UNCHANGED <<phase, fingerprints>>

\* FlowInsert returns; wg.Wait() goes on in a goroutine.
ItemsPushed(f) ==
    /\ phase[f] = "items"
    /\ \A r \in ItemsOf[f] : row[r] # "idle"
    /\ phase' = [phase EXCEPT ![f] = "wait"]
    /\ UNCHANGED <<row, told, fingerprints>>

\* The item callbacks that were given an error, counted in the errors channel.
Errors(f) == {r \in ItemsOf[f] : told[r] = "error"}

\* Every item callback has run: the flow is given up when all items failed; otherwise
\* its fingerprints are queued and its row will be pushed.
ItemsSettled(f) ==
    /\ phase[f] = "wait"
    /\ \A r \in ItemsOf[f] : told[r] # "nothing"
    /\ IF Errors(f) # {} /\ Cardinality(Errors(f)) = Cardinality(ItemsOf[f])
         THEN /\ phase' = [phase EXCEPT ![f] = "dropped"]
              /\ UNCHANGED fingerprints
         ELSE /\ phase' = [phase EXCEPT ![f] = "insert"]
              /\ fingerprints' = fingerprints \cup {f}
    /\ UNCHANGED <<row, told>>

\* batcherFlowEntry.PushCallback.
PushFlow(f) ==
    /\ phase[f] = "insert"
    /\ Database!Submit(f)
    /\ phase' = [phase EXCEPT ![f] = "flow"]
    /\ UNCHANGED fingerprints

\* The flow row's callback has run; an error is only logged.
FlowSettled(f) ==
    /\ phase[f] = "flow"
    /\ told[f] # "nothing"
    /\ phase' = [phase EXCEPT ![f] = "done"]
    /\ UNCHANGED <<row, told, fingerprints>>

\* FingerprintsFlush, every five seconds, takes what is queued.
FingerprintsFlush ==
    /\ fingerprints # {}
    /\ fingerprints' = {}
    /\ UNCHANGED <<row, told, phase>>

\* A COPY ends: the rows it holds are all stored or all lost.
SettleRows ==
    /\ \E S \in SUBSET {r \in Rows : row[r] = "pending"}, o \in {"stored", "failed"} :
          Database!Settle(S, o)
    /\ UNCHANGED <<phase, fingerprints>>

\* A callback runs.
TellRow(r) == Database!Tell(r) /\ UNCHANGED <<phase, fingerprints>>

Next == \/ \E f \in Flows : \/ FlowInsert(f)
                            \/ PushIndex(f)
                            \/ IndexPushed(f)
                            \/ PushItem(f)
                            \/ ItemsPushed(f)
                            \/ ItemsSettled(f)
                            \/ PushFlow(f)
                            \/ FlowSettled(f)
        \/ FingerprintsFlush
        \/ SettleRows
        \/ \E r \in Rows : TellRow(r)

Spec == Init /\ [][Next]_vars

--------------------------------------------------------------------------------
(* What must hold. *)

\* What the database holds of a flow: those of its rows that a COPY has stored.
Remains(f) == {r \in IndexesOf[f] \cup ItemsOf[f] \cup {f} : row[r] = "stored"}

\* Of a flow that was given up none of the items is stored, the row is never pushed and
\* the fingerprints are not queued.  Its index rows were pushed before its items and may
\* be in the database for good: they are all that remains (db.go:342, 366-370).
DroppedLeavesIndexOnly ==
    \A f \in Flows : phase[f] = "dropped" =>
        /\ Remains(f) \subseteq IndexesOf[f]
        /\ row[f] = "idle"
        /\ f \notin fingerprints

\* A flow with a stored item is not given up because of the items that failed: when
\* FlowInsert is through with it, its row is stored or its own COPY failed.
PartialFlowKept ==
    \A f \in Flows :
        (\E r \in ItemsOf[f] : row[r] = "stored") /\ phase[f] \in {"dropped", "done"} =>
            /\ phase[f] = "done"
            /\ row[f] \in {"stored", "failed"}

\* A flow that was kept to its end has an item in the database.
FlowsKeptHaveItems ==
    \A f \in Flows : phase[f] = "done" => \E r \in ItemsOf[f] : row[r] = "stored"

\* Partial failure is told apart from failure: when FlowInsert is through with a flow, it was
\* given up if and only if none of its items is in the database, and of a flow that was
\* given up nothing but index rows can be found (db.go:342, 362-380).
GivenUpIffNoItem == DroppedLeavesIndexOnly /\ PartialFlowKept /\ FlowsKeptHaveItems

--------------------------------------------------------------------------------
(* FlowStore implements FlowCatalog. *)

\* The API joins flow and flow_item: items count only once the flow row is there.
visibleItems == [f \in Flows |-> IF row[f] = "stored"
                                   THEN {r \in ItemsOf[f] : row[r] = "stored"} ELSE {}]

Catalog == INSTANCE FlowCatalog WITH visible <- visibleItems

\* A reader never sees a flow without items, and never sees a flow change.
ImplementsFlowCatalog == Catalog!CatalogSpec
================================================================================
