------------------------------ MODULE FlowPipeline ------------------------------
(***************************************************************************)
(* FlowInsert (internal/pkg/db/db.go) on the batchers it really pushes to: *)
(* the flow, flow_item and flow_index batchers of CopyBatcher, which share *)
(* one worker pool.  FlowStore tells the same story over tables that only  *)
(* promise what BatchedTable says; here a push blocks until the loop takes *)
(* the record, a batch waits for a worker that another table's batch has,  *)
(* and a COPY that fails may take a loop or the whole process with it.     *)
(***************************************************************************)
EXTENDS CopyBatcher, FlowRows

ASSUME PipelineAssumption == Records = Rows /\ Table = TableOf /\ Batchers = Tables

VARIABLES phase,        \* how far FlowInsert and its goroutine have come with each flow
          fingerprints  \* db.fingerprints: flows whose fingerprints wait for a flush

pipelineVars == <<vars, phase, fingerprints>>

PipelineInit == /\ Init
                /\ phase = [f \in Flows |-> "new"]
                /\ fingerprints = {}

--------------------------------------------------------------------------------

\* FlowInsert is called; an empty flow is not even tried.
FlowInsert(f) ==
    /\ ~exited
    /\ phase[f] = "new"
    /\ ItemsOf[f] # {}
    /\ phase' = [phase EXCEPT ![f] = "index"]
    /\ UNCHANGED <<vars, fingerprints>>

\* PushAllCallback: one record after the other, each when the loop has taken the last one.
PushOneOf(S) == S \cap offered = {} /\ \E r \in S : PushCallback(r)

\* AllTaken that returns when nothing of S is on offer.
AllTakenUnpushed(S) == ~exited /\ S \cap offered = {}

\* PushAllCallback returns.
AllTaken(S) == ~exited /\ \A r \in S : ~Fresh(r) /\ r \notin offered

\* batcherFlowIndex.PushAllCallback: its callback only logs.
PushIndex(f) ==
    /\ phase[f] = "index"
    /\ PushOneOf(IndexesOf[f])
    /\ UNCHANGED <<phase, fingerprints>>

IndexPushed(f) ==
    /\ phase[f] = "index"
    /\ AllTaken(IndexesOf[f])
    /\ phase' = [phase EXCEPT ![f] = "items"]
    /\ UNCHANGED <<vars, fingerprints>>

\* batcherFlowItem.PushAllCallback.
PushItem(f) ==
    /\ phase[f] = "items"
    /\ PushOneOf(ItemsOf[f])
    /\ UNCHANGED <<phase, fingerprints>>

\* FlowInsert returns; wg.Wait() goes on in a goroutine.
ItemsPushed(f) ==
    /\ phase[f] = "items"
    /\ AllTaken(ItemsOf[f])
    /\ phase' = [phase EXCEPT ![f] = "wait"]
    /\ UNCHANGED <<vars, fingerprints>>

\* The item callbacks that were given an error, counted in the errors channel.
Errors(f) == {r \in ItemsOf[f] : answer[r] = "error"}

\* ItemsSettled that gives the flow up as soon as one item failed.
ItemsSettledAnyError(f) ==
    /\ ~exited
    /\ phase[f] = "wait"
    /\ \A r \in ItemsOf[f] : answer[r] # "none"
    /\ IF Errors(f) # {}
         THEN /\ phase' = [phase EXCEPT ![f] = "dropped"]
              /\ UNCHANGED fingerprints
         ELSE /\ phase' = [phase EXCEPT ![f] = "insert"]
              /\ fingerprints' = fingerprints \cup {f}
    /\ UNCHANGED vars

\* ItemsSettled that does not wait for the item callbacks.
ItemsSettledNoWait(f) ==
    /\ ~exited
    /\ phase[f] = "wait"
    /\ phase' = [phase EXCEPT ![f] = "insert"]
    /\ fingerprints' = fingerprints \cup {f}
    /\ UNCHANGED vars

\* ItemsSettled with a callback that returns before wg.Done() when it is given an error.
ItemsSettledNoDone(f) ==
    /\ ~exited
    /\ phase[f] = "wait"
    /\ \A r \in ItemsOf[f] : answer[r] = "ok"
    /\ phase' = [phase EXCEPT ![f] = "insert"]
    /\ fingerprints' = fingerprints \cup {f}
    /\ UNCHANGED vars

\* Every item callback has run: the flow is given up when all items failed; otherwise
\* its fingerprints are queued and its row will be pushed.
ItemsSettled(f) ==
    /\ ~exited
    /\ phase[f] = "wait"
    /\ \A r \in ItemsOf[f] : answer[r] # "none"
    /\ IF Errors(f) # {} /\ Cardinality(Errors(f)) = Cardinality(ItemsOf[f])
         THEN /\ phase' = [phase EXCEPT ![f] = "dropped"]
              /\ UNCHANGED fingerprints
         ELSE /\ phase' = [phase EXCEPT ![f] = "insert"]
              /\ fingerprints' = fingerprints \cup {f}
    /\ UNCHANGED vars

\* batcherFlowEntry.PushCallback.
PushFlow(f) ==
    /\ phase[f] = "insert"
    /\ PushCallback(f)
    /\ phase' = [phase EXCEPT ![f] = "flow"]
    /\ UNCHANGED fingerprints

\* The flow row's callback has run; an error is only logged.
FlowSettled(f) ==
    /\ ~exited
    /\ phase[f] = "flow"
    /\ answer[f] # "none"
    /\ phase' = [phase EXCEPT ![f] = "done"]
    /\ UNCHANGED <<vars, fingerprints>>

\* FingerprintsFlush, every five seconds, takes what is queued.
FingerprintsFlush ==
    /\ ~exited
    /\ fingerprints # {}
    /\ fingerprints' = {}
    /\ UNCHANGED <<vars, phase>>

\* The batchers, their jobs and their timers.
BatchersWork == BatcherStep /\ UNCHANGED <<phase, fingerprints>>

\* The steps FlowInsert and its goroutine take once it has been called.
Proceed(f) == \/ PushIndex(f) \/ IndexPushed(f) \/ PushItem(f) \/ ItemsPushed(f)
              \/ ItemsSettled(f) \/ PushFlow(f) \/ FlowSettled(f)

PipelineNext == \/ \E f \in Flows : FlowInsert(f) \/ Proceed(f)
                \/ FingerprintsFlush
                \/ BatchersWork

\* That of the batchers, and the code runs to its next wait.  Nobody has to call FlowInsert.
PipelineFairness == /\ Fairness
                    /\ \A f \in Flows : WF_pipelineVars(Proceed(f))

PipelineSpec == PipelineInit /\ [][PipelineNext]_pipelineVars

FairPipelineSpec == PipelineSpec /\ PipelineFairness

--------------------------------------------------------------------------------
(* What must hold. *)

PipelineTypeOK == /\ TypeOK
                  /\ phase \in [Flows -> {"new", "index", "items", "wait", "insert", "flow",
                                          "dropped", "done"}]
                  /\ fingerprints \subseteq Flows

\* A FlowInsert that was called comes to its end though its three batchers compete for the
\* workers, unless the process exits or the loop of a table it writes to is stuck.
InsertEndsUnlessStuck ==
    \A f \in Flows :
        phase[f] = "index" ~>
            \/ phase[f] \in {"dropped", "done"} \/ exited
            \/ \E r \in IndexesOf[f] \cup ItemsOf[f] \cup {f} : Stuck(Table[r])

--------------------------------------------------------------------------------
(* FlowPipeline implements FlowStore, and by it FlowCatalog. *)

Store == INSTANCE FlowStore WITH row <- rowOf, told <- toldOf

\* What FlowInsert does over the real batchers, it does over tables that settle groups of
\* rows and tell each row's outcome once: what FlowStore shows holds of the real ones.
ImplementsFlowStore == Store!Spec

\* A flow is given up if and only if none of its items is in the database, also when its
\* items end in different batches of which one fails; of what was given up only index rows
\* can remain, which were pushed before the items (db.go:342, 362-380).
GivenUpIffNoItem == Store!GivenUpIffNoItem

\* A reader never sees a flow without items, and never sees a flow change, whichever of the
\* three tables' COPYs comes first.
ImplementsFlowCatalog == Store!ImplementsFlowCatalog
================================================================================
