---------------------------- MODULE CopyBatcherProofs ----------------------------
(***************************************************************************)
(* Proofs about CopyBatcher for any number of tables, records, batches and *)
(* workers and any batch size, and about FlowPipeline, which is FlowInsert *)
(* on top of it, for any flows.                                            *)
(***************************************************************************)
EXTENDS FlowPipeline, FiniteSetTheorems, SequenceTheorems, TLAPS

\* No two loops feed one batch.
CurrentDistinct == \A b, c \in Batchers : current[b] = current[c] => b = c

\* The pool's queue holds each submitted job once.
QueueOK ==
    /\ \A i \in 1 .. Len(queue) : job[queue[i]] = "queued"
    /\ \A i, j \in 1 .. Len(queue) : queue[i] = queue[j] => i = j

\* Only a started job has rows, and finitely many.
RowsOfStarted ==
    \A s \in Batches : /\ IsFiniteSet(rows[s])
                       /\ job[s] \in {"gone", "queued", "opening"} => rows[s] = {}

\* The rows of a batch belong to one table, also after its loop has left it.
OneTable == \A s \in Batches : \A r, q \in rows[s] : Table[r] = Table[q]

\* A stored record was told so, or is in a committed batch whose callbacks still run.
StoredWhere ==
    \A r \in stored : \/ answer[r] = "ok"
                      \/ \E s \in Batches : job[s] = "committed" /\ r \in rows[s]

\* The loop's count bounds the rows of the batch it feeds.
IndexCounts ==
    \A b \in Batchers : /\ Cardinality(rows[current[b]]) <= index[b]
                        /\ index[b] < BatchSize

IndInv == /\ TypeOK
          /\ CurrentDistinct
          /\ QueueOK
          /\ RowsOfStarted
          /\ OnePlace
          /\ OneTable
          /\ StoredWhere
          /\ CallbackTruthful
          /\ IndexCounts
          /\ BatchBound

--------------------------------------------------------------------------------

\* The initial state: one empty, queued batch per table.
LEMMA InitInv == Init => IndInv
<1> SUFFICES ASSUME Init PROVE IndInv
  OBVIOUS
<1>n. Cardinality(Batchers) \in Nat
  BY BatcherAssumption, FS_CardinalityType
<1>0. PICK order \in [1 .. Cardinality(Batchers) -> Batchers] :
        /\ \A i, j \in 1 .. Cardinality(Batchers) : order[i] = order[j] => i = j
        /\ queue = [i \in 1 .. Cardinality(Batchers) |-> current[order[i]]]
  BY DEF Init
<1>q. queue \in Seq(Batches) /\ Len(queue) = Cardinality(Batchers)
  <2>1. queue \in [1 .. Cardinality(Batchers) -> Batches]
    BY <1>0 DEF Init
  <2>2. queue \in Seq(Batches)
    BY <2>1, <1>n, SeqDef
  <2> QED
    BY <2>1, <2>2, <1>n, LenProperties
<1>1. TypeOK
  <2>1. index \in [Batchers -> 0 .. BatchSize] /\ timedOut \in [Batchers -> BOOLEAN]
    BY BatcherAssumption DEF Init
  <2>2. job \in [Batches -> {"gone", "queued", "opening", "reading", "committed", "failed"}]
    BY DEF Init
  <2>3. hold \in [Batchers -> Records \cup {None}] /\ current \in [Batchers -> Batches]
    BY DEF Init
  <2> QED
    BY <1>q, <2>1, <2>2, <2>3 DEF Init, TypeOK
<1>2. CurrentDistinct
  BY DEF Init, CurrentDistinct
<1>3. QueueOK
  <2>1. \A i \in 1 .. Len(queue) : queue[i] = current[order[i]] /\ order[i] \in Batchers
    BY <1>0, <1>q
  <2>2. \A b \in Batchers : current[b] \in Batches /\ job[current[b]] = "queued"
    BY DEF Init, Closed
  <2>3. \A b, c \in Batchers : current[b] = current[c] => b = c
    BY DEF Init
  <2>4. \A i \in 1 .. Len(queue) : job[queue[i]] = "queued"
    BY <2>1, <2>2
  <2>5. \A i, j \in 1 .. Len(queue) : queue[i] = queue[j] => order[i] = order[j]
    BY <2>1, <2>3
  <2>6. \A i, j \in 1 .. Cardinality(Batchers) : order[i] = order[j] => i = j
    BY <1>0
  <2>7. \A i, j \in 1 .. Len(queue) : queue[i] = queue[j] => i = j
    BY <2>5, <2>6, <1>q
  <2> QED
    BY <2>4, <2>7 DEF QueueOK
<1>4. RowsOfStarted /\ OneTable /\ StoredWhere
  BY FS_EmptySet DEF Init, RowsOfStarted, OneTable, StoredWhere
<1>5. OnePlace /\ CallbackTruthful
  BY BatcherAssumption DEF Init, OnePlace, CallbackTruthful
<1>6. IndexCounts /\ BatchBound
  BY FS_EmptySet, BatcherAssumption DEF Init, IndexCounts, BatchBound
<1> QED
  BY <1>1, <1>2, <1>3, <1>4, <1>5, <1>6 DEF IndInv

\* NewBatch gives the loop of b an unused batch and queues its job.
LEMMA NewBatchEffect ==
  ASSUME NEW b \in Batchers, NewBatch(b)
  PROVE  \E s \in Batches :
           /\ job[s] = "gone" /\ Closed(s)
           /\ current' = [current EXCEPT ![b] = s]
           /\ job' = [job EXCEPT ![s] = "queued"]
           /\ queue' = Append(queue, s)
           /\ index' = [index EXCEPT ![b] = 0]
           /\ timedOut' = [timedOut EXCEPT ![b] = FALSE]
  BY DEF NewBatch, Garbage

\* A new batch disturbs neither the pool's queue nor what the other loops feed.
LEMMA NewBatchKeeps ==
  ASSUME TypeOK, CurrentDistinct, QueueOK, NEW b \in Batchers, NewBatch(b)
  PROVE  /\ CurrentDistinct' /\ QueueOK'
         /\ current' \in [Batchers -> Batches] /\ queue' \in Seq(Batches)
         /\ index' \in [Batchers -> 0 .. BatchSize] /\ timedOut' \in [Batchers -> BOOLEAN]
         /\ job' \in [Batches -> {"gone", "queued", "opening", "reading", "committed", "failed"}]
<1>1. PICK s \in Batches :
           /\ job[s] = "gone" /\ Closed(s)
           /\ current' = [current EXCEPT ![b] = s]
           /\ job' = [job EXCEPT ![s] = "queued"]
           /\ queue' = Append(queue, s)
           /\ index' = [index EXCEPT ![b] = 0]
           /\ timedOut' = [timedOut EXCEPT ![b] = FALSE]
  BY NewBatchEffect
<1>2. CurrentDistinct'
  BY <1>1 DEF TypeOK, CurrentDistinct, Closed
<1>3. QueueOK'
  BY <1>1 DEF TypeOK, QueueOK
<1> QED
  BY <1>1, <1>2, <1>3, BatcherAssumption DEF TypeOK

--------------------------------------------------------------------------------
(* Each action preserves the invariant. *)

LEMMA PushCallbackInv ==
  ASSUME IndInv, NEW r \in Records, PushCallback(r)
  PROVE  IndInv'
<1> USE DEF IndInv, PushCallback, loopVars
<1>1. TypeOK'
  BY DEF TypeOK
<1>2. CurrentDistinct' /\ QueueOK' /\ RowsOfStarted' /\ OneTable'
  BY DEF CurrentDistinct, QueueOK, RowsOfStarted, OneTable
<1>3. OnePlace'
  BY DEF OnePlace, Fresh, TypeOK
<1>4. StoredWhere' /\ CallbackTruthful' /\ IndexCounts' /\ BatchBound'
  BY DEF StoredWhere, CallbackTruthful, IndexCounts, BatchBound
<1> QED
  BY <1>1, <1>2, <1>3, <1>4

\* A loop that moves to a new batch keeps everything said about rows: the batch it
\* leaves keeps its rows, and the batch it takes has none.
LEMMA NewBatchRows ==
  ASSUME IndInv, NEW b \in Batchers, NewBatch(b), UNCHANGED <<rows, stored, answer>>
  PROVE  /\ RowsOfStarted' /\ OneTable' /\ StoredWhere' /\ CallbackTruthful'
         /\ IndexCounts' /\ BatchBound'
         /\ \A c \in Batchers : \A r \in rows[current'[c]] : Table[r] = c
<1>1. PICK s \in Batches :
           /\ job[s] = "gone" /\ Closed(s)
           /\ current' = [current EXCEPT ![b] = s]
           /\ job' = [job EXCEPT ![s] = "queued"]
           /\ queue' = Append(queue, s)
           /\ index' = [index EXCEPT ![b] = 0]
           /\ timedOut' = [timedOut EXCEPT ![b] = FALSE]
  BY NewBatchEffect
<1>2. rows[s] = {}
  BY <1>1 DEF IndInv, RowsOfStarted
<1>3. RowsOfStarted' /\ OneTable'
  BY <1>1, <1>2 DEF IndInv, TypeOK, RowsOfStarted, OneTable
<1>4. StoredWhere' /\ CallbackTruthful'
  BY <1>1, <1>2 DEF IndInv, TypeOK, StoredWhere, CallbackTruthful
<1>5. IndexCounts'
  <2> SUFFICES ASSUME NEW c \in Batchers
               PROVE  Cardinality(rows[current'[c]]) <= index'[c] /\ index'[c] < BatchSize
    BY DEF IndexCounts
  <2>0. Cardinality({}) = 0
    BY FS_EmptySet
  <2>1. CASE c = b
    <3>1. current'[c] = s /\ index'[c] = 0
      BY <2>1, <1>1 DEF IndInv, TypeOK
    <3> QED
      BY <3>1, <2>0, <1>2, BatcherAssumption
  <2>2. CASE c # b
    BY <2>2, <1>1 DEF IndInv, TypeOK, IndexCounts
  <2> QED
    BY <2>1, <2>2
<1>. BatchBound'
  BY DEF IndInv, BatchBound
<1>6. \A c \in Batchers : \A r \in rows[current'[c]] : Table[r] = c
  BY <1>1, <1>2 DEF IndInv, TypeOK, OnePlace
<1> QED
  BY <1>3, <1>4, <1>5, <1>6

LEMMA SelectTimeoutInv ==
  ASSUME IndInv, NEW b \in Batchers, SelectTimeout(b)
  PROVE  IndInv'
<1> USE DEF IndInv, SelectTimeout
<1>1. /\ CurrentDistinct' /\ QueueOK' /\ RowsOfStarted' /\ OneTable' /\ StoredWhere'
      /\ CallbackTruthful' /\ IndexCounts' /\ BatchBound'
  BY NewBatchKeeps, NewBatchRows
<1>2. TypeOK'
  BY NewBatchKeeps DEF TypeOK
<1>3. OnePlace'
  BY NewBatchRows DEF OnePlace
<1> QED
  BY <1>1, <1>2, <1>3

LEMMA SelectRecordInv ==
  ASSUME IndInv, NEW b \in Batchers, NEW r \in Records, SelectRecord(b, r)
  PROVE  IndInv'
<1> USE DEF IndInv, SelectRecord
<1>1. /\ CurrentDistinct' /\ QueueOK' /\ RowsOfStarted' /\ OneTable' /\ StoredWhere'
      /\ CallbackTruthful' /\ IndexCounts' /\ BatchBound'
      /\ \A c \in Batchers : \A q \in rows[current'[c]] : Table[q] = c
  <2>1. CASE timedOut[b]
    BY <2>1, NewBatchKeeps, NewBatchRows
  <2>2. CASE ~timedOut[b]
    <3>1. CurrentDistinct' /\ QueueOK' /\ RowsOfStarted' /\ OneTable'
      BY <2>2 DEF CurrentDistinct, QueueOK, RowsOfStarted, OneTable
    <3>2. StoredWhere' /\ CallbackTruthful' /\ IndexCounts' /\ BatchBound'
      BY <2>2 DEF StoredWhere, CallbackTruthful, IndexCounts, BatchBound
    <3> QED
      BY <3>1, <3>2, <2>2 DEF OnePlace
  <2> QED
    BY <2>1, <2>2
<1>2. TypeOK'
  <2>1. CASE timedOut[b]
    BY <2>1, NewBatchKeeps DEF TypeOK
  <2>2. CASE ~timedOut[b]
    BY <2>2 DEF TypeOK
  <2> QED
    BY <2>1, <2>2
<1>3. OnePlace'
  <2>1. hold' = [hold EXCEPT ![b] = r] /\ offered' = offered \ {r}
    OBVIOUS
  <2>2. \A s \in Batches : r \notin rows[s]
    BY DEF OnePlace
  <2>3. answer[r] = "none" /\ Table[r] = b
    BY DEF OnePlace
  <2>4. r # None /\ \A q \in Records : Table[q] \in Batchers
    BY BatcherAssumption
  <2>5. \A c \in Batchers : hold'[c] # None =>
          Table[hold'[c]] = c /\ hold'[c] \notin offered' /\ answer[hold'[c]] = "none"
    BY <2>1, <2>3, <2>4 DEF OnePlace, TypeOK
  <2>6. \A s \in Batches : \A q \in rows[s] :
          q \notin offered' /\ hold'[Table[q]] # q /\ answer[q] = "none"
    BY <2>1, <2>2, <2>3, <2>4 DEF OnePlace, TypeOK
  <2> QED
    BY <1>1, <2>1, <2>5, <2>6 DEF OnePlace
<1> QED
  BY <1>1, <1>2, <1>3

\* What a held record is not: offered, answered, in a batch, or stored.
LEMMA HeldRecord ==
  ASSUME IndInv, NEW b \in Batchers, hold[b] # None
  PROVE  /\ hold[b] \in Records
         /\ Table[hold[b]] = b
         /\ hold[b] \notin offered
         /\ answer[hold[b]] = "none"
         /\ hold[b] \notin stored
         /\ \A s \in Batches : hold[b] \notin rows[s]
<1>1. hold[b] \in Records /\ Table[hold[b]] = b
  BY DEF IndInv, TypeOK, OnePlace
<1>2. hold[b] \notin offered /\ answer[hold[b]] = "none"
  BY DEF IndInv, OnePlace
<1>3. \A s \in Batches : hold[b] \notin rows[s]
  BY <1>1 DEF IndInv, OnePlace
<1>4. hold[b] \notin stored
  BY <1>1, <1>2, <1>3 DEF IndInv, StoredWhere
<1> QED
  BY <1>1, <1>2, <1>3, <1>4

LEMMA DeliverInv ==
  ASSUME IndInv, NEW b \in Batchers, Deliver(b)
  PROVE  IndInv'
<1> DEFINE d == current[b]
           r == hold[b]
<1>1. /\ r \in Records /\ Table[r] = b /\ r \notin offered /\ answer[r] = "none"
      /\ r \notin stored /\ \A t \in Batches : r \notin rows[t]
  BY HeldRecord DEF Deliver
<1>2. d \in Batches /\ job[d] = "reading"
  BY DEF IndInv, TypeOK, Deliver
<1>3. /\ rows' = [rows EXCEPT ![d] = @ \cup {r}]
      /\ hold' = [hold EXCEPT ![b] = None]
      /\ UNCHANGED <<offered, stored, answer, exited>>
  BY DEF Deliver
<1>4. \A t \in Batches : rows'[t] = IF t = d THEN rows[d] \cup {r} ELSE rows[t]
  BY <1>2, <1>3 DEF IndInv, TypeOK
<1>5. \A t \in Batches : job[t] # "gone" => job'[t] = job[t]
  <2>1. CASE index[b] + 1 = BatchSize
    BY <2>1, NewBatchEffect DEF Deliver, IndInv, TypeOK
  <2>2. CASE index[b] + 1 # BatchSize
    BY <2>2 DEF Deliver
  <2> QED
    BY <2>1, <2>2
<1>6. \A t \in Batches : job[t] = "gone" => job'[t] \in {"gone", "queued"}
  <2>1. CASE index[b] + 1 = BatchSize
    BY <2>1, NewBatchEffect DEF Deliver, IndInv, TypeOK
  <2>2. CASE index[b] + 1 # BatchSize
    BY <2>2 DEF Deliver
  <2> QED
    BY <2>1, <2>2
<1>7. \A t \in Batches : job[t] = "gone" => rows'[t] = {}
  BY <1>2, <1>4 DEF IndInv, RowsOfStarted
<1>8. CurrentDistinct' /\ QueueOK'
  <2>1. CASE index[b] + 1 = BatchSize
    BY <2>1, NewBatchKeeps DEF IndInv, Deliver
  <2>2. CASE index[b] + 1 # BatchSize
    BY <2>2 DEF IndInv, Deliver, CurrentDistinct, QueueOK
  <2> QED
    BY <2>1, <2>2
<1>9. TypeOK'
  <2>1. rows' \in [Batches -> SUBSET Records] /\ hold' \in [Batchers -> Records \cup {None}]
    BY <1>1, <1>2, <1>3 DEF IndInv, TypeOK
  <2>2. CASE index[b] + 1 = BatchSize
    BY <2>1, <2>2, <1>3, NewBatchKeeps DEF IndInv, Deliver, TypeOK
  <2>3. CASE index[b] + 1 # BatchSize
    <3>1. index[b] + 1 \in 0 .. BatchSize
      BY <2>3, BatcherAssumption DEF IndInv, TypeOK, IndexCounts
    <3>2. index' \in [Batchers -> 0 .. BatchSize]
      BY <2>3, <3>1 DEF Deliver, IndInv, TypeOK
    <3> QED
      BY <2>1, <2>3, <3>2, <1>3 DEF IndInv, Deliver, TypeOK
  <2> QED
    BY <2>2, <2>3
<1>10. RowsOfStarted'
  <2> SUFFICES ASSUME NEW t \in Batches
               PROVE  /\ IsFiniteSet(rows'[t])
                      /\ job'[t] \in {"gone", "queued", "opening"} => rows'[t] = {}
    BY DEF RowsOfStarted
  <2>1. IsFiniteSet(rows'[t])
    <3>1. IsFiniteSet(rows[t])
      BY DEF IndInv, RowsOfStarted
    <3>2. IsFiniteSet(rows[t] \cup {r})
      BY <3>1, FS_AddElement
    <3> QED
      BY <3>1, <3>2, <1>4
  <2>2. job'[t] \in {"gone", "queued", "opening"} => rows'[t] = {}
    BY <1>2, <1>4, <1>5, <1>7 DEF IndInv, RowsOfStarted
  <2> QED
    BY <2>1, <2>2
<1>11. OneTable'
  <2>1. \A q \in rows[d] : Table[q] = b
    BY DEF IndInv, OnePlace
  <2> QED
    BY <2>1, <1>1, <1>4 DEF IndInv, OneTable
<1>12. StoredWhere' /\ CallbackTruthful'
  <2>1. StoredWhere'
    BY <1>3, <1>4, <1>5 DEF IndInv, StoredWhere
  <2>2. \A t \in Batches : /\ job'[t] = "committed" => rows'[t] \subseteq stored
                           /\ job'[t] # "committed" => rows'[t] \cap stored = {}
    BY <1>1, <1>2, <1>4, <1>5, <1>7 DEF IndInv, CallbackTruthful
  <2> QED
    BY <2>1, <2>2, <1>3 DEF IndInv, CallbackTruthful
<1>13. \A c \in Batchers : \/ current'[c] = current[c]
                           \/ c = b /\ rows'[current'[c]] = {}
  <2>1. CASE index[b] + 1 = BatchSize
    BY <2>1, <1>7, NewBatchEffect DEF Deliver, IndInv, TypeOK
  <2>2. CASE index[b] + 1 # BatchSize
    BY <2>2 DEF Deliver
  <2> QED
    BY <2>1, <2>2
<1>14. OnePlace'
  <2>1. \A c \in Batchers : hold'[c] # None =>
          Table[hold'[c]] = c /\ hold'[c] \notin offered' /\ answer'[hold'[c]] = "none"
    BY <1>3 DEF IndInv, TypeOK, OnePlace
  <2>2. \A t \in Batches : \A q \in rows'[t] :
          q \notin offered' /\ hold'[Table[q]] # q /\ answer'[q] = "none"
    <3> SUFFICES ASSUME NEW t \in Batches, NEW q \in rows'[t]
                 PROVE  q \notin offered' /\ hold'[Table[q]] # q /\ answer'[q] = "none"
      OBVIOUS
    <3>0. r # None
      BY DEF Deliver
    <3>1. CASE q = r
      BY <3>0, <3>1, <1>1, <1>3 DEF IndInv, TypeOK
    <3>2. CASE q # r
      <4>1. q \in rows[t] /\ q \in Records /\ Table[q] \in Batchers
        <5>1. q \in rows[t]
          BY <3>2, <1>4
        <5>2. q \in Records
          BY <5>1 DEF IndInv, TypeOK
        <5> QED
          BY <5>1, <5>2, BatcherAssumption
      <4>2. q # None
        BY <4>1, BatcherAssumption
      <4> QED
        BY <4>1, <4>2, <1>3 DEF IndInv, TypeOK, OnePlace
    <3> QED
      BY <3>1, <3>2
  <2>3. \A t, u \in Batches : t # u => rows'[t] \cap rows'[u] = {}
    BY <1>1, <1>4 DEF IndInv, OnePlace
  <2>4. \A c \in Batchers : \A q \in rows'[current'[c]] : Table[q] = c
    <3> SUFFICES ASSUME NEW c \in Batchers, NEW q \in rows'[current'[c]]
                 PROVE  Table[q] = c
      OBVIOUS
    <3>1. current'[c] = current[c] /\ current[c] \in Batches
      BY <1>13 DEF IndInv, TypeOK
    <3>2. CASE c = b
      BY <3>1, <3>2, <1>1, <1>4 DEF IndInv, OnePlace
    <3>3. CASE c # b
      BY <3>1, <3>3, <1>4 DEF IndInv, OnePlace, CurrentDistinct
    <3> QED
      BY <3>2, <3>3
  <2>5. \A q \in offered' : answer'[q] = "none"
    BY <1>3 DEF IndInv, OnePlace
  <2> QED
    BY <2>1, <2>2, <2>3, <2>4, <2>5 DEF OnePlace
<1>15. Cardinality(rows'[d]) <= index[b] + 1
  <2>1. rows'[d] = rows[d] \cup {r} /\ IsFiniteSet(rows[d])
    BY <1>2, <1>4 DEF IndInv, RowsOfStarted
  <2>2. Cardinality(rows[d] \cup {r}) <= Cardinality(rows[d]) + 1 /\ Cardinality(rows[d]) \in Nat
    <3>1. Cardinality(rows[d]) \in Nat
      BY <2>1, FS_CardinalityType
    <3>2. Cardinality(rows[d] \cup {r}) = IF r \in rows[d] THEN Cardinality(rows[d])
                                                          ELSE Cardinality(rows[d]) + 1
      BY <2>1, FS_AddElement
    <3> QED
      BY <3>1, <3>2
  <2>3. Cardinality(rows[d]) <= index[b] /\ index[b] \in Nat
    BY BatcherAssumption DEF IndInv, IndexCounts, TypeOK
  <2>4. Cardinality(rows[d] \cup {r}) \in Nat
    BY <2>1, FS_AddElement, FS_CardinalityType
  <2> QED
    BY <2>1, <2>2, <2>3, <2>4
<1>16. BatchBound'
  <2> SUFFICES ASSUME NEW t \in Batches PROVE Cardinality(rows'[t]) <= BatchSize
    BY DEF BatchBound
  <2>1. CASE t = d
    <3>1. index[b] + 1 <= BatchSize /\ index[b] \in Nat
      BY BatcherAssumption DEF IndInv, IndexCounts, TypeOK
    <3>2. Cardinality(rows'[d]) \in Nat
      BY <1>10, <1>2, FS_CardinalityType DEF RowsOfStarted
    <3> QED
      BY <2>1, <3>1, <3>2, <1>15, BatcherAssumption
  <2>2. CASE t # d
    BY <2>2, <1>4 DEF IndInv, BatchBound
  <2> QED
    BY <2>1, <2>2
<1>17. IndexCounts'
  <2> SUFFICES ASSUME NEW c \in Batchers
               PROVE  Cardinality(rows'[current'[c]]) <= index'[c] /\ index'[c] < BatchSize
    BY DEF IndexCounts
  <2>0. Cardinality({}) = 0
    BY FS_EmptySet
  <2>1. CASE c = b /\ index[b] + 1 = BatchSize
    <3>1. index'[c] = 0 /\ rows'[current'[c]] = {}
      BY <2>1, <1>7, NewBatchEffect DEF Deliver, IndInv, TypeOK
    <3> QED
      BY <3>1, <2>0, BatcherAssumption
  <2>2. CASE c = b /\ index[b] + 1 # BatchSize
    <3>1. index'[c] = index[b] + 1 /\ current'[c] = d
      BY <2>2 DEF Deliver, IndInv, TypeOK
    <3>2. index[b] + 1 < BatchSize
      BY <2>2, BatcherAssumption DEF IndInv, IndexCounts, TypeOK
    <3> QED
      BY <3>1, <3>2, <1>15
  <2>3. CASE c # b
    <3>1. current'[c] = current[c] /\ current[c] # d /\ current[c] \in Batches
      BY <2>3, <1>13 DEF IndInv, TypeOK, CurrentDistinct
    <3>2. index'[c] = index[c]
      <4>1. CASE index[b] + 1 = BatchSize
        BY <4>1, <2>3, NewBatchEffect DEF Deliver, IndInv, TypeOK
      <4>2. CASE index[b] + 1 # BatchSize
        BY <4>2, <2>3 DEF Deliver, IndInv, TypeOK
      <4> QED
        BY <4>1, <4>2
    <3> QED
      BY <3>1, <3>2, <1>4 DEF IndInv, IndexCounts
  <2> QED
    BY <2>1, <2>2, <2>3
<1> QED
  BY <1>8, <1>9, <1>10, <1>11, <1>12, <1>14, <1>16, <1>17 DEF IndInv

\* A step of a job that leaves the loops, the pool's queue and the queued jobs alone
\* keeps what is said about those.
LEMMA JobStepKeeps ==
  ASSUME IndInv, UNCHANGED <<offered, hold, current, index, queue>>,
         \A s \in Batches : job[s] = "queued" => job'[s] = "queued"
  PROVE  CurrentDistinct' /\ QueueOK'
<1>1. CurrentDistinct'
  BY DEF IndInv, CurrentDistinct
<1>2. \A i \in 1 .. Len(queue) : queue[i] \in Batches
  BY ElementOfSeq DEF IndInv, TypeOK
<1>3. QueueOK'
  BY <1>2 DEF IndInv, QueueOK
<1> QED
  BY <1>1, <1>3

LEMMA StartJobInv ==
  ASSUME IndInv, StartJob
  PROVE  IndInv'
<1> DEFINE h == Head(queue)
<1>0. /\ queue # <<>> /\ queue \in Seq(Batches)
      /\ job' = [job EXCEPT ![h] = "opening"] /\ queue' = Tail(queue)
      /\ UNCHANGED <<offered, hold, current, index, timedOut, rows, stored, answer, exited>>
  BY DEF StartJob, loopVars, IndInv, TypeOK
<1>1. /\ h \in Batches /\ queue' \in Seq(Batches) /\ Len(queue) \in Nat \ {0}
      /\ Len(queue') = Len(queue) - 1 /\ h = queue[1]
      /\ \A i \in 1 .. Len(queue') : queue'[i] = queue[i + 1]
  BY <1>0
<1>2. job[h] = "queued" /\ rows[h] = {}
  BY <1>1 DEF IndInv, QueueOK, RowsOfStarted
<1>3. TypeOK'
  BY <1>0, <1>1 DEF IndInv, TypeOK
<1>4. QueueOK'
  <2>1. \A i \in 1 .. Len(queue') : i + 1 \in 1 .. Len(queue) /\ i + 1 # 1
    BY <1>1
  <2>2. \A i \in 1 .. Len(queue') : queue'[i] # h /\ job[queue'[i]] = "queued"
    BY <2>1, <1>1 DEF IndInv, QueueOK
  <2>3. \A i \in 1 .. Len(queue') : job'[queue'[i]] = "queued"
    BY <2>2, <1>0, <1>1 DEF IndInv, TypeOK
  <2>4. \A i, j \in 1 .. Len(queue') : queue'[i] = queue'[j] => i = j
    BY <2>1, <1>1 DEF IndInv, QueueOK
  <2> QED
    BY <2>3, <2>4 DEF QueueOK
<1>5. CurrentDistinct' /\ RowsOfStarted' /\ OnePlace' /\ OneTable'
  BY <1>0, <1>2
  DEF IndInv, TypeOK, CurrentDistinct, RowsOfStarted, OnePlace, OneTable
<1>6. StoredWhere' /\ CallbackTruthful' /\ IndexCounts' /\ BatchBound'
  BY <1>0, <1>2
  DEF IndInv, TypeOK, StoredWhere, CallbackTruthful, IndexCounts, BatchBound
<1> QED
  BY <1>3, <1>4, <1>5, <1>6 DEF IndInv

LEMMA OpenFailsInv ==
  ASSUME IndInv, NEW s \in Batches, OpenFails(s)
  PROVE  IndInv'
<1> USE DEF IndInv, OpenFails, loopVars
<1>1. TypeOK' /\ CurrentDistinct' /\ QueueOK' /\ RowsOfStarted' /\ OnePlace' /\ OneTable'
  BY DEF TypeOK, CurrentDistinct, QueueOK, RowsOfStarted, OnePlace, OneTable
<1>2. StoredWhere' /\ CallbackTruthful' /\ IndexCounts' /\ BatchBound'
  BY DEF StoredWhere, CallbackTruthful, IndexCounts, BatchBound
<1> QED
  BY <1>1, <1>2

LEMMA TimeoutSetInv ==
  ASSUME IndInv, NEW b \in Batchers, TimeoutSet(b)
  PROVE  IndInv'
<1> USE DEF IndInv, TimeoutSet
<1>1. TypeOK' /\ CurrentDistinct' /\ QueueOK' /\ RowsOfStarted' /\ OnePlace' /\ OneTable'
  BY DEF TypeOK, CurrentDistinct, QueueOK, RowsOfStarted, OnePlace, OneTable
<1>2. StoredWhere' /\ CallbackTruthful' /\ IndexCounts' /\ BatchBound'
  BY DEF StoredWhere, CallbackTruthful, IndexCounts, BatchBound
<1> QED
  BY <1>1, <1>2

\* A job that only changes its own state, keeping its rows.
LEMMA JobMoves ==
  ASSUME IndInv, NEW s \in Batches, NEW j \in {"gone", "reading", "failed"},
         job[s] \in {"opening", "reading", "committed", "failed"},
         j = "gone" => rows[s] = {},
         job[s] = "committed" => rows[s] = {},
         job' = [job EXCEPT ![s] = j],
         UNCHANGED <<offered, loopVars, queue, rows, stored, answer, exited>>
  PROVE  IndInv'
<1> USE DEF IndInv, loopVars
<1>1. TypeOK'
  BY DEF TypeOK
<1>2. CurrentDistinct' /\ QueueOK'
  <2>1. \A t \in Batches : job[t] = "queued" => job'[t] = "queued"
    BY DEF TypeOK
  <2> QED
    BY <2>1, JobStepKeeps
<1>3. RowsOfStarted' /\ OnePlace' /\ OneTable'
  BY DEF TypeOK, RowsOfStarted, OnePlace, OneTable
<1>4. StoredWhere' /\ CallbackTruthful'
  BY DEF TypeOK, StoredWhere, CallbackTruthful
<1>5. IndexCounts' /\ BatchBound'
  BY DEF IndexCounts, BatchBound
<1> QED
  BY <1>1, <1>2, <1>3, <1>4, <1>5

LEMMA CopyCommitsInv ==
  ASSUME IndInv, NEW s \in Batches, CopyCommits(s)
  PROVE  IndInv'
<1> USE DEF IndInv, CopyCommits, loopVars
<1>1. TypeOK'
  BY DEF TypeOK
<1>2. CurrentDistinct' /\ QueueOK'
  <2>1. \A t \in Batches : job[t] = "queued" => job'[t] = "queued"
    BY DEF TypeOK
  <2> QED
    BY <2>1, JobStepKeeps
<1>3. RowsOfStarted' /\ OnePlace' /\ OneTable'
  BY DEF TypeOK, RowsOfStarted, OnePlace, OneTable
<1>4. StoredWhere'
  BY DEF TypeOK, StoredWhere
<1>5. CallbackTruthful'
  <2>1. \A r \in rows[s] : answer[r] = "none"
    BY DEF OnePlace
  <2>2. \A t \in Batches : t # s => rows[t] \cap rows[s] = {}
    BY DEF OnePlace
  <2> QED
    BY <2>1, <2>2 DEF TypeOK, CallbackTruthful
<1>6. IndexCounts' /\ BatchBound'
  BY DEF IndexCounts, BatchBound
<1> QED
  BY <1>1, <1>2, <1>3, <1>4, <1>5, <1>6

LEMMA CallbackInv ==
  ASSUME IndInv, NEW s \in Batches, NEW r \in Records, Callback(s, r)
  PROVE  IndInv'
<1> USE DEF IndInv, Callback, loopVars
<1>0. \A t \in Batches : rows'[t] = IF t = s THEN rows[s] \ {r} ELSE rows[t]
  BY DEF TypeOK
<1>1. TypeOK'
  BY DEF TypeOK
<1>2. CurrentDistinct' /\ QueueOK'
  BY JobStepKeeps
<1>3. \A t \in Batches : /\ IsFiniteSet(rows'[t]) /\ rows'[t] \subseteq rows[t]
                         /\ Cardinality(rows'[t]) <= Cardinality(rows[t])
                         /\ Cardinality(rows[t]) \in Nat /\ Cardinality(rows'[t]) \in Nat
  <2> SUFFICES ASSUME NEW t \in Batches
               PROVE  /\ IsFiniteSet(rows'[t]) /\ rows'[t] \subseteq rows[t]
                      /\ Cardinality(rows'[t]) <= Cardinality(rows[t])
                      /\ Cardinality(rows[t]) \in Nat /\ Cardinality(rows'[t]) \in Nat
    OBVIOUS
  <2>1. IsFiniteSet(rows[t])
    BY DEF RowsOfStarted
  <2>2. rows'[t] \subseteq rows[t]
    BY <1>0
  <2>3. IsFiniteSet(rows'[t]) /\ Cardinality(rows'[t]) <= Cardinality(rows[t])
    BY <2>1, <2>2, FS_Subset
  <2> QED
    BY <2>1, <2>2, <2>3, FS_CardinalityType
<1>4. RowsOfStarted' /\ OneTable'
  <2>1. \A t \in Batches : rows'[t] \subseteq rows[t] /\ IsFiniteSet(rows'[t])
    BY <1>3
  <2>2. RowsOfStarted'
    BY <2>1 DEF RowsOfStarted
  <2>3. OneTable'
    BY <2>1 DEF OneTable
  <2> QED
    BY <2>2, <2>3
<1>5. r \notin offered /\ \A b \in Batchers : hold[b] # r
  <2>1. r \notin offered /\ hold[Table[r]] # r /\ r # None
    BY BatcherAssumption DEF OnePlace
  <2>2. \A b \in Batchers : hold[b] = r => Table[r] = b
    BY <2>1 DEF OnePlace
  <2> QED
    BY <2>1, <2>2
<1>6. \A t \in Batches : r \notin rows'[t]
  BY <1>0 DEF OnePlace
<1>7. \A q \in Records : q # r => answer'[q] = answer[q]
  BY DEF TypeOK
<1>8. OnePlace'
  <2>1. \A q \in offered' : answer'[q] = "none"
    BY <1>5, <1>7 DEF OnePlace, TypeOK
  <2>2. \A b \in Batchers : hold'[b] # None =>
          Table[hold'[b]] = b /\ hold'[b] \notin offered' /\ answer'[hold'[b]] = "none"
    BY <1>5, <1>7 DEF OnePlace, TypeOK
  <2>3. \A t \in Batches : \A q \in rows'[t] :
          q \notin offered' /\ hold'[Table[q]] # q /\ answer'[q] = "none"
    BY <1>1, <1>3, <1>6, <1>7 DEF OnePlace, TypeOK
  <2>4. \A t, u \in Batches : t # u => rows'[t] \cap rows'[u] = {}
    BY <1>3 DEF OnePlace
  <2>5. \A b \in Batchers : \A q \in rows'[current'[b]] : Table[q] = b
    BY <1>3 DEF OnePlace, TypeOK
  <2> QED
    BY <2>1, <2>2, <2>3, <2>4, <2>5 DEF OnePlace
<1>9. StoredWhere'
  <2> SUFFICES ASSUME NEW q \in stored'
               PROVE  \/ answer'[q] = "ok"
                      \/ \E t \in Batches : job'[t] = "committed" /\ q \in rows'[t]
    BY DEF StoredWhere
  <2>1. CASE q = r
    BY <2>1 DEF TypeOK, CallbackTruthful
  <2>2. CASE q # r
    BY <2>2, <1>0, <1>7 DEF TypeOK, StoredWhere
  <2> QED
    BY <2>1, <2>2
<1>10. CallbackTruthful'
  <2>1. answer'[r] = IF job[s] = "committed" THEN "ok" ELSE "error"
    BY DEF TypeOK
  <2>2. \A q \in Records : /\ answer'[q] = "ok" => q \in stored'
                           /\ answer'[q] = "error" => q \notin stored'
    BY <2>1, <1>7 DEF CallbackTruthful
  <2> QED
    BY <2>2, <1>3 DEF CallbackTruthful
<1>11. IndexCounts'
  <2> SUFFICES ASSUME NEW b \in Batchers
               PROVE  Cardinality(rows'[current[b]]) <= index[b] /\ index[b] < BatchSize
    BY DEF IndexCounts
  <2>1. current[b] \in Batches /\ index[b] \in Nat
    BY BatcherAssumption DEF TypeOK
  <2>2. /\ Cardinality(rows'[current[b]]) <= Cardinality(rows[current[b]])
        /\ Cardinality(rows[current[b]]) \in Nat /\ Cardinality(rows'[current[b]]) \in Nat
    BY <2>1, <1>3
  <2>3. Cardinality(rows[current[b]]) <= index[b] /\ index[b] < BatchSize
    BY DEF IndexCounts
  <2> QED
    BY <2>1, <2>2, <2>3
<1>12. BatchBound'
  <2> SUFFICES ASSUME NEW t \in Batches PROVE Cardinality(rows'[t]) <= BatchSize
    BY DEF BatchBound
  <2>1. /\ Cardinality(rows'[t]) <= Cardinality(rows[t])
        /\ Cardinality(rows[t]) \in Nat /\ Cardinality(rows'[t]) \in Nat
    BY <1>3
  <2>2. Cardinality(rows[t]) <= BatchSize
    BY DEF BatchBound
  <2> QED
    BY <2>1, <2>2, BatcherAssumption
<1> QED
  BY <1>1, <1>2, <1>4, <1>8, <1>9, <1>10, <1>11, <1>12

\* The invariant is inductive.
LEMMA NextInv ==
  ASSUME IndInv, [Next]_vars
  PROVE  IndInv'
<1>1. CASE UNCHANGED vars
  BY <1>1 DEF vars, IndInv, TypeOK, CurrentDistinct, QueueOK, RowsOfStarted, OnePlace,
     OneTable, StoredWhere, CallbackTruthful, IndexCounts, BatchBound
<1>2. ASSUME NEW r \in Records, PushCallback(r) PROVE IndInv'
  BY <1>2, PushCallbackInv
<1>3. ASSUME NEW b \in Batchers, SelectTimeout(b) PROVE IndInv'
  BY <1>3, SelectTimeoutInv
<1>4. ASSUME NEW b \in Batchers, NEW r \in Records, SelectRecord(b, r) PROVE IndInv'
  BY <1>4, SelectRecordInv
<1>5. ASSUME NEW b \in Batchers, Deliver(b) PROVE IndInv'
  BY <1>5, DeliverInv
<1>6. ASSUME NEW b \in Batchers, TimeoutSet(b) PROVE IndInv'
  BY <1>6, TimeoutSetInv
<1>7. CASE StartJob
  BY <1>7, StartJobInv
<1>8. ASSUME NEW s \in Batches, OpenFails(s) PROVE IndInv'
  BY <1>8, OpenFailsInv
<1>9. ASSUME NEW s \in Batches, FirstNext(s) PROVE IndInv'
  BY <1>9, JobMoves DEF FirstNext
<1>10. ASSUME NEW s \in Batches, CopyAborts(s) PROVE IndInv'
  BY <1>10, JobMoves DEF CopyAborts
<1>11. ASSUME NEW s \in Batches, CopyCommits(s) PROVE IndInv'
  BY <1>11, CopyCommitsInv
<1>12. ASSUME NEW s \in Batches, CopyRefused(s) PROVE IndInv'
  BY <1>12, JobMoves DEF CopyRefused
<1>13. ASSUME NEW s \in Batches, NEW r \in Records, Callback(s, r) PROVE IndInv'
  BY <1>13, CallbackInv
<1>14. ASSUME NEW s \in Batches, JobReturns(s) PROVE IndInv'
  BY <1>14, JobMoves DEF JobReturns
<1> QED
  BY <1>1, <1>2, <1>3, <1>4, <1>5, <1>6, <1>7, <1>8, <1>9, <1>10, <1>11, <1>12, <1>13,
     <1>14 DEF Next, BatcherStep

LEMMA SpecInv == Spec => []IndInv
  BY InitInv, NextInv, PTL DEF Spec

--------------------------------------------------------------------------------
(* The worker pool: a batch that waits for a worker is fed by some loop. *)

Queued == {s \in Batches : job[s] = "queued"}

\* A loop leaves a batch only after its job was started, so the jobs that wait are at most
\* one per loop; the jobs that run are at most one per worker.
PoolInv == /\ \A b \in Batchers : timedOut[b] => job[current[b]] \notin {"queued", "opening"}
           /\ \A s \in Queued : ~Closed(s)
           /\ Cardinality(Running) <= Workers

LEMMA PoolInit == Init => PoolInv
<1> SUFFICES ASSUME Init PROVE PoolInv
  OBVIOUS
<1>1. Running = {}
  BY DEF Init, Running
<1>2. Cardinality(Running) <= Workers
  BY <1>1, FS_EmptySet, BatcherAssumption
<1> QED
  BY <1>2 DEF Init, PoolInv, Queued

\* Any subset of the batches is finite.
LEMMA FewBatches ==
  ASSUME NEW S \in SUBSET Batches
  PROVE  IsFiniteSet(S) /\ Cardinality(S) \in Nat
  BY BatcherAssumption, FS_Subset, FS_CardinalityType

\* A step that starts no job keeps the workers' share.
LEMMA NoneStarted ==
  ASSUME Cardinality(Running) <= Workers,
         \A s \in Batches : s \in Running' => s \in Running
  PROVE  Cardinality(Running)' <= Workers
<1>1. Running' \in SUBSET Running /\ Running \in SUBSET Batches /\ Running' \in SUBSET Batches
  BY DEF Running
<1>2. Cardinality(Running') <= Cardinality(Running)
  BY <1>1, FewBatches, FS_Subset
<1> QED
  BY <1>1, <1>2, FewBatches, BatcherAssumption

\* A loop that moves on leaves a batch whose job was started.
LEMMA NewBatchPool ==
  ASSUME IndInv, PoolInv, NEW b \in Batchers, NewBatch(b), job[current[b]] # "queued"
  PROVE  PoolInv'
<1>1. PICK s \in Batches :
           /\ job[s] = "gone" /\ Closed(s)
           /\ current' = [current EXCEPT ![b] = s]
           /\ job' = [job EXCEPT ![s] = "queued"]
           /\ queue' = Append(queue, s)
           /\ index' = [index EXCEPT ![b] = 0]
           /\ timedOut' = [timedOut EXCEPT ![b] = FALSE]
  BY NewBatchEffect
<1>2. \A c \in Batchers : timedOut'[c] => job'[current'[c]] \notin {"queued", "opening"}
  BY <1>1 DEF IndInv, TypeOK, PoolInv, Closed
<1>3. \A t \in Queued' : ~Closed(t)'
  <2> SUFFICES ASSUME NEW t \in Queued' PROVE \E c \in Batchers : current'[c] = t
    BY DEF Closed
  <2>1. CASE t = s
    BY <2>1, <1>1 DEF IndInv, TypeOK
  <2>2. CASE t # s
    <3>1. t \in Queued
      BY <2>2, <1>1 DEF Queued, IndInv, TypeOK
    <3>2. PICK c \in Batchers : current[c] = t
      BY <3>1 DEF PoolInv, Closed
    <3>3. c # b
      BY <3>1, <3>2 DEF Queued
    <3> QED
      BY <3>2, <3>3, <1>1 DEF IndInv, TypeOK
  <2> QED
    BY <2>1, <2>2
<1>4. \A t \in Batches : t \in Running' => t \in Running
  BY <1>1 DEF Running, IndInv, TypeOK
<1> QED
  BY <1>2, <1>3, <1>4, NoneStarted DEF PoolInv

\* A step that leaves the loops and the waiting jobs alone, and starts none.
LEMMA PoolKeeps ==
  ASSUME PoolInv, UNCHANGED <<current, timedOut>>,
         \A s \in Batches : /\ job'[s] \in {"queued", "opening"} => job'[s] = job[s]
                            /\ s \in Running' => s \in Running,
         TypeOK
  PROVE  PoolInv'
<1>1. \A c \in Batchers : timedOut'[c] => job'[current'[c]] \notin {"queued", "opening"}
  BY DEF PoolInv, TypeOK
<1>2. \A t \in Queued' : ~Closed(t)'
  BY DEF PoolInv, Queued, Closed
<1> QED
  BY <1>1, <1>2, NoneStarted DEF PoolInv

\* An idle worker takes a job that waited.
LEMMA StartJobPool ==
  ASSUME IndInv, PoolInv, StartJob
  PROVE  PoolInv'
<1> DEFINE h == Head(queue)
<1>1. /\ h \in Batches /\ job[h] = "queued"
      /\ job' = [job EXCEPT ![h] = "opening"] /\ UNCHANGED <<current, timedOut>>
  <2>1. queue \in Seq(Batches) /\ queue # <<>>
    BY DEF StartJob, IndInv, TypeOK
  <2>2. h \in Batches /\ h = queue[1] /\ 1 \in 1 .. Len(queue)
    BY <2>1
  <2> QED
    BY <2>2 DEF StartJob, loopVars, IndInv, QueueOK
<1>2. \A c \in Batchers : timedOut'[c] => job'[current'[c]] \notin {"queued", "opening"}
  BY <1>1 DEF PoolInv, IndInv, TypeOK
<1>3. \A t \in Queued' : ~Closed(t)'
  BY <1>1 DEF PoolInv, Queued, Closed, IndInv, TypeOK
<1>4. Running' = Running \cup {h}
  BY <1>1 DEF Running, IndInv, TypeOK
<1>5. Cardinality(Running') <= Workers
  <2>1. IsFiniteSet(Running) /\ Cardinality(Running) \in Nat
    BY FewBatches DEF Running
  <2>2. Cardinality(Running \cup {h}) <= Cardinality(Running) + 1
    BY <2>1, FS_AddElement
  <2>3. Cardinality(Running) < Workers
    BY DEF StartJob
  <2>4. IsFiniteSet(Running \cup {h}) /\ Cardinality(Running \cup {h}) \in Nat
    BY <2>1, FS_AddElement, FS_CardinalityType
  <2> QED
    BY <1>4, <2>1, <2>2, <2>3, <2>4, BatcherAssumption
<1> QED
  BY <1>2, <1>3, <1>5 DEF PoolInv

LEMMA PoolNext ==
  ASSUME IndInv, PoolInv, [Next]_vars
  PROVE  PoolInv'
<1>t. TypeOK
  BY DEF IndInv
<1>1. CASE UNCHANGED vars
  BY <1>1, <1>t, PoolKeeps DEF vars, Running
<1>2. ASSUME NEW r \in Records, PushCallback(r) PROVE PoolInv'
  BY <1>2, <1>t, PoolKeeps DEF PushCallback, loopVars, Running
<1>3. ASSUME NEW b \in Batchers, SelectTimeout(b) PROVE PoolInv'
  BY <1>3, NewBatchPool DEF SelectTimeout, PoolInv
<1>4. ASSUME NEW b \in Batchers, NEW r \in Records, SelectRecord(b, r) PROVE PoolInv'
  <2>1. CASE timedOut[b]
    BY <1>4, <2>1, NewBatchPool DEF SelectRecord, PoolInv
  <2>2. CASE ~timedOut[b]
    BY <1>4, <2>2, <1>t, PoolKeeps DEF SelectRecord, Running
  <2> QED
    BY <2>1, <2>2
<1>5. ASSUME NEW b \in Batchers, Deliver(b) PROVE PoolInv'
  <2>1. CASE index[b] + 1 = BatchSize
    BY <1>5, <2>1, NewBatchPool DEF Deliver
  <2>2. CASE index[b] + 1 # BatchSize
    BY <1>5, <2>2, <1>t, PoolKeeps DEF Deliver, Running
  <2> QED
    BY <2>1, <2>2
<1>6. ASSUME NEW b \in Batchers, TimeoutSet(b) PROVE PoolInv'
  <2>1. \A c \in Batchers : timedOut'[c] => job'[current'[c]] \notin {"queued", "opening"}
    BY <1>6, <1>t DEF TimeoutSet, PoolInv, TypeOK
  <2>2. UNCHANGED <<current, job>>
    BY <1>6 DEF TimeoutSet
  <2> QED
    BY <2>1, <2>2 DEF PoolInv, Queued, Closed, Running
<1>7. CASE StartJob
  BY <1>7, StartJobPool
<1>8. ASSUME NEW s \in Batches, OpenFails(s) PROVE PoolInv'
  BY <1>8, <1>t, PoolKeeps DEF OpenFails, loopVars, Running
<1>9. ASSUME NEW s \in Batches,
             \/ FirstNext(s) \/ CopyAborts(s) \/ CopyCommits(s) \/ CopyRefused(s) \/ JobReturns(s)
      PROVE  PoolInv'
  <2>1. UNCHANGED <<current, timedOut>>
    BY <1>9 DEF FirstNext, CopyAborts, CopyCommits, CopyRefused, JobReturns, loopVars
  <2>2. PICK j \in {"reading", "failed", "committed", "gone"} : job' = [job EXCEPT ![s] = j]
    BY <1>9 DEF FirstNext, CopyAborts, CopyCommits, CopyRefused, JobReturns
  <2>3. s \in Running
    BY <1>9 DEF FirstNext, CopyAborts, CopyCommits, CopyRefused, JobReturns, Running
  <2>4. \A t \in Batches : /\ job'[t] \in {"queued", "opening"} => job'[t] = job[t]
                           /\ t \in Running' => t \in Running
    BY <2>2, <2>3, <1>t DEF Running, TypeOK
  <2> QED
    BY <2>1, <2>4, <1>t, PoolKeeps
<1>10. ASSUME NEW s \in Batches, NEW r \in Records, Callback(s, r) PROVE PoolInv'
  BY <1>10, <1>t, PoolKeeps DEF Callback, loopVars, Running
<1> QED
  BY <1>1, <1>2, <1>3, <1>4, <1>5, <1>6, <1>7, <1>8, <1>9, <1>10 DEF Next, BatcherStep

\* The waiting jobs are no more than the loops, since each loop feeds one batch.
LEMMA QueuedBound ==
  ASSUME TypeOK, PoolInv
  PROVE  IsFiniteSet(Queued) /\ Cardinality(Queued) <= Cardinality(Batchers)
<1> DEFINE feeder == [s \in Queued |-> CHOOSE b \in Batchers : current[b] = s]
<1>1. \A s \in Queued : feeder[s] \in Batchers /\ current[feeder[s]] = s
  BY DEF PoolInv, Closed
<1>2. feeder \in Injection(Queued, Batchers)
  BY <1>1 DEF Injection, IsInjective
<1> QED
  BY <1>2, FS_Injection, BatcherAssumption

LEMMA PoolBound ==
  ASSUME TypeOK, PoolInv
  PROVE  Backpressure
<1>1. {s \in Batches : job[s] # "gone"} = Queued \cup Running
  BY DEF TypeOK, Queued, Running
<1>2. /\ IsFiniteSet(Queued) /\ IsFiniteSet(Running)
      /\ Cardinality(Queued) \in Nat /\ Cardinality(Running) \in Nat
      /\ Cardinality(Queued \cap Running) \in Nat
  <2>1. /\ Queued \in SUBSET Batches /\ Running \in SUBSET Batches
        /\ (Queued \cap Running) \in SUBSET Batches
    BY DEF Queued, Running
  <2> QED
    BY <2>1, FewBatches
<1>3. Cardinality(Queued \cup Running)
        = Cardinality(Queued) + Cardinality(Running) - Cardinality(Queued \cap Running)
  BY <1>2, FS_Union
<1>4. Cardinality(Queued) <= Cardinality(Batchers) /\ Cardinality(Batchers) \in Nat
  BY QueuedBound, FS_CardinalityType, BatcherAssumption
<1>5. Cardinality(Running) <= Workers /\ Workers \in Nat
  BY BatcherAssumption DEF PoolInv
<1>6. Cardinality(Queued \cup Running) <= Workers + Cardinality(Batchers)
  BY <1>2, <1>3, <1>4, <1>5
<1> QED
  BY <1>1, <1>6 DEF Backpressure

LEMMA SpecPool == Spec => [](IndInv /\ PoolInv)
  BY InitInv, NextInv, PoolInit, PoolNext, PTL DEF Spec

--------------------------------------------------------------------------------
(* No batch is short of an identity, no waiting job falls out of the queue. *)

\* The batches in use are those the loops feed and those whose jobs run.
LEMMA UsedBound ==
  ASSUME TypeOK, PoolInv
  PROVE  /\ IsFiniteSet(Batches \ Garbage)
         /\ Cardinality(Batches \ Garbage) <= Workers + Cardinality(Batchers)
<1> DEFINE Fed == {current[b] : b \in Batchers}
<1>1. Batches \ Garbage \subseteq Fed \cup Running
  BY DEF Garbage, Closed, Running, Queued, PoolInv, TypeOK
<1>2. IsFiniteSet(Fed) /\ Cardinality(Fed) <= Cardinality(Batchers)
  <2> DEFINE feeder == [s \in Fed |-> CHOOSE b \in Batchers : current[b] = s]
  <2>1. \A s \in Fed : feeder[s] \in Batchers /\ current[feeder[s]] = s
    OBVIOUS
  <2>2. feeder \in Injection(Fed, Batchers)
    BY <2>1 DEF Injection, IsInjective
  <2> QED
    BY <2>2, FS_Injection, BatcherAssumption
<1>3. IsFiniteSet(Running) /\ Cardinality(Running) \in Nat
  BY FewBatches DEF Running
<1>4. /\ Fed \cup Running \in SUBSET Batches /\ Fed \in SUBSET Batches
      /\ Fed \cap Running \in SUBSET Batches
  BY DEF TypeOK, Running
<1>5. Cardinality(Fed \cup Running)
        = Cardinality(Fed) + Cardinality(Running) - Cardinality(Fed \cap Running)
  BY <1>2, <1>3, FS_Union
<1>6. /\ Cardinality(Fed) \in Nat /\ Cardinality(Fed \cap Running) \in Nat
      /\ Cardinality(Batchers) \in Nat /\ Workers \in Nat
  BY <1>4, FewBatches, FS_CardinalityType, BatcherAssumption
<1>7. Cardinality(Fed \cup Running) <= Workers + Cardinality(Batchers)
  BY <1>2, <1>3, <1>5, <1>6 DEF PoolInv
<1>8. /\ IsFiniteSet(Fed \cup Running) /\ IsFiniteSet(Batches \ Garbage)
      /\ Cardinality(Batches \ Garbage) <= Cardinality(Fed \cup Running)
      /\ Cardinality(Batches \ Garbage) \in Nat /\ Cardinality(Fed \cup Running) \in Nat
  BY <1>1, <1>4, FewBatches, FS_Subset
<1> QED
  BY <1>6, <1>7, <1>8

\* A submitted job is in the pool's queue until a worker takes it.
AllQueued == \A s \in Queued : \E i \in 1 .. Len(queue) : queue[i] = s

LEMMA AllQueuedInit == Init => AllQueued
<1> SUFFICES ASSUME Init, NEW s \in Queued PROVE \E i \in 1 .. Len(queue) : queue[i] = s
  BY DEF AllQueued
<1> DEFINE N == Cardinality(Batchers)
<1>1. PICK b \in Batchers : current[b] = s
  BY DEF Init, Queued, Closed
<1>2. PICK order \in [1 .. N -> Batchers] :
         /\ \A i, j \in 1 .. N : order[i] = order[j] => i = j
         /\ queue = [i \in 1 .. N |-> current[order[i]]]
  BY DEF Init
<1>3. N \in Nat /\ IsFiniteSet(1 .. N) /\ Cardinality(1 .. N) = N
  BY FS_CardinalityType, FS_Interval, BatcherAssumption
<1>4. \E i \in 1 .. N : order[i] = b
  <2>1. order \in Injection(1 .. N, Batchers)
    BY <1>2 DEF Injection, IsInjective
  <2>2. order \in Surjection(1 .. N, Batchers)
    BY <2>1, <1>3, FS_Injection, BatcherAssumption
  <2> QED
    BY <2>2 DEF Surjection
<1> QED
  BY <1>1, <1>2, <1>3, <1>4

LEMMA NewBatchQueued ==
  ASSUME IndInv, AllQueued, NEW b \in Batchers, NewBatch(b)
  PROVE  AllQueued'
<1>1. PICK s \in Batches : /\ job' = [job EXCEPT ![s] = "queued"]
                           /\ queue' = Append(queue, s)
  BY NewBatchEffect
<1>2. /\ queue \in Seq(Batches) /\ Len(queue') = Len(queue) + 1 /\ queue'[Len(queue) + 1] = s
      /\ \A i \in 1 .. Len(queue) : queue'[i] = queue[i]
  BY <1>1 DEF IndInv, TypeOK
<1> SUFFICES ASSUME NEW t \in Queued' PROVE \E i \in 1 .. Len(queue') : queue'[i] = t
  BY DEF AllQueued
<1>3. CASE t = s
  BY <1>2, <1>3
<1>4. CASE t # s
  <2>1. t \in Queued
    BY <1>1, <1>4 DEF Queued, IndInv, TypeOK
  <2> QED
    BY <2>1, <1>2 DEF AllQueued
<1> QED
  BY <1>3, <1>4

LEMMA StartJobQueued ==
  ASSUME IndInv, AllQueued, StartJob
  PROVE  AllQueued'
<1>1. /\ queue \in Seq(Batches) /\ queue # <<>> /\ queue' = Tail(queue)
      /\ job' = [job EXCEPT ![queue[1]] = "opening"]
      /\ queue[1] \in Batches
  BY DEF StartJob, IndInv, TypeOK
<1>2. /\ Len(queue') = Len(queue) - 1 /\ Len(queue) \in Nat
      /\ \A i \in 1 .. Len(queue) - 1 : queue'[i] = queue[i + 1]
  BY <1>1
<1> SUFFICES ASSUME NEW t \in Queued' PROVE \E i \in 1 .. Len(queue') : queue'[i] = t
  BY DEF AllQueued
<1>3. t \in Queued /\ t # queue[1]
  BY <1>1 DEF Queued, IndInv, TypeOK
<1>4. PICK i \in 1 .. Len(queue) : queue[i] = t
  BY <1>3 DEF AllQueued
<1>5. i - 1 \in 1 .. Len(queue') /\ queue'[i - 1] = t
  BY <1>2, <1>3, <1>4
<1> QED
  BY <1>5

LEMMA AllQueuedNext ==
  ASSUME IndInv, AllQueued, [Next]_vars
  PROVE  AllQueued'
<1>1. CASE StartJob
  BY <1>1, StartJobQueued
<1>2. ASSUME NEW b \in Batchers, NewBatch(b) PROVE AllQueued'
  BY <1>2, NewBatchQueued
<1>3. CASE UNCHANGED queue /\ \A s \in Batches : job'[s] = "queued" => job[s] = "queued"
  BY <1>3 DEF AllQueued, Queued
<1>4. ASSUME NEW b \in Batchers,
             SelectTimeout(b) \/ Deliver(b) \/ \E r \in Records : SelectRecord(b, r)
      PROVE  AllQueued'
  BY <1>2, <1>3, <1>4 DEF SelectTimeout, SelectRecord, Deliver
<1>5. ASSUME NEW s \in Batches,
             \/ FirstNext(s) \/ CopyAborts(s) \/ CopyCommits(s) \/ CopyRefused(s) \/ JobReturns(s)
      PROVE  AllQueued'
  BY <1>3, <1>5
     DEF FirstNext, CopyAborts, CopyCommits, CopyRefused, JobReturns, IndInv, TypeOK
<1>6. CASE \/ UNCHANGED vars \/ \E r \in Records : PushCallback(r)
           \/ \E b \in Batchers : TimeoutSet(b)
           \/ \E s \in Batches : OpenFails(s) \/ \E r \in Records : Callback(s, r)
  BY <1>3, <1>6 DEF vars, PushCallback, TimeoutSet, OpenFails, Callback
<1> QED
  BY <1>1, <1>4, <1>5, <1>6 DEF Next, BatcherStep

--------------------------------------------------------------------------------
(* Every step is a step of BatchedTable or changes none of its variables. *)

\* What the refinement mapping says of a record in each place.
LEMMA RowOf ==
  ASSUME IndInv, NEW r \in Records
  PROVE  /\ r \in stored => rowOf[r] = "stored"
         /\ Fresh(r) => rowOf[r] = "idle"
         /\ r \in offered => rowOf[r] = "pending"
         /\ \A s \in Batches : r \in rows[s] /\ job[s] = "reading" => rowOf[r] = "pending"
         /\ \A s \in Batches : r \in rows[s] /\ job[s] = "failed" => rowOf[r] = "failed"
         /\ \A s \in Batches : r \in rows[s] /\ job[s] = "committed" => rowOf[r] = "stored"
<1> USE DEF rowOf
<1>1. r \in stored => rowOf[r] = "stored"
  OBVIOUS
<1>2. Fresh(r) => rowOf[r] = "idle"
  <2> SUFFICES ASSUME Fresh(r) PROVE rowOf[r] = "idle"
    OBVIOUS
  <2>1. answer[r] = "none" /\ \A s \in Batches : r \notin rows[s]
    BY DEF Fresh
  <2>2. r \notin stored
    BY <2>1 DEF IndInv, StoredWhere
  <2> QED
    BY <2>1, <2>2 DEF InFailedBatch
<1>3. r \in offered => rowOf[r] = "pending"
  <2> SUFFICES ASSUME r \in offered PROVE rowOf[r] = "pending"
    OBVIOUS
  <2>1. answer[r] = "none" /\ \A s \in Batches : r \notin rows[s]
    BY DEF IndInv, OnePlace
  <2>2. r \notin stored
    BY <2>1 DEF IndInv, StoredWhere
  <2> QED
    BY <2>1, <2>2 DEF InFailedBatch, Fresh
<1>4. ASSUME NEW s \in Batches, r \in rows[s]
      PROVE  /\ job[s] = "reading" => rowOf[r] = "pending"
             /\ job[s] = "failed" => rowOf[r] = "failed"
             /\ job[s] = "committed" => rowOf[r] = "stored"
  <2>1. answer[r] = "none" /\ ~Fresh(r)
    BY <1>4 DEF IndInv, OnePlace, Fresh
  <2>2. \A t \in Batches : r \in rows[t] => t = s
    BY <1>4 DEF IndInv, OnePlace
  <2>3. job[s] # "committed" => r \notin stored
    BY <1>4 DEF IndInv, CallbackTruthful
  <2>4. job[s] = "committed" => r \in stored
    BY <1>4 DEF IndInv, CallbackTruthful
  <2> QED
    BY <1>4, <2>1, <2>2, <2>3, <2>4 DEF InFailedBatch
<1> QED
  BY <1>1, <1>2, <1>3, <1>4

\* A step that moves no record and changes the outcome of no batch is not visible.
LEMMA Invisible ==
  ASSUME UNCHANGED <<offered, hold, rows, stored, answer>>,
         \A s \in Batches : rows[s] # {} => (job'[s] = "failed" <=> job[s] = "failed")
  PROVE  UNCHANGED Contract!tableVars
<1>1. \A r \in Records : Fresh(r)' = Fresh(r) /\ InFailedBatch(r)' = InFailedBatch(r)
  BY DEF Fresh, InFailedBatch
<1>2. rowOf' = rowOf
  BY <1>1 DEF rowOf
<1>3. toldOf' = toldOf
  BY DEF toldOf
<1> QED
  BY <1>2, <1>3 DEF Contract!tableVars

\* NewBatch queues a batch without rows.
LEMMA NewBatchInvisible ==
  ASSUME IndInv, NEW b \in Batchers, NewBatch(b)
  PROVE  \A s \in Batches : rows[s] # {} => job'[s] = job[s]
<1>1. PICK s \in Batches : job[s] = "gone" /\ job' = [job EXCEPT ![s] = "queued"]
  BY NewBatchEffect
<1> QED
  BY <1>1 DEF IndInv, TypeOK, RowsOfStarted

LEMMA PushCallbackStep ==
  ASSUME IndInv, IndInv', NEW r \in Records, PushCallback(r)
  PROVE  Contract!Submit(r)
<1>1. rowOf[r] = "idle" /\ rowOf'[r] = "pending"
  <2>1. rowOf[r] = "idle"
    BY RowOf DEF PushCallback
  <2>2. r \in offered' /\ (Fresh(r))' = FALSE
    BY DEF PushCallback, Fresh
  <2>3. r \notin stored' /\ answer'[r] = "none" /\ (InFailedBatch(r))' = FALSE
    <3>1. r \notin stored /\ answer[r] = "none" /\ \A s \in Batches : r \notin rows[s]
      BY DEF PushCallback, Fresh, IndInv, StoredWhere
    <3> QED
      BY <3>1 DEF PushCallback, InFailedBatch
  <2> QED
    BY <2>1, <2>2, <2>3 DEF rowOf
<1>2. \A q \in Records : q # r => rowOf'[q] = rowOf[q]
  BY DEF PushCallback, loopVars, rowOf, Fresh, InFailedBatch
<1>3. rowOf' = [rowOf EXCEPT ![r] = "pending"]
  BY <1>1, <1>2 DEF rowOf
<1>4. toldOf' = toldOf
  BY DEF PushCallback, toldOf
<1> QED
  BY <1>1, <1>3, <1>4 DEF Contract!Submit

LEMMA SelectRecordStep ==
  ASSUME IndInv, IndInv', NEW b \in Batchers, NEW r \in Records, SelectRecord(b, r)
  PROVE  UNCHANGED Contract!tableVars
<1>1. \A s \in Batches : rows[s] # {} => (job'[s] = "failed" <=> job[s] = "failed")
  <2>1. CASE timedOut[b]
    BY <2>1, NewBatchInvisible DEF SelectRecord
  <2>2. CASE ~timedOut[b]
    BY <2>2 DEF SelectRecord
  <2> QED
    BY <2>1, <2>2
<1>2. UNCHANGED <<rows, stored, answer>>
  BY DEF SelectRecord
<1>3. \A q \in Records : InFailedBatch(q)' = InFailedBatch(q)
  BY <1>1, <1>2 DEF InFailedBatch
<1>4. ~Fresh(r) /\ ~Fresh(r)'
  BY DEF SelectRecord, Fresh, IndInv, TypeOK
<1>5. \A q \in Records : q # r => Fresh(q)' = Fresh(q)
  <2> SUFFICES ASSUME NEW q \in Records, q # r PROVE Fresh(q)' = Fresh(q)
    OBVIOUS
  <2>1. q \in offered' <=> q \in offered
    BY DEF SelectRecord
  <2>2. hold'[Table[q]] = q <=> hold[Table[q]] = q
    BY BatcherAssumption DEF SelectRecord, IndInv, TypeOK
  <2> QED
    BY <2>1, <2>2, <1>2 DEF Fresh
<1>6. rowOf' = rowOf
  BY <1>2, <1>3, <1>4, <1>5 DEF rowOf
<1>7. toldOf' = toldOf
  BY <1>2 DEF toldOf
<1> QED
  BY <1>6, <1>7 DEF Contract!tableVars

LEMMA DeliverStep ==
  ASSUME IndInv, IndInv', NEW b \in Batchers, Deliver(b)
  PROVE  UNCHANGED Contract!tableVars
<1>a. PICK r \in Records : r = hold[b]
  BY HeldRecord DEF Deliver
<1>b. PICK d \in Batches : d = current[b]
  BY DEF IndInv, TypeOK
<1>1. /\ Table[r] = b /\ r \notin stored /\ answer[r] = "none"
      /\ \A t \in Batches : r \notin rows[t]
  BY <1>a, HeldRecord DEF Deliver
<1>2. job[d] = "reading"
  BY <1>b DEF Deliver
<1>3. /\ \A t \in Batches : rows'[t] = IF t = d THEN rows[d] \cup {r} ELSE rows[t]
      /\ hold' = [hold EXCEPT ![b] = None]
      /\ UNCHANGED <<offered, stored, answer>>
  BY <1>a, <1>b DEF Deliver, IndInv, TypeOK
<1>4. \A t \in Batches : rows'[t] # {} => (job'[t] = "failed" <=> job[t] = "failed")
  <2>1. CASE index[b] + 1 = BatchSize
    <3>1. PICK s \in Batches : job[s] = "gone" /\ job' = [job EXCEPT ![s] = "queued"]
      BY <2>1, NewBatchEffect DEF Deliver
    <3> QED
      BY <3>1 DEF IndInv, TypeOK
  <2>2. CASE index[b] + 1 # BatchSize
    BY <2>2 DEF Deliver
  <2> QED
    BY <2>1, <2>2
<1>5. r # None
  BY <1>1, BatcherAssumption
<1>6. ~Fresh(r) /\ ~Fresh(r)'
  BY <1>a, <1>1, <1>3 DEF Fresh
<1>7. ~InFailedBatch(r) /\ ~InFailedBatch(r)'
  BY <1>1, <1>2, <1>3, <1>4 DEF InFailedBatch
<1>8. \A q \in Records : q # r => Fresh(q)' = Fresh(q)
  <2> SUFFICES ASSUME NEW q \in Records, q # r PROVE Fresh(q)' = Fresh(q)
    OBVIOUS
  <2>1. hold'[Table[q]] = q <=> hold[Table[q]] = q
    BY <1>a, <1>3, <1>1, <1>5, BatcherAssumption DEF IndInv, TypeOK
  <2>2. \A t \in Batches : q \in rows'[t] <=> q \in rows[t]
    BY <1>3
  <2> QED
    BY <2>1, <2>2, <1>3 DEF Fresh
<1>9. \A q \in Records : q # r => InFailedBatch(q)' = InFailedBatch(q)
  BY <1>3, <1>4 DEF InFailedBatch
<1>10. rowOf' = rowOf
  BY <1>1, <1>3, <1>6, <1>7, <1>8, <1>9 DEF rowOf
<1>11. toldOf' = toldOf
  BY <1>3 DEF toldOf
<1> QED
  BY <1>10, <1>11 DEF Contract!tableVars

\* The end of a COPY settles the rows of its batch, if it has any.
LEMMA CopyEndStep ==
  ASSUME IndInv, IndInv', NEW s \in Batches, NEW o \in {"stored", "failed"},
         job[s] = "reading",
         job' = [job EXCEPT ![s] = IF o = "stored" THEN "committed" ELSE "failed"],
         stored' = IF o = "stored" THEN stored \cup rows[s] ELSE stored,
         UNCHANGED <<offered, hold, rows, answer>>
  PROVE  Contract!Settle(rows[s], o) \/ UNCHANGED Contract!tableVars
<1>1. rows[s] \subseteq Records
  BY DEF IndInv, TypeOK
<1>2. toldOf' = toldOf
  BY DEF toldOf
<1>3. \A r \in rows[s] : rowOf[r] = "pending"
  BY <1>1, RowOf
<1>4. \A r \in rows[s] : rowOf'[r] = o
  <2> SUFFICES ASSUME NEW r \in rows[s] PROVE rowOf'[r] = o
    OBVIOUS
  <2>1. r \in Records
    BY <1>1
  <2>2. CASE o = "stored"
    BY <2>1, <2>2 DEF rowOf
  <2>3. CASE o = "failed"
    <3>1. r \notin stored' /\ InFailedBatch(r)'
      BY <2>3 DEF IndInv, TypeOK, CallbackTruthful, InFailedBatch
    <3> QED
      BY <2>1, <2>3, <3>1 DEF rowOf
  <2> QED
    BY <2>2, <2>3
<1>5. \A r \in Records : r \notin rows[s] => rowOf'[r] = rowOf[r]
  <2> SUFFICES ASSUME NEW r \in Records, r \notin rows[s] PROVE rowOf'[r] = rowOf[r]
    OBVIOUS
  <2>1. Fresh(r)' = Fresh(r)
    BY DEF Fresh
  <2>2. InFailedBatch(r)' = InFailedBatch(r)
    BY DEF InFailedBatch, IndInv, TypeOK
  <2>3. r \in stored' <=> r \in stored
    OBVIOUS
  <2> QED
    BY <2>1, <2>2, <2>3 DEF rowOf
<1>6. rowOf' = [r \in Records |-> IF r \in rows[s] THEN o ELSE rowOf[r]]
  BY <1>4, <1>5 DEF rowOf
<1>7. CASE rows[s] = {}
  <2>1. rowOf' = rowOf
    BY <1>6, <1>7 DEF rowOf
  <2> QED
    BY <2>1, <1>2 DEF Contract!tableVars
<1>8. CASE rows[s] # {}
  <2>1. \A r, q \in rows[s] : Table[r] = Table[q]
    BY DEF IndInv, OneTable
  <2>2. Cardinality(rows[s]) <= BatchSize
    BY DEF IndInv, BatchBound
  <2>3. Contract!Cardinality(rows[s]) = Cardinality(rows[s])
    BY DEF Contract!Cardinality, Cardinality
  <2> QED
    BY <1>2, <1>3, <1>6, <1>8, <2>1, <2>2, <2>3 DEF Contract!Settle
<1> QED
  BY <1>7, <1>8

LEMMA CallbackStep ==
  ASSUME IndInv, IndInv', NEW s \in Batches, NEW r \in Records, Callback(s, r)
  PROVE  Contract!Tell(r)
<1>1. /\ r \in rows[s] /\ job[s] \in {"committed", "failed"} /\ answer[r] = "none"
      /\ answer' = [answer EXCEPT ![r] = IF job[s] = "committed" THEN "ok" ELSE "error"]
      /\ \A t \in Batches : rows'[t] = IF t = s THEN rows[s] \ {r} ELSE rows[t]
      /\ UNCHANGED <<offered, hold, job, stored>>
  BY DEF Callback, loopVars, IndInv, TypeOK, OnePlace
<1>2. rowOf[r] = IF job[s] = "committed" THEN "stored" ELSE "failed"
  BY <1>1, RowOf
<1>3. rowOf'[r] = rowOf[r]
  <2>1. job[s] = "committed" => r \in stored
    BY <1>1 DEF IndInv, CallbackTruthful
  <2>2. job[s] = "failed" => r \notin stored
    BY <1>1 DEF IndInv, CallbackTruthful
  <2>3. answer'[r] = IF job[s] = "committed" THEN "ok" ELSE "error"
    BY <1>1 DEF IndInv, TypeOK
  <2> QED
    BY <1>1, <1>2, <2>1, <2>2, <2>3 DEF rowOf
<1>4. \A q \in Records : q # r => rowOf'[q] = rowOf[q]
  <2> SUFFICES ASSUME NEW q \in Records, q # r PROVE rowOf'[q] = rowOf[q]
    OBVIOUS
  <2>1. answer'[q] = answer[q] /\ \A t \in Batches : q \in rows'[t] <=> q \in rows[t]
    <3>1. answer \in [Records -> {"none", "ok", "error"}]
      BY DEF IndInv, TypeOK
    <3>2. answer'[q] = answer[q]
      BY <1>1, <3>1
    <3>3. \A t \in Batches : q \in rows'[t] <=> q \in rows[t]
      BY <1>1
    <3> QED
      BY <3>2, <3>3
  <2>2. Fresh(q)' = Fresh(q) /\ InFailedBatch(q)' = InFailedBatch(q)
    BY <1>1, <2>1 DEF Fresh, InFailedBatch
  <2> QED
    BY <1>1, <2>1, <2>2 DEF rowOf
<1>5. rowOf' = rowOf
  BY <1>3, <1>4 DEF rowOf
<1>6. toldOf' = [toldOf EXCEPT ![r] = IF rowOf[r] = "stored" THEN "ok" ELSE "error"]
  BY <1>1, <1>2 DEF toldOf, IndInv, TypeOK
<1>7. toldOf[r] = "nothing"
  BY <1>1 DEF toldOf
<1> QED
  BY <1>2, <1>5, <1>6, <1>7 DEF Contract!Tell

\* The batchers, jobs and timers settle groups of rows and tell outcomes; the rest of what
\* they do cannot be seen.
LEMMA BatcherSimulation ==
  ASSUME IndInv, IndInv', BatcherStep
  PROVE  \/ \E S \in SUBSET Records, o \in {"stored", "failed"} : Contract!Settle(S, o)
         \/ \E r \in Records : Contract!Tell(r)
         \/ UNCHANGED Contract!tableVars
<1>1. ASSUME NEW b \in Batchers, SelectTimeout(b) PROVE UNCHANGED Contract!tableVars
  BY <1>1, NewBatchInvisible, Invisible DEF SelectTimeout
<1>2. ASSUME NEW b \in Batchers, NEW r \in Records, SelectRecord(b, r)
      PROVE  UNCHANGED Contract!tableVars
  BY <1>2, SelectRecordStep
<1>3. ASSUME NEW b \in Batchers, Deliver(b) PROVE UNCHANGED Contract!tableVars
  BY <1>3, DeliverStep
<1>4. ASSUME NEW b \in Batchers, TimeoutSet(b) PROVE UNCHANGED Contract!tableVars
  BY <1>4, Invisible DEF TimeoutSet
<1>5. CASE StartJob
  <2>1. Head(queue) \in Batches /\ job[Head(queue)] = "queued"
    BY <1>5, HeadTailProperties DEF StartJob, IndInv, TypeOK, QueueOK
  <2>2. \A s \in Batches : rows[s] # {} => job'[s] = job[s]
    BY <1>5, <2>1 DEF StartJob, IndInv, TypeOK, RowsOfStarted
  <2> QED
    BY <1>5, <2>2, Invisible DEF StartJob, loopVars
<1>6. ASSUME NEW s \in Batches, OpenFails(s) PROVE UNCHANGED Contract!tableVars
  BY <1>6, Invisible DEF OpenFails, loopVars
<1>7. ASSUME NEW s \in Batches, FirstNext(s) PROVE UNCHANGED Contract!tableVars
  BY <1>7, Invisible DEF FirstNext, loopVars, IndInv, TypeOK
<1>8. ASSUME NEW s \in Batches, CopyCommits(s) \/ CopyAborts(s) \/ CopyRefused(s)
       PROVE  \/ \E S \in SUBSET Records, o \in {"stored", "failed"} : Contract!Settle(S, o)
              \/ UNCHANGED Contract!tableVars
  <2>1. rows[s] \in SUBSET Records
    BY DEF IndInv, TypeOK
  <2>2. \E o \in {"stored", "failed"} :
          Contract!Settle(rows[s], o) \/ UNCHANGED Contract!tableVars
    <3>1. CASE CopyCommits(s)
      <4>1. /\ job[s] = "reading" /\ job' = [job EXCEPT ![s] = "committed"]
            /\ stored' = stored \cup rows[s] /\ UNCHANGED <<offered, hold, rows, answer>>
        BY <3>1 DEF CopyCommits, loopVars
      <4>2. Contract!Settle(rows[s], "stored") \/ UNCHANGED Contract!tableVars
        BY <4>1, CopyEndStep
      <4> QED
        BY <4>2
    <3>2. CASE CopyAborts(s) \/ CopyRefused(s)
      <4>1. /\ job[s] = "reading" /\ job' = [job EXCEPT ![s] = "failed"]
            /\ stored' = stored /\ UNCHANGED <<offered, hold, rows, answer>>
        BY <3>2 DEF CopyAborts, CopyRefused, loopVars
      <4>2. Contract!Settle(rows[s], "failed") \/ UNCHANGED Contract!tableVars
        BY <4>1, CopyEndStep
      <4> QED
        BY <4>2
    <3> QED
      BY <1>8, <3>1, <3>2
  <2> QED
    BY <2>1, <2>2
<1>9. ASSUME NEW s \in Batches, NEW r \in Records, Callback(s, r) PROVE Contract!Tell(r)
  BY <1>9, CallbackStep
<1>10. ASSUME NEW s \in Batches, JobReturns(s) PROVE UNCHANGED Contract!tableVars
  BY <1>10, Invisible DEF JobReturns, loopVars, IndInv, TypeOK
<1> QED
  BY <1>1, <1>2, <1>3, <1>4, <1>5, <1>6, <1>7, <1>8, <1>9, <1>10
  DEF BatcherStep

LEMMA StepSimulation ==
  ASSUME IndInv, IndInv', [Next]_vars
  PROVE  [Contract!TableNext]_(Contract!tableVars)
<1>1. CASE UNCHANGED vars
  BY <1>1, Invisible DEF vars
<1>2. ASSUME NEW r \in Records, PushCallback(r) PROVE Contract!TableNext
  BY <1>2, PushCallbackStep DEF Contract!TableNext
<1>3. CASE BatcherStep
  BY <1>3, BatcherSimulation DEF Contract!TableNext
<1> QED
  BY <1>1, <1>2, <1>3 DEF Next

LEMMA InitSimulation == Init => Contract!TableInit
<1> SUFFICES ASSUME Init PROVE Contract!TableInit
  OBVIOUS
<1>1. \A r \in Records : Fresh(r) /\ r \notin stored /\ ~InFailedBatch(r)
  BY BatcherAssumption DEF Init, Fresh, InFailedBatch
<1>2. rowOf = [r \in Records |-> "idle"]
  BY <1>1 DEF Init, rowOf
<1>3. toldOf = [r \in Records |-> "nothing"]
  BY DEF Init, toldOf
<1> QED
  BY <1>2, <1>3 DEF Contract!TableInit

--------------------------------------------------------------------------------
(* FlowInsert over the batchers: every step is one of the batchers, and one of FlowStore. *)

LEMMA RowsOfFlows ==
  /\ Records = Rows /\ Table = TableOf
  /\ \A f \in Flows : f \in Records /\ ItemsOf[f] \subseteq Records /\ IndexesOf[f] \subseteq Records
  BY PipelineAssumption, FlowRowsAssumption DEF Rows

LEMMA PipelinePushes ==
  ASSUME NEW f \in Flows, PushIndex(f) \/ PushItem(f) \/ PushFlow(f)
  PROVE  \E r \in Records : PushCallback(r)
  BY RowsOfFlows DEF PushIndex, PushItem, PushFlow, PushOneOf

LEMMA PipelineNextBatches == [PipelineNext]_pipelineVars => [Next]_vars
<1> SUFFICES ASSUME [PipelineNext]_pipelineVars PROVE [Next]_vars
  OBVIOUS
<1>1. CASE UNCHANGED pipelineVars
  BY <1>1 DEF pipelineVars
<1>2. ASSUME NEW f \in Flows, FlowInsert(f) \/ IndexPushed(f) \/ ItemsPushed(f) \/ ItemsSettled(f)
                                \/ FlowSettled(f)
      PROVE  UNCHANGED vars
  BY <1>2 DEF FlowInsert, IndexPushed, ItemsPushed, ItemsSettled, FlowSettled
<1>3. ASSUME NEW f \in Flows, PushIndex(f) \/ PushItem(f) \/ PushFlow(f) PROVE Next
  BY <1>3, PipelinePushes DEF Next
<1>4. FingerprintsFlush => UNCHANGED vars
  BY DEF FingerprintsFlush
<1>5. BatchersWork => Next
  BY DEF BatchersWork, Next
<1> QED
  BY <1>1, <1>2, <1>3, <1>4, <1>5 DEF PipelineNext, Proceed

LEMMA PipelineBatches == PipelineSpec => [](IndInv /\ PoolInv)
<1>1. PipelineInit => IndInv /\ PoolInv
  BY InitInv, PoolInit DEF PipelineInit
<1>2. IndInv /\ PoolInv /\ [PipelineNext]_pipelineVars => IndInv' /\ PoolInv'
  BY PipelineNextBatches, NextInv, PoolNext
<1> QED
  BY <1>1, <1>2, PTL DEF PipelineSpec

\* The tables of FlowStore are those of the batchers.
LEMMA SameTables ==
  /\ Store!Rows = Records /\ Store!TableOf = Table
  /\ Contract!TableInit => Store!Database!TableInit
  /\ \A r : Contract!Submit(r) => Store!Database!Submit(r)
  /\ \A r : Contract!Tell(r) => Store!Database!Tell(r)
  /\ \A S, o : Contract!Settle(S, o) => Store!Database!Settle(S, o)
<1>1. Store!Rows = Records
  BY RowsOfFlows DEF Rows, Store!Rows
<1>2. Store!TableOf = Table
  BY <1>1, RowsOfFlows DEF TableOf, Store!TableOf
<1>3. Contract!TableInit => Store!Database!TableInit
  BY <1>1 DEF Contract!TableInit, Store!Database!TableInit
<1>4. \A r : Contract!Submit(r) => Store!Database!Submit(r)
  BY DEF Contract!Submit, Store!Database!Submit
<1>5. \A r : Contract!Tell(r) => Store!Database!Tell(r)
  BY DEF Contract!Tell, Store!Database!Tell
<1>6. ASSUME NEW S PROVE Store!Database!Cardinality(S) = Contract!Cardinality(S)
  BY DEF Store!Database!Cardinality, Contract!Cardinality
<1>7. ASSUME NEW S, NEW o, Contract!Settle(S, o) PROVE Store!Database!Settle(S, o)
  BY <1>1, <1>2, <1>6, <1>7 DEF Contract!Settle, Store!Database!Settle
<1> QED
  BY <1>1, <1>2, <1>3, <1>4, <1>5, <1>7

\* What a caller that waits for its rows sees of them.
LEMMA RowSeen ==
  ASSUME IndInv, NEW r \in Records
  PROVE  /\ ~Fresh(r) => rowOf[r] # "idle"
         /\ answer[r] # "none" => toldOf[r] # "nothing"
         /\ toldOf[r] = "error" <=> answer[r] = "error"
<1>1. answer[r] \in {"none", "ok", "error"}
  BY DEF IndInv, TypeOK
<1>2. ~Fresh(r) => rowOf[r] # "idle"
  BY DEF rowOf
<1> QED
  BY <1>1, <1>2 DEF toldOf

\* The rows stay as they are while only FlowInsert goes on.
LEMMA RowsRest ==
  ASSUME UNCHANGED vars
  PROVE  UNCHANGED <<rowOf, toldOf>>
  BY Invisible DEF vars, Contract!tableVars

LEMMA SameErrors ==
  ASSUME IndInv, NEW f \in Flows
  PROVE  Store!Errors(f) = Errors(f)
  BY RowSeen, RowsOfFlows DEF Errors, Store!Errors

LEMMA SettledStep ==
  ASSUME IndInv, NEW f \in Flows, ItemsSettled(f)
  PROVE  Store!ItemsSettled(f)
<1>1. \A r \in ItemsOf[f] : toldOf[r] # "nothing"
  BY RowSeen, RowsOfFlows DEF ItemsSettled
<1>2. ASSUME NEW S PROVE Store!Cardinality(S) = Cardinality(S)
  BY DEF Store!Cardinality, Cardinality
<1> QED
  BY <1>1, <1>2, SameErrors, RowsRest DEF ItemsSettled, Store!ItemsSettled

\* The steps of one flow.
LEMMA FlowSteps ==
  ASSUME IndInv, IndInv', NEW f \in Flows, FlowInsert(f) \/ Proceed(f)
  PROVE  Store!Next
<1>1. CASE FlowInsert(f)
  <2>1. Store!FlowInsert(f)
    BY <1>1, RowsRest DEF FlowInsert, Store!FlowInsert
  <2> QED
    BY <2>1 DEF Store!Next
<1>2. CASE PushIndex(f)
  <2>1. PICK r \in IndexesOf[f] : PushCallback(r)
    BY <1>2 DEF PushIndex, PushOneOf
  <2>2. Store!Database!Submit(r)
    BY <2>1, RowsOfFlows, PushCallbackStep, SameTables
  <2>3. Store!PushIndex(f)
    BY <1>2, <2>2 DEF PushIndex, Store!PushIndex
  <2> QED
    BY <2>3 DEF Store!Next
<1>3. CASE IndexPushed(f)
  <2>1. \A r \in IndexesOf[f] : rowOf[r] # "idle"
    BY <1>3, RowSeen, RowsOfFlows DEF IndexPushed, AllTaken
  <2>2. Store!IndexPushed(f)
    BY <1>3, <2>1, RowsRest DEF IndexPushed, Store!IndexPushed
  <2> QED
    BY <2>2 DEF Store!Next
<1>4. CASE PushItem(f)
  <2>1. PICK r \in ItemsOf[f] : PushCallback(r)
    BY <1>4 DEF PushItem, PushOneOf
  <2>2. Store!Database!Submit(r)
    BY <2>1, RowsOfFlows, PushCallbackStep, SameTables
  <2>3. Store!PushItem(f)
    BY <1>4, <2>2 DEF PushItem, Store!PushItem
  <2> QED
    BY <2>3 DEF Store!Next
<1>5. CASE ItemsPushed(f)
  <2>1. \A r \in ItemsOf[f] : rowOf[r] # "idle"
    BY <1>5, RowSeen, RowsOfFlows DEF ItemsPushed, AllTaken
  <2>2. Store!ItemsPushed(f)
    BY <1>5, <2>1, RowsRest DEF ItemsPushed, Store!ItemsPushed
  <2> QED
    BY <2>2 DEF Store!Next
<1>6. CASE ItemsSettled(f)
  BY <1>6, SettledStep DEF Store!Next
<1>7. CASE PushFlow(f)
  <2>1. Store!Database!Submit(f)
    BY <1>7, RowsOfFlows, PushCallbackStep, SameTables DEF PushFlow
  <2>2. Store!PushFlow(f)
    BY <1>7, <2>1 DEF PushFlow, Store!PushFlow
  <2> QED
    BY <2>2 DEF Store!Next
<1>8. CASE FlowSettled(f)
  <2>1. toldOf[f] # "nothing"
    BY <1>8, RowSeen, RowsOfFlows DEF FlowSettled
  <2>2. Store!FlowSettled(f)
    BY <1>8, <2>1, RowsRest DEF FlowSettled, Store!FlowSettled
  <2> QED
    BY <2>2 DEF Store!Next
<1> QED
  BY <1>1, <1>2, <1>3, <1>4, <1>5, <1>6, <1>7, <1>8 DEF Proceed

\* The batchers work while the flows wait: groups of rows settle, callbacks run.
LEMMA BatchersStep ==
  ASSUME IndInv, IndInv', BatchersWork
  PROVE  [Store!Next]_(Store!vars)
<1>0. BatcherStep /\ UNCHANGED <<phase, fingerprints>>
  BY DEF BatchersWork
<1>1. CASE \E S \in SUBSET Records, o \in {"stored", "failed"} : Contract!Settle(S, o)
  <2>1. PICK S \in SUBSET Records, o \in {"stored", "failed"} : Contract!Settle(S, o)
    BY <1>1
  <2>2. S \in SUBSET {r \in Store!Rows : rowOf[r] = "pending"}
    BY <2>1, SameTables DEF Contract!Settle
  <2>3. Store!Database!Settle(S, o)
    BY <2>1, SameTables
  <2>4. Store!SettleRows
    BY <1>0, <2>2, <2>3 DEF Store!SettleRows
  <2> QED
    BY <2>4 DEF Store!Next
<1>2. CASE \E r \in Records : Contract!Tell(r)
  <2>1. PICK r \in Records : Contract!Tell(r)
    BY <1>2
  <2>2. Store!TellRow(r)
    BY <1>0, <2>1, SameTables DEF Store!TellRow
  <2> QED
    BY <2>2, SameTables DEF Store!Next
<1>3. CASE UNCHANGED Contract!tableVars
  BY <1>0, <1>3 DEF Contract!tableVars, Store!vars
<1> QED
  BY <1>0, <1>1, <1>2, <1>3, BatcherSimulation

LEMMA PipelineSimulation ==
  ASSUME IndInv, IndInv', [PipelineNext]_pipelineVars
  PROVE  [Store!Next]_(Store!vars)
<1>1. CASE UNCHANGED pipelineVars
  BY <1>1, RowsRest DEF pipelineVars, Store!vars
<1>2. ASSUME NEW f \in Flows, FlowInsert(f) \/ Proceed(f) PROVE Store!Next
  BY <1>2, FlowSteps
<1>3. CASE FingerprintsFlush
  <2>1. Store!FingerprintsFlush
    BY <1>3, RowsRest DEF FingerprintsFlush, Store!FingerprintsFlush
  <2> QED
    BY <2>1 DEF Store!Next
<1>4. CASE BatchersWork
  BY <1>4, BatchersStep
<1> QED
  BY <1>1, <1>2, <1>3, <1>4 DEF PipelineNext

LEMMA PipelineInitSimulation == PipelineInit => Store!Init
  BY InitSimulation, SameTables DEF PipelineInit, Store!Init

--------------------------------------------------------------------------------
(* The results. *)

\* Type correctness: among others, the count of a batch never passes the batch size.
THEOREM TypeCorrectness == Spec => []TypeOK
  BY SpecInv, PTL DEF IndInv

\* Whatever the timing of pushes, time-outs and failures, no record is lost or doubled
\* between PushCallback and its callback (batcher.go:84-110, 205-207).
THEOREM NoRecordLostOrDoubled == Spec => []OnePlace
  BY SpecInv, PTL DEF IndInv

\* A callback given nil means the row is in its table, an error means it is not.
THEOREM CallbacksTellTheTruth == Spec => []CallbackTruthful
  BY SpecInv, PTL DEF IndInv

\* Whatever the database does, the jobs that were submitted and have not returned are at
\* most one per worker and one per loop, each with at most a batch's worth of rows: the
\* pushers wait instead (batcher.go:80, 99-102).
THEOREM MemoryIsBounded == Spec => []NothingPilesUp
<1>1. IndInv /\ PoolInv => NothingPilesUp
  BY PoolBound DEF IndInv, NothingPilesUp
<1> QED
  BY <1>1, SpecPool, PTL

\* The pool neither loses a submitted batch nor runs one twice: at any time the queue holds
\* each job that waits for a worker exactly once, and nothing else (batcher.go:172, db.go:60).
THEOREM WaitingJobsAreQueuedOnce == Spec => [](QueueOK /\ AllQueued)
  BY SpecInv, AllQueuedInit, AllQueuedNext, PTL DEF Spec, IndInv

\* With one identity more than there can be batches in use, a loop that begins a batch finds
\* a free one: that identities are used again holds no step of the code back.
THEOREM IdentitiesSuffice ==
  ASSUME Cardinality(Batches) > Workers + Cardinality(Batchers)
  PROVE  Spec => [](Garbage # {})
<1>1. ASSUME IndInv, PoolInv PROVE Garbage # {}
  <2> SUFFICES ASSUME Garbage = {} PROVE FALSE
    OBVIOUS
  <2>1. Batches \ Garbage = Batches
    OBVIOUS
  <2>2. Cardinality(Batches) <= Workers + Cardinality(Batchers)
    BY <2>1, <1>1, UsedBound DEF IndInv
  <2>3. Cardinality(Batches) \in Nat /\ Cardinality(Batchers) \in Nat /\ Workers \in Nat
    BY FS_CardinalityType, BatcherAssumption
  <2> QED
    BY <2>2, <2>3
<1> QED
  BY <1>1, SpecPool, PTL

\* CopyBatcher implements BatchedTable: what the callers see is rows settled in groups,
\* all or nothing, and one truthful answer each.
THEOREM CopyBatcherImplementsBatchedTable == Spec => ImplementsBatchedTable
<1>1. Init => Contract!TableInit
  BY InitSimulation
<1>2. IndInv /\ IndInv' /\ [Next]_vars => [Contract!TableNext]_(Contract!tableVars)
  BY StepSimulation
<1> QED
  BY <1>1, <1>2, SpecInv, PTL DEF Spec, ImplementsBatchedTable, Contract!TableSpec

\* FlowInsert over the batchers keeps every record, batch and flow well formed.
THEOREM PipelineTypeCorrectness == PipelineSpec => []PipelineTypeOK
<1>1. PipelineInit => PipelineTypeOK
  BY InitInv DEF PipelineInit, PipelineTypeOK, IndInv
<1>2. IndInv' /\ PipelineTypeOK /\ [PipelineNext]_pipelineVars => PipelineTypeOK'
  <2> SUFFICES ASSUME IndInv', PipelineTypeOK, [PipelineNext]_pipelineVars
               PROVE  PipelineTypeOK'
    OBVIOUS
  <2>1. TypeOK'
    BY DEF IndInv
  <2>2. CASE UNCHANGED pipelineVars
    BY <2>1, <2>2 DEF pipelineVars, PipelineTypeOK
  <2>3. ASSUME NEW f \in Flows, FlowInsert(f) \/ Proceed(f) PROVE PipelineTypeOK'
    BY <2>1, <2>3 DEF PipelineTypeOK, FlowInsert, Proceed, PushIndex, IndexPushed, PushItem,
       ItemsPushed, ItemsSettled, PushFlow, FlowSettled
  <2>4. FingerprintsFlush \/ BatchersWork => PipelineTypeOK'
    BY <2>1 DEF PipelineTypeOK, FingerprintsFlush, BatchersWork
  <2> QED
    BY <2>2, <2>3, <2>4 DEF PipelineNext
<1> QED
  BY <1>1, <1>2, PipelineBatches, PTL DEF PipelineSpec

\* FlowInsert (db.go:289-406) on the real batchers does what FlowStore says: nothing the
\* three batchers do with the rows of a flow, sharing workers, failing in mid-batch or
\* taking the process with them, shows it more than rows settled in groups and told once.
THEOREM FlowInsertOverBatchers == PipelineSpec => ImplementsFlowStore
<1>1. IndInv /\ IndInv' /\ [PipelineNext]_pipelineVars => [Store!Next]_(Store!vars)
  BY PipelineSimulation
<1> QED
  BY <1>1, PipelineInitSimulation, PipelineBatches, PTL
  DEF PipelineSpec, ImplementsFlowStore, Store!Spec

--------------------------------------------------------------------------------
(* What FlowStoreProofs proves of FlowStore holds of the pipeline. *)

StoreFacts == INSTANCE FlowStoreProofs WITH row <- rowOf, told <- toldOf

\* FlowRowsAssumption as StoreFacts states it.
LEMMA SameFlowRows ==
  /\ ItemsOf \in [Flows -> SUBSET Items]
  /\ IndexesOf \in [Flows -> SUBSET Indexes]
  /\ \A f, g \in Flows : f # g => /\ ItemsOf[f] \cap ItemsOf[g] = {}
                                  /\ IndexesOf[f] \cap IndexesOf[g] = {}
  /\ StoreFacts!IsFiniteSet(Items)
  /\ Flows \cap Items = {} /\ Flows \cap Indexes = {} /\ Items \cap Indexes = {}
<1>1. StoreFacts!IsFiniteSet(Items) <=> IsFiniteSet(Items)
  BY DEF StoreFacts!IsFiniteSet, IsFiniteSet
<1> QED
  BY <1>1, FlowRowsAssumption

LEMMA SameStoreTables ==
  /\ StoreFacts!Rows = Store!Rows
  /\ \A r : Store!Database!Submit(r) <=> StoreFacts!Database!Submit(r)
  /\ \A r : Store!Database!Tell(r) <=> StoreFacts!Database!Tell(r)
  /\ \A S, o : Store!Database!Settle(S, o) <=> StoreFacts!Database!Settle(S, o)
  /\ Store!Init <=> StoreFacts!Init
<1>1. StoreFacts!Rows = Store!Rows
  BY DEF StoreFacts!Rows, Store!Rows
<1>2. StoreFacts!TableOf = Store!TableOf
  BY <1>1 DEF StoreFacts!TableOf, Store!TableOf
<1>3. \A r : Store!Database!Submit(r) <=> StoreFacts!Database!Submit(r)
  BY DEF Store!Database!Submit, StoreFacts!Database!Submit
<1>4. \A r : Store!Database!Tell(r) <=> StoreFacts!Database!Tell(r)
  BY DEF Store!Database!Tell, StoreFacts!Database!Tell
<1>5. ASSUME NEW S
      PROVE  Store!Database!Cardinality(S) = StoreFacts!Database!Cardinality(S)
  BY DEF Store!Database!Cardinality, StoreFacts!Database!Cardinality
<1>6. ASSUME NEW S, NEW o
      PROVE  Store!Database!Settle(S, o) <=> StoreFacts!Database!Settle(S, o)
  BY <1>1, <1>2, <1>5 DEF Store!Database!Settle, StoreFacts!Database!Settle
<1>7. Store!Init <=> StoreFacts!Init
  BY <1>1 DEF Store!Init, StoreFacts!Init, Store!Database!TableInit,
     StoreFacts!Database!TableInit
<1> QED
  BY <1>1, <1>3, <1>4, <1>6, <1>7

LEMMA SameStoreSteps ==
  ASSUME [Store!Next]_(Store!vars)
  PROVE  [StoreFacts!Next]_(StoreFacts!vars)
<1>1. CASE UNCHANGED Store!vars
  BY <1>1 DEF Store!vars, StoreFacts!vars
<1>2. ASSUME NEW f \in Flows
      PROVE  /\ Store!FlowInsert(f) => StoreFacts!FlowInsert(f)
             /\ Store!PushIndex(f) => StoreFacts!PushIndex(f)
             /\ Store!IndexPushed(f) => StoreFacts!IndexPushed(f)
             /\ Store!PushItem(f) => StoreFacts!PushItem(f)
             /\ Store!ItemsPushed(f) => StoreFacts!ItemsPushed(f)
             /\ Store!PushFlow(f) => StoreFacts!PushFlow(f)
             /\ Store!FlowSettled(f) => StoreFacts!FlowSettled(f)
  BY SameStoreTables
  DEF Store!FlowInsert, StoreFacts!FlowInsert, Store!PushIndex, StoreFacts!PushIndex,
      Store!IndexPushed, StoreFacts!IndexPushed, Store!PushItem, StoreFacts!PushItem,
      Store!ItemsPushed, StoreFacts!ItemsPushed, Store!PushFlow, StoreFacts!PushFlow,
      Store!FlowSettled, StoreFacts!FlowSettled
<1>3. ASSUME NEW f \in Flows, Store!ItemsSettled(f) PROVE StoreFacts!ItemsSettled(f)
  <2>1. ASSUME NEW S PROVE Store!Cardinality(S) = StoreFacts!Cardinality(S)
    BY DEF Store!Cardinality, StoreFacts!Cardinality
  <2>2. Store!Errors(f) = StoreFacts!Errors(f)
    BY DEF Store!Errors, StoreFacts!Errors
  <2> QED
    BY <1>3, <2>1, <2>2 DEF Store!ItemsSettled, StoreFacts!ItemsSettled
<1>4. Store!FingerprintsFlush => StoreFacts!FingerprintsFlush
  BY DEF Store!FingerprintsFlush, StoreFacts!FingerprintsFlush
<1>5. Store!SettleRows => StoreFacts!SettleRows
  BY SameStoreTables DEF Store!SettleRows, StoreFacts!SettleRows
<1>6. ASSUME NEW r, Store!TellRow(r) PROVE StoreFacts!TellRow(r)
  BY <1>6, SameStoreTables DEF Store!TellRow, StoreFacts!TellRow
<1> QED
  BY <1>1, <1>2, <1>3, <1>4, <1>5, <1>6, SameStoreTables DEF Store!Next, StoreFacts!Next

LEMMA PipelineIsStore == PipelineSpec => StoreFacts!Spec
<1>1. IndInv /\ IndInv' /\ [PipelineNext]_pipelineVars => [StoreFacts!Next]_(StoreFacts!vars)
  BY PipelineSimulation, SameStoreSteps
<1>2. PipelineInit => StoreFacts!Init
  BY PipelineInitSimulation, SameStoreTables
<1> QED
  BY <1>1, <1>2, PipelineBatches, PTL DEF PipelineSpec, StoreFacts!Spec

\* A flow is given up if and only if none of its items is in the database, however they are
\* spread over batches and whichever of their COPYs fail; of a flow that was given up at most
\* index rows are in the database, which were pushed before its items (db.go:342, 362-380).
THEOREM GivenUpFlowsHaveNoItem == PipelineSpec => []GivenUpIffNoItem
<1>1. StoreFacts!GivenUpIffNoItem => GivenUpIffNoItem
  BY DEF GivenUpIffNoItem, Store!GivenUpIffNoItem, StoreFacts!GivenUpIffNoItem,
     Store!DroppedLeavesIndexOnly, StoreFacts!DroppedLeavesIndexOnly, Store!PartialFlowKept,
     StoreFacts!PartialFlowKept, Store!FlowsKeptHaveItems, StoreFacts!FlowsKeptHaveItems,
     Store!Remains, StoreFacts!Remains
<1>2. StoreFacts!Spec => []StoreFacts!GivenUpIffNoItem
  BY SameFlowRows, StoreFacts!FlowsWithoutItemsAreGivenUp, PTL
  DEF StoreFacts!FlowsWithoutItemsAreGivenUp
<1> QED
  BY <1>1, <1>2, PipelineIsStore, PTL

\* A reader of the three tables never sees a flow without items, and never sees a flow
\* change (api/database.py), whichever table's COPY comes first and whichever fails.
THEOREM FlowsAppearWhole == PipelineSpec => ImplementsFlowCatalog
<1>1. StoreFacts!Spec => StoreFacts!ImplementsFlowCatalog
  BY SameFlowRows, StoreFacts!FlowStoreImplementsFlowCatalog, PTL
  DEF StoreFacts!FlowStoreImplementsFlowCatalog
<1>2. Store!visibleItems = StoreFacts!visibleItems
  BY DEF Store!visibleItems, StoreFacts!visibleItems
<1>3. (Store!visibleItems)' = (StoreFacts!visibleItems)'
  BY DEF Store!visibleItems, StoreFacts!visibleItems
<1>4. StoreFacts!Catalog!CatalogInit => Store!Catalog!CatalogInit
  BY <1>2 DEF Store!Catalog!CatalogInit, StoreFacts!Catalog!CatalogInit
<1>5. [StoreFacts!Catalog!CatalogNext]_(StoreFacts!visibleItems)
        => [Store!Catalog!CatalogNext]_(Store!visibleItems)
  <2>1. ASSUME NEW F, NEW shown, StoreFacts!Catalog!Appear(F, shown)
        PROVE  Store!Catalog!Appear(F, shown)
    BY <1>2, <1>3, <2>1 DEF Store!Catalog!Appear, StoreFacts!Catalog!Appear
  <2> QED
    BY <1>2, <1>3, <2>1 DEF Store!Catalog!CatalogNext, StoreFacts!Catalog!CatalogNext
<1> QED
  BY <1>1, <1>4, <1>5, PipelineIsStore, PTL
  DEF ImplementsFlowCatalog, Store!ImplementsFlowCatalog, StoreFacts!ImplementsFlowCatalog,
      Store!Catalog!CatalogSpec, StoreFacts!Catalog!CatalogSpec

================================================================================
