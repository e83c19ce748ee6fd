------------------------------ MODULE CopyBatcher ------------------------------
(***************************************************************************)
(* The asynchronous bulk writer of go-importer (internal/pkg/db/batcher.go)*)
(* and the worker pool its COPY jobs share (db.go).                        *)
(*                                                                         *)
(* A batcher is a goroutine that receives records from any number of       *)
(* PushCallback callers and hands them, one at a time, over an unbuffered  *)
(* channel to the CopyFrom job of its current batch.  A batch is closed    *)
(* and replaced when it is full or when its time-out event, armed at the   *)
(* job's first Next(), is set.  Jobs wait in the FIFO queue of the worker  *)
(* pool; a job occupies its worker from its start to its last callback.    *)
(*                                                                         *)
(* pgx's CopyFrom is external: it reads rows through Next() and stores all *)
(* of them or none.  It can fail before the first Next() (no connection,   *)
(* no such table), after any row (a value that cannot be encoded, a broken *)
(* connection) or at the end of the data (the server refuses the COPY).    *)
(*                                                                         *)
(* The context of every batcher is context.Background(), so the Done()     *)
(* branch of the loop (batcher.go:103) cannot be taken, and `break` in the *)
(* loop leaves the select only: the loop never ends.                       *)
(***************************************************************************)
EXTENDS Naturals, FiniteSets, Sequences

CONSTANTS Batchers,     \* one CopyBatcher per table
          Records,      \* the records that may be pushed
          Table,        \* Table[r]: the batcher record r is pushed to
          Batches,      \* identities of CopyBatcherBatch objects, reused once garbage
          BatchSize,    \* config.batchSize
          Workers,      \* workers of db.workerPool
          None          \* no record

ASSUME BatcherAssumption == /\ Table \in [Records -> Batchers]
                            /\ BatchSize \in Nat \ {0}
                            /\ Workers \in Nat \ {0}
                            /\ None \notin Records
                            /\ IsFiniteSet(Batchers)
                            /\ IsFiniteSet(Batches)

VARIABLES offered,      \* records whose PushCallback is blocked on the batcher's dataIn
          hold,         \* the record the loop of b has received and not handed on, or None
          current,      \* the batch whose channels the loop of b holds
          index,        \* records the loop of b has handed to that batch
          timedOut,     \* the time-out event of that batch is set
          queue,        \* batch jobs waiting for a worker, first come first served
          job,          \* how far the CopyFrom job of a batch has come
          rows,         \* records Next() took for a batch whose callback has not run
          stored,       \* records that are rows of their table
          answer,       \* what the callback of a record was given
          exited        \* log.Fatalln has ended the process

vars == <<offered, hold, current, index, timedOut, queue, job, rows, stored,
          answer, exited>>

loopVars == <<hold, current, index, timedOut>>

--------------------------------------------------------------------------------

\* Jobs that occupy a worker.
Running == {s \in Batches : job[s] \in {"opening", "reading", "committed", "failed"}}

\* The channels of s were closed: no loop holds them any more.
Closed(s) == \A b \in Batchers : current[b] # s

\* Batch identities nobody refers to: neither a job nor a loop.
Garbage == {s \in Batches : job[s] = "gone" /\ Closed(s)}

\* A record nobody has pushed yet.
Fresh(r) == /\ r \notin offered
            /\ answer[r] = "none"
            /\ hold[Table[r]] # r
            /\ \A s \in Batches : r \notin rows[s]

TypeOK ==
    /\ offered \subseteq Records
    /\ hold \in [Batchers -> Records \cup {None}]
    /\ current \in [Batchers -> Batches]
    /\ index \in [Batchers -> 0 .. BatchSize]
    /\ timedOut \in [Batchers -> BOOLEAN]
    /\ queue \in Seq(Batches)
    /\ job \in [Batches -> {"gone", "queued", "opening", "reading", "committed", "failed"}]
    /\ rows \in [Batches -> SUBSET Records]
    /\ stored \subseteq Records
    /\ answer \in [Records -> {"none", "ok", "error"}]
    /\ exited \in BOOLEAN

\* NewDatabase constructs the batchers one by one; each has submitted its first batch.
Init ==
    /\ offered = {}
    /\ hold = [b \in Batchers |-> None]
    /\ current \in [Batchers -> Batches]
    /\ \A b, c \in Batchers : current[b] = current[c] => b = c
    /\ \E order \in [1 .. Cardinality(Batchers) -> Batchers] :
          /\ \A i, j \in 1 .. Cardinality(Batchers) : order[i] = order[j] => i = j
          /\ queue = [i \in 1 .. Cardinality(Batchers) |-> current[order[i]]]
    /\ index = [b \in Batchers |-> 0]
    /\ timedOut = [b \in Batchers |-> FALSE]
    /\ job = [s \in Batches |-> IF Closed(s) THEN "gone" ELSE "queued"]
    /\ rows = [s \in Batches |-> {}]
    /\ stored = {}
    /\ answer = [r \in Records |-> "none"]
    /\ exited = FALSE

--------------------------------------------------------------------------------
(* The batcher goroutine. *)

\* PushCallback: the caller blocks until the loop receives its record.
PushCallback(r) ==
    /\ ~exited
    /\ Fresh(r)
    /\ offered' = offered \cup {r}
    /\ UNCHANGED <<loopVars, queue, job, rows, stored, answer, exited>>

\* newBatch: the old channels are closed and a new job is submitted to the pool.
\* Which garbage identity the new batch object gets does not matter.
NewBatch(b) ==
    LET s == CHOOSE t \in Garbage : TRUE
    IN  /\ Garbage # {}
        /\ current' = [current EXCEPT ![b] = s]
        /\ job' = [job EXCEPT ![s] = "queued"]
        /\ queue' = Append(queue, s)
        /\ index' = [index EXCEPT ![b] = 0]
        /\ timedOut' = [timedOut EXCEPT ![b] = FALSE]

\* The loop's select takes the time-out.
SelectTimeout(b) ==
    /\ ~exited
    /\ hold[b] = None
    /\ timedOut[b]
    /\ NewBatch(b)
    /\ UNCHANGED <<offered, hold, rows, stored, answer, exited>>

\* The loop's select takes a record; the time-out is looked at once more.
SelectRecord(b, r) ==
    /\ ~exited
    /\ hold[b] = None
    /\ r \in offered
    /\ Table[r] = b
    /\ offered' = offered \ {r}
    /\ hold' = [hold EXCEPT ![b] = r]
    /\ IF timedOut[b] THEN NewBatch(b)
                      ELSE UNCHANGED <<current, job, queue, index, timedOut>>
    /\ UNCHANGED <<rows, stored, answer, exited>>

\* Deliver without the size check.
DeliverUnbounded(b) ==
    /\ ~exited
    /\ hold[b] # None
    /\ job[current[b]] = "reading"
    /\ rows' = [rows EXCEPT ![current[b]] = @ \cup {hold[b]}]
    /\ hold' = [hold EXCEPT ![b] = None]
    /\ index' = [index EXCEPT ![b] = @ + 1]
    /\ UNCHANGED <<current, job, queue, timedOut, offered, stored, answer, exited>>

\* Deliver that sends the last record of a full batch again to the next one.
DeliverTwice(b) ==
    /\ ~exited
    /\ hold[b] # None
    /\ job[current[b]] = "reading"
    /\ rows' = [rows EXCEPT ![current[b]] = @ \cup {hold[b]}]
    /\ IF index[b] + 1 = BatchSize
         THEN NewBatch(b) /\ UNCHANGED hold
         ELSE /\ index' = [index EXCEPT ![b] = @ + 1]
              /\ hold' = [hold EXCEPT ![b] = None]
              /\ UNCHANGED <<current, job, queue, timedOut>>
    /\ UNCHANGED <<offered, stored, answer, exited>>

\* batchDataIn <- record meets the Next() of the current batch's job.
Deliver(b) ==
    /\ ~exited
    /\ hold[b] # None
    /\ job[current[b]] = "reading"
    /\ rows' = [rows EXCEPT ![current[b]] = @ \cup {hold[b]}]
    /\ hold' = [hold EXCEPT ![b] = None]
    /\ IF index[b] + 1 = BatchSize
         THEN NewBatch(b)
         ELSE /\ index' = [index EXCEPT ![b] = @ + 1]
              /\ UNCHANGED <<current, job, queue, timedOut>>
    /\ UNCHANGED <<offered, stored, answer, exited>>

--------------------------------------------------------------------------------
(* The job of a batch, run by the worker pool. *)

\* An idle worker takes the oldest job.
StartJob ==
    /\ ~exited
    /\ queue # <<>>
    /\ Cardinality(Running) < Workers
    /\ job' = [job EXCEPT ![Head(queue)] = "opening"]
    /\ queue' = Tail(queue)
    /\ UNCHANGED <<offered, loopVars, rows, stored, answer, exited>>

\* CopyFrom returns before it has asked for a row: log.Fatalln.
OpenFails(s) ==
    /\ ~exited
    /\ job[s] = "opening"
    /\ exited' = TRUE
    /\ UNCHANGED <<offered, loopVars, queue, job, rows, stored, answer>>

\* The first Next() sets the start event, which arms the time-out.
FirstNext(s) ==
    /\ ~exited
    /\ job[s] = "opening"
    /\ job' = [job EXCEPT ![s] = "reading"]
    /\ UNCHANGED <<offered, loopVars, queue, rows, stored, answer, exited>>

\* A timer armed when the batch is created, not when its job starts.
TimeoutSetEarly(b) ==
    /\ ~exited
    /\ ~timedOut[b]
    /\ timedOut' = [timedOut EXCEPT ![b] = TRUE]
    /\ UNCHANGED <<offered, hold, current, index, queue, job, rows, stored, answer, exited>>

\* The timer of a batch that was started fires, whether or not its job still runs.
TimeoutSet(b) ==
    /\ ~exited
    /\ job[current[b]] \notin {"queued", "opening"}
    /\ ~timedOut[b]
    /\ timedOut' = [timedOut EXCEPT ![b] = TRUE]
    /\ UNCHANGED <<offered, hold, current, index, queue, job, rows, stored, answer, exited>>

\* CopyFrom returns an error after some row, whether or not its channel is still open.
CopyAborts(s) ==
    /\ ~exited
    /\ job[s] = "reading"
    /\ rows[s] # {}
    /\ job' = [job EXCEPT ![s] = "failed"]
    /\ UNCHANGED <<offered, loopVars, queue, rows, stored, answer, exited>>

\* Next() finds the channel closed and CopyFrom commits every row it was given.
CopyCommits(s) ==
    /\ ~exited
    /\ job[s] = "reading"
    /\ Closed(s)
    /\ job' = [job EXCEPT ![s] = "committed"]
    /\ stored' = stored \cup rows[s]
    /\ UNCHANGED <<offered, loopVars, queue, rows, answer, exited>>

\* Next() finds the channel closed and the server refuses the COPY.
CopyRefused(s) ==
    /\ ~exited
    /\ job[s] = "reading"
    /\ Closed(s)
    /\ job' = [job EXCEPT ![s] = "failed"]
    /\ UNCHANGED <<offered, loopVars, queue, rows, stored, answer, exited>>

\* Callbacks that are not given CopyFrom's error.
CallbackNil(s, r) ==
    /\ ~exited
    /\ job[s] \in {"committed", "failed"}
    /\ r \in rows[s]
    /\ answer' = [answer EXCEPT ![r] = "ok"]
    /\ rows' = [rows EXCEPT ![s] = @ \ {r}]
    /\ UNCHANGED <<offered, loopVars, queue, job, stored, exited>>

\* Callbacks that run when the channel is closed, before CopyFrom has returned.
CallbackEarly(s, r) ==
    /\ ~exited
    /\ job[s] \in {"committed", "failed"} \/ (job[s] = "reading" /\ Closed(s))
    /\ r \in rows[s]
    /\ answer' = [answer EXCEPT ![r] = IF job[s] = "failed" THEN "error" ELSE "ok"]
    /\ rows' = [rows EXCEPT ![s] = @ \ {r}]
    /\ UNCHANGED <<offered, loopVars, queue, job, stored, exited>>

\* The callbacks of the batch run one after the other, each with CopyFrom's error.
Callback(s, r) ==
    /\ ~exited
    /\ job[s] \in {"committed", "failed"}
    /\ r \in rows[s]
    /\ answer' = [answer EXCEPT ![r] = IF job[s] = "committed" THEN "ok" ELSE "error"]
    /\ rows' = [rows EXCEPT ![s] = @ \ {r}]
    /\ UNCHANGED <<offered, loopVars, queue, job, stored, exited>>

\* A job that returns early when CopyFrom fails: its callbacks never run.
JobReturnsOnError(s) ==
    /\ ~exited
    /\ job[s] = "failed" \/ (job[s] = "committed" /\ rows[s] = {})
    /\ rows' = [rows EXCEPT ![s] = {}]
    /\ job' = [job EXCEPT ![s] = "gone"]
    /\ UNCHANGED <<offered, loopVars, queue, stored, answer, exited>>

\* The job returns and its worker is free.
JobReturns(s) ==
    /\ ~exited
    /\ job[s] \in {"committed", "failed"}
    /\ rows[s] = {}
    /\ job' = [job EXCEPT ![s] = "gone"]
    /\ UNCHANGED <<offered, loopVars, queue, rows, stored, answer, exited>>

--------------------------------------------------------------------------------

\* What goes on by itself once a record has been pushed.
BatcherStep ==
    \/ \E b \in Batchers :
          \/ SelectTimeout(b)
          \/ \E r \in Records : SelectRecord(b, r)
          \/ Deliver(b)
          \/ TimeoutSet(b)
    \/ StartJob
    \/ \E s \in Batches :
          \/ OpenFails(s)
          \/ FirstNext(s)
          \/ CopyAborts(s)
          \/ CopyCommits(s)
          \/ CopyRefused(s)
          \/ \E r \in Records : Callback(s, r)
          \/ JobReturns(s)

Next == (\E r \in Records : PushCallback(r)) \/ BatcherStep

\* Goroutines that can run do run, timers fire, idle workers take jobs and a COPY
\* whose data has ended returns.  Nobody has to push, and no COPY has to fail.
Fairness ==
    /\ \A b \in Batchers : /\ WF_vars(SelectTimeout(b))
                           /\ WF_vars(\E r \in Records : SelectRecord(b, r))
                           /\ WF_vars(Deliver(b))
                           /\ WF_vars(TimeoutSet(b))
    /\ WF_vars(StartJob)
    /\ \A s \in Batches : /\ WF_vars(FirstNext(s))
                          /\ WF_vars(CopyCommits(s) \/ CopyRefused(s))
                          /\ WF_vars(\E r \in Records : Callback(s, r))
                          /\ WF_vars(JobReturns(s))

Spec == Init /\ [][Next]_vars

FairSpec == Spec /\ Fairness

--------------------------------------------------------------------------------
(* What must hold. *)

\* A loop that waits for a job that has ended: CopyFrom failed in mid-batch and a
\* record came before the time-out (batcher.go:97).
Stuck(b) == hold[b] # None /\ job[current[b]] \in {"failed", "gone"}

\* A callback tells the truth, and a COPY is all or nothing: a record whose callback
\* was given nil is a row of its table, a record whose callback was given an error is
\* not, and neither is a record whose batch is still being read or has failed.
CallbackTruthful ==
    /\ \A r \in Records : /\ answer[r] = "ok" => r \in stored
                          /\ answer[r] = "error" => r \notin stored
    /\ \A s \in Batches : /\ job[s] = "committed" => rows[s] \subseteq stored
                          /\ job[s] # "committed" => rows[s] \cap stored = {}

\* No record is lost or doubled on its way from PushCallback to its callback: it is
\* offered, held by its loop, in one batch or answered, never two of these, and the
\* batch it is in belongs to its table while the loop still feeds it.
OnePlace ==
    /\ \A r \in offered : answer[r] = "none"
    /\ \A b \in Batchers : hold[b] # None =>
          Table[hold[b]] = b /\ hold[b] \notin offered /\ answer[hold[b]] = "none"
    /\ \A s \in Batches : \A r \in rows[s] :
          r \notin offered /\ hold[Table[r]] # r /\ answer[r] = "none"
    /\ \A s, t \in Batches : s # t => rows[s] \cap rows[t] = {}
    /\ \A b \in Batchers : \A r \in rows[current[b]] : Table[r] = b

\* One COPY never gets more rows than the batch size, even when the time-out and the
\* size limit end batches in turn.
BatchBound == \A s \in Batches : Cardinality(rows[s]) <= BatchSize

\* A slow database holds the pushers back instead of piling up batches: the jobs that
\* were submitted and have not returned are at most one per worker and one per loop.
Backpressure ==
    Cardinality({s \in Batches : job[s] # "gone"}) <= Workers + Cardinality(Batchers)

\* Whatever the database does, memory holds a bounded number of bounded batches
\* (batcher.go:80, 99-102).
NothingPilesUp == BatchBound /\ Backpressure

\* Every record that is pushed gets its callback, unless the process exits or its loop
\* is stuck behind a COPY that failed in mid-batch: that is the only way to lose a
\* callback.
AnsweredUnlessStuck ==
    \A r \in Records :
        r \in offered ~> answer[r] # "none" \/ exited \/ Stuck(Table[r])

\* "At worst it will take a few seconds before this flow is searchable" (db.go:341):
\* the callback of every pushed record runs, with or without an error.
EveryRecordAnswered ==
    \A r \in Records : r \in offered ~> answer[r] # "none" \/ exited

--------------------------------------------------------------------------------
(* CopyBatcher implements BatchedTable. *)

\* r is in a batch whose COPY has failed.
InFailedBatch(r) == \E s \in Batches : job[s] = "failed" /\ r \in rows[s]

rowOf == [r \in Records |->
            IF r \in stored THEN "stored"
            ELSE IF answer[r] = "error" \/ InFailedBatch(r) THEN "failed"
            ELSE IF Fresh(r) THEN "idle" ELSE "pending"]

toldOf == [r \in Records |-> IF answer[r] = "none" THEN "nothing" ELSE answer[r]]

Contract == INSTANCE BatchedTable WITH row <- rowOf, told <- toldOf

\* Rows are settled in groups of one table, all or nothing, and told once: every step
\* of the batchers, jobs and timers is a step of BatchedTable or changes nothing there.
ImplementsBatchedTable == Contract!TableSpec

================================================================================
