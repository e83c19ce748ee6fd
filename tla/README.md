# A verification model of tulip (ad-infra-k3s)

The repository holds the infrastructure of an attack/defence CTF team: a Hetzner
Kubernetes cluster (Terraform, packer, nix), the manifests of what runs on it (Argo CD)
and tulip, a flow analyser (`apps/tulip`). Its own program logic is tulip's way from a
capture file to an answer on the screen: `go-importer`, some 3000 lines of Go, which turns
capture files into rows of a PostgreSQL/Timescale database; the converter scripts and the
web API, in Python; and a stress test with a traffic generator, in Python too. These are
what this directory models, in TLA+, checked with TLC and for the greater part of the
safety properties proved with TLAPS.

Paths below are relative to `src/apps/tulip/services/go-importer/` unless they start
with `src/` or `api/`, which is `src/apps/tulip/services/api/`.

## 1. Inventory

### Components, state, operations

| Part | Code | State | Operations |
|---|---|---|---|
| capture ingestion | `cmd/assembler/main.go` | assembler memory, dump writer, position of each file (in the database) | list and watch a directory, read a file, skip what was read, flush connections, dump packets, SIGINT |
| stream assembly | `cmd/assembler/tcp.go`, `udp.go` | per connection: items, sizes, last packet | add a segment, consolidate, cut to a limit, complete |
| flow pipeline | `cmd/assembler/main.go:99`, `http.go`, `tags.go`, `flagValidator.go` | cache of flag ids | parse HTTP, convert, tag, insert, on a worker pool |
| copy batcher | `internal/pkg/db/batcher.go`, `internal/pkg/event` | per table: current batch, count, time-out; queue of the worker pool | push with callback, close a batch on size or time-out, COPY, call back |
| flow storage | `internal/pkg/db/db.go:289-407` | rows of `flow_index`, `flow_item`, `flow`; queued fingerprints | `FlowInsert`, its callbacks, `FingerprintsFlush` |
| flow linking | `db.go:513-590` | `fingerprint` groups, links of flows | insert fingerprints, recompute the links of touched groups |
| pcap rows | `db.go:113-179` | `pcap.position` | find or insert, set position |
| known tags | `db.go:181-245` | set of tags | upsert, periodic update |
| enricher | `cmd/enricher/main.go`, `db.go:409-493` | offset into eve.json | poll the file, parse lines, find the flow, add signatures and tags |
| converter pool | `internal/converters` | processes, restart flags and waiters | round robin, convert with a time-out, restart |
| converters | `converters/*.py`, `converters/helpers/__init__.py` | attributes of the converter object, which outlives a stream | read a stream, convert chunk by chunk (HTTP, HTTP/2, gRPC, websockets, TLS, DNS, ...), answer |
| flag id scraper | `src/apps/tulip/services/flagids/flagids.py` | none | scrape, insert, pause |
| web API | `api/webservice.py`, `api/database.py` | connection pool | list, show, count and star flows |
| request exporters | `api/data2req.py`, `converters/pwntools.py`, `converters/pythonrequests.py` | none | write a script that repeats a flow |
| traffic generator | `src/scripts/pcap_generator.py` | clock, segment, numbers of requests, files | write a segment, publish it by rename, sleep |
| stress test | `src/scripts/tulip-pcap-stress.py` | child processes, and in the cluster the deployment's `RSYNC_SOURCE` and an sshd | `run`, `cleanup` |
| pcap synchronisation | `src/argo/tulip/templates/rsync-*.yaml` | staging and lock directories | rsync, publish by rename, remove |

Not program logic, and left out: Terraform and kube-hetzner, Argo CD manifests, ctfnote,
secrets, the React front end, the test captures and images.
PROJECT.json lists every component with its status and reason.

### How they interact

Capture files reach a shared volume by rsync. The assembler reads them, feeds packets to
gopacket's TCP assembler and its own UDP assembler, and hands each finished connection to
`reassemblyCallback`, which runs the pipeline on a worker pool and ends in `FlowInsert`.
`FlowInsert` pushes index, item and flow rows to three copy batchers; their COPY jobs run
on the worker pool of the database object. The enricher, another process, reads
suricata's log and updates flow rows it finds in the database. The converter pool, which
the deployment switches off, writes a stream to the input of a converter process and reads
one answer from it; it kills a process that is late. The API reads the same tables while
these writers go on, and writes one column itself (the star of a flow). The stress test replaces the
source of the captures by the traffic generator and takes everything back at its end.
Nothing but the database and the files survives a restart of a pod, and pods are
restarted.

### What is hard, and what makes each part correct

- **copy batcher**: a loop, its jobs, timers and callbacks are different goroutines that
  meet on unbuffered channels; batches of all tables share too few workers; COPY fails at
  any row. Correct: each record goes to one batch, callbacks tell the truth, COPYs are
  all or nothing, nothing piles up, everyone is answered.
- **flow storage**: many flows share batches, items of one flow are split over batches of
  different fate. Correct: readers see a flow at once or not at all, a flow is
  given up exactly when none of its items is stored, and then at most index rows remain.
- **capture ingestion**: files grow while they are read, events come at any time, the
  process dies between reading, storing the position and flushing. Correct: positions
  never lie nor fall back, nothing they cover is read twice, reported files are read.
- **stream assembly**: arithmetic at the size limit, streams that are completed while
  their conversation goes on, times that are rounded before a reader searches by them.
  Correct: nothing beyond the limit, nothing lost far below it, sides alternate, each
  datagram is in one flow with its conversation, every item is found.
- **enricher**: polling a file that grows, an offset in memory that runs ahead of its
  jobs, restarts that read all again, flows that are stored later than their alerts.
  Correct: no update is forgotten, marks are listed once and on their flow, growth is
  noticed, new tags become known.
- **converters**: one object handles stream after stream, and its attributes decide how the
  bytes of the next chunk are read; three loops consume buffers that may not shrink; an
  exception may cost a chunk or the stream. Correct: nothing of an earlier stream shows,
  bad bytes cost chunks of their own side only, every stream is answered.
- **web API**: an answer is put together from statements that see different states, rows
  appear between them, connections run out, stars and marks are written to one column.
  Correct: pieces of an answer agree, nothing that was there is left out, an answer fails
  only for known reasons, no mark is lost.
- **stress test and generator**: interrupts at any step, of the cleanup too, children that
  die, calls that fail after their effect, a pod that is replaced. Correct: cleanup undoes
  what the run did, an interrupted run ends, the files tile the time and number the
  requests without a gap.
- **flow linking**: fingerprints before rows, groups that should be one.
- **converter pool**: nothing as it stands. `RunPipeline` writes to a nil map
  (`internal/converters/runner.go:22`) and panics at the first item of a flow to a service
  that has converters, before the pool's time-outs and restarts come into play.

PROJECT.json's `hazards` give the line of each, and the property that watches it or the
reason why none does.

## 2. Modules

| Module | Models | Note |
|---|---|---|
| `BatchedTable` | what a batcher promises | abstract: rows settle in groups of one table, at most a batch, all stored or all lost; then each pusher is told once |
| `CopyBatcher` | `batcher.go`, worker pool | implements `BatchedTable` (refinement mapping `rowOf`, `toldOf`) |
| `MCCopyBatcher` | - | three records, two tables, one worker, batches of two |
| `CopyBatcherProofs` | - | theorems about `CopyBatcher` and `FlowPipeline` |
| `FlowCatalog` | what a reader of the database may rely on | abstract: a flow appears at once, with items, and never changes |
| `FlowRows` | the rows of a flow and their tables | constants of the next two |
| `FlowStore` | `FlowInsert` and its callbacks over `BatchedTable` | abstract in its tables; implements `FlowCatalog` |
| `FlowStoreProofs` | - | theorems about `FlowStore` |
| `FlowPipeline` | `FlowInsert` on the three copy batchers it pushes to | extends `CopyBatcher`; implements `FlowStore` and so `FlowCatalog` |
| `MCFlowPipeline` | - | a flow with two items and an index row, one worker |
| `PcapIngest` | `WatchDir`, `ProcessPcapHandle`, dumps, positions | environment: growing files, malformed packets, crashes, failed updates, SIGINT |
| `MCPcapIngest` | - | two files, one with a packet that defragmentation refuses |
| `PcapIngestProofs` | - | theorems about `PcapIngest` |
| `Enricher` | `cmd/enricher`, flow updates, known tags | implements `FlowMarks`; environment: suricata writes, the assembler stores flows |
| `FlowMarks` | what the enricher promises to readers | abstract: a flow's tags and signatures are sets that grow by what one complete line about it asks for |
| `MCEnricher` | - | two flows, three lines |
| `EnricherProofs` | - | theorems about `Enricher` |
| `Streams` | `tcp.go`, `udp.go`, times in ids and rows | environment: a capture in the order of time |
| `MCStreams` | - | one TCP connection, three UDP headers |
| `StreamsProofs` | - | theorems about `Streams` |
| `Converters` | one converter process: the loop of `run`, the stack of HTTP classes, the chunk decoders | environment: any streams, a caller that kills |
| `MCConverters` | - | 3055 streams of up to three chunks |
| `ConvertersProofs` | - | theorems about `Converters` |
| `FlowApi` | `webservice.py`, `database.py` | environment: the assembler and the enricher write, within `FlowCatalog` |
| `MCFlowApi` | - | two flows, two clients, nine requests |
| `FlowApiProofs` | - | theorems about `FlowApi` |
| `PcapGenerator` | `pcap_generator.py` | used by `StressHarness` |
| `StressHarness` | `tulip-pcap-stress.py` | extends `PcapGenerator`; environment: faults, interrupts, the cluster |
| `MCStressHarness` | - | two runs of two seconds or for ever |
| `StressHarnessProofs` | - | theorems about `StressHarness` |

`FlowPipeline` is the composition: `FlowInsert`'s steps and the batchers', jobs' and timers'.
Its proof goes through layers: `CopyBatcher => BatchedTable`, hence `FlowPipeline =>
FlowStore` (the same `FlowInsert` over tables that keep `BatchedTable`'s promise), and
`FlowStore => FlowCatalog`. `FlowApi` takes up the outcome: a flow's row comes after its
items and no item comes later, while index rows come at any time and some items or the row
may never come. `FlowApi!Catalog` shows that the environment it assumes is `FlowCatalog`'s,
so that what is proved of the answers holds over the writers that were proved to keep it.

**CopyBatcher.** `offered` are the callers blocked in `PushCallback`, `hold` is the local
`record` of the loop between its `select` and `batchDataIn <- record`, `current`, `index`
and `timedOut` are the loop's variables and its time-out event. `queue` and `job` are the
worker pool: a job is queued, opening (before its first `Next`), reading, committed or
failed, and gone when its last callback has run. A batch object is an identity that is
used again once nobody refers to it; there are enough of them (workers + tables +
1) that `NewBatch` is never held up by their number (theorem `IdentitiesSuffice`).
`SelectTimeout`, `SelectRecord` and `Deliver` are the loop; `StartJob`, `FirstNext`,
`OpenFails`, `CopyAborts`, `CopyCommits`, `CopyRefused`, `Callback`, `JobReturns` the job.
`log.Fatalln` (batcher.go:196) is `exited`. The `Done()` branch of the loop is dead: the
context is `context.Background()`.

**FlowStore, FlowPipeline.** `phase` is where `FlowInsert` or its goroutine stands. In
`FlowPipeline` a push offers one record and goes on when the loop has taken it, a callback
is the batcher's, and nothing more happens once the process has exited. In `FlowStore` one
push is one step and the rows' fate and callbacks are `BatchedTable`'s; the refinement maps
`row` and `told` as `CopyBatcher` does. Tags and the pcap lookup are left out: they do not
change what happens to the rows.

**PcapIngest.** A packet is its file and its number. `written` is the length of a file,
`position` the column of its row, `reader` the local variables of `ProcessPcapHandle`
(`start` is `pcap.Position`, `size` the length when the file was opened: the reading
goroutine of gopacket may meet the end at any length from that on). `open` are the
packets in the assemblers, `flows` counts in how many finished flows a packet was, and
`times` how often it passed the skip. Which connection a packet belongs to and when that
connection times out is left open: `Emit` takes any subset. The `int64` of the position
has the range `-MaxInt-1 .. MaxInt` and `Int64Succ` wraps. Events are a set of names; an
event repeated before it is received changes nothing. Files only grow (rsync replaces a
file by a longer one of the same beginning). `Crash` stands for a kill, SIGTERM (not
handled) and every `log.Fatal` that no packet causes. `DefragFails` is the one that a
packet causes (main.go:637): the packet is in `Malformed`, the process ends before the
position is stored, and the next one comes to the same packet. `Unfiltered` are captures of
a link type for which the BPF filter does not compile: they are closed unread.

**Enricher.** `complete` and `partial` are eve.json: its lines that end in a newline, and
whether an unfinished one follows. `ratchet` and `prevSize` are the local variables of
`watchEve`, in lines and half lines instead of bytes, and `pc` says where it is: opening,
reading, in the first or the second lookup (`straight`, `swapped`), at the stat, asleep. A
line is a record of what `handleEveLine` takes from it; its ends and its time appear as the
flows that each lookup would match, so a lookup is an intersection with the stored flows.
`jobs` are the updates submitted to the worker pool, `tags` and `signatures` columns of
`flow` as bags, because the columns are JSON lists and only `jsonb_unique` keeps them
free of repetitions. `knownTags` is the cache and `tagTable` the table it is written to.
`StoreFlow` is the step of `FlowStore` that makes a flow visible. `missed` and `failed`
are history variables: they record which lines found no flow and which statements failed,
and no action reads them.

**Streams.** A stream counts bytes (`size` that arrived, `kept` in its items) instead of
holding them; the datagrams of an item are numbered, so that losing or doubling one can be
seen. gopacket's reassembly is external: it calls `Reassembled` with a chunk of any length
and direction and `ReassemblyComplete` once. `Identifier` is the pair of unordered pairs
that `Assemble` builds (the hash of an address stands for the address). The threshold of
`CompleteOlderThan` is left open, because it is the wall clock minus a time-out while the
packets have the capture's clock. Time is counted in a unit of which `Resolution` make a
microsecond; `Micro` is what is left of it in an id or a row, `StoredDuration` what is left
of a duration. `UintMinus` wraps at `Word`, as Go's `uint` does.

**Converters.** A chunk is what each parser makes of its bytes: an HTTP/1 message or none,
a list of websocket frames, a list of HTTP/2 frames, a number of QUIC packets. `py` are the
attributes of the converter object (`h2_active`, the two HTTP/2 buffers, the websocket key,
`switched_protocols`, the fragments, the streams that announced gRPC, ...), `stream`, `pos`,
`backlog`, `todo`, `events` and `out` what `handle_stream` and its loops hold, and `pc` is
`read` (in `run`, before the next stream), `chunk` (at the head of the loop over chunks),
`ws` or `h2` (in a loop over frames) or `failed` (an exception on its way to `run`).
`ReadStream` makes the resets that each class makes, and no more. `class` stands for the
program that was started: the plain HTTP class, the three that extend HTTP/2, and the five
that decode each chunk by itself. `RepeatFrame` is the branch of the frame loop that
returns without taking the frame away. `Kill` is the caller's time-out.

What cannot be read is modelled by what it does. A broken HTTP/2 frame, and a preface that
comes a second time, stay at the head of their side's buffer: each later chunk of that side
is added behind them (`Buffered`) and ends in an error or in nothing. Settings or a body
that cannot be decoded raise in the handler of a message (`UpgradeRequest`,
`ResponseRefused`), a websocket frame may be one byte where two are looked at (`StubFrame`)
or hold data that does not decompress (`InflateFails`); a side that has missed a compressed
message (`missed`) may not decompress from then on.

**FlowApi.** `indexed`, `items`, `stored`, `tags` and `tagTable` are the tables, `pc` the
statement a request is at, `found` what its statements have read, `reply` its answer.
PostgreSQL's READ COMMITTED lets each statement see what is committed when it begins, so a
statement is a step. `Candidates` and `Matches` are the first query of `flow_query` with its
outer join, `Window` the two ids of `stats_query`. `begun` is a history variable: it
records what was stored when the request got its connection. `StoreIndex`, `StoreItems` and
`StoreFlow` are `FlowStore`'s writes, `MarkFlow` and `ListTag` the enricher's. A request is
`refused` when it gives a value that `webservice.py` lets through and PostgreSQL does not (a
regular expression that only Python compiles): `QueryRefused` is the statement that raises,
unless there is no text to try it on. `StatsOverflow` is the `OverflowError` for a tick
whose time `datetime` does not have (`IsDate`).

**PcapGenerator.** A file is the record of its segment: its start, the seconds it stands
for, its first request, how many requests it should have and how many are written. `open`
is the file under its temporary name, `pcaps` those that have been renamed. `wire` holds
the seven packets of the last request with their 32-bit numbers, in a space of `SeqSpace`.

**StressHarness.** `pc` goes through the steps of `run` and then of `cleanup`, with `child`
the process a step is about. Calls to the cluster have their effect in a step and return in
another, so that a failure or an interrupt can fall between the two. `alive` are children
that run, `held` those whose handle is in an attribute: `Popen` forks before its result is
assigned. `source`, `pod`, `script` and `sshd` are the cluster: a patch or an eviction brings
another pod, in which neither the script nor an sshd runs. The script that an exec has sent
goes on by itself (`SshdStarts`), also when the exec was killed. The patch of cleanup comes
through, fails with or without effect (`RestoreRefused`), or is never written
(`RestoreUnwritten`: an `OSError`, which leaves the cleanup). `Interrupt` is SIGINT, or
SIGTERM, which `main` turns into the same exception. `excuses` is a history variable: what
kept cleanup from its work, one word for each step that can fail. `Tick` is the only action
that moves the clock.

## 3. Runs

All runs say `CHECK_DEADLOCK FALSE`: the systems do stop, when the process has exited,
when every record has been answered, when no more packets come or the stress test is over,
and in `converters` and `flow_api` when as many streams or requests were made as the bounds
allow and nothing is left to write.

| Run | Shows |
|---|---|
| `copy_batcher` | three records `i1`..`i3`, two batchers, one worker, batch size two, COPYs that fail at each point: types, truth of callbacks (`CallbackTruthful`), one place per record (`OnePlace`), bounded batches and jobs (`NothingPilesUp`); refinement of `BatchedTable`; every record answered unless the loop is stuck. |
| `stuck_batcher` | violation of `EveryRecordAnswered`: after a COPY failed in mid-batch, a record that comes before the time-out blocks the loop for good. |
| `flow_pipeline` | one flow of two items and an index row over three batchers and one worker, COPYs that fail at any point: the flow is given up if and only if none of its items is stored, when at most its index row remains (`GivenUpIffNoItem`), refinement of `FlowStore` and `FlowCatalog`, the insert ends unless a loop it needs is stuck. |
| `pcap_ingest` | two files of two packets (the second a fragment), one dump file outside the watched directory, in one of the files a packet that ends the process, one crash or failed update, one interrupt: positions tell the truth and never fall back, stored packets are skipped, without faults each packet reaches the flows once, reported files are read unless the process was interrupted or keeps dying of the malformed packet. |
| `dump_reread` | violation of `DumpsAreNotRead`: `math.MaxInt64 + 1` wraps, so a dump in the watched directory is read, dumped again, and so on. |
| `enricher` | two flows, an alert, a line that is not JSON and a flowbit line for both flows, one restart and one failed call: no update of a line behind the offset is forgotten, and no name of a tag on its way to the tag table (`NothingForgotten`); marks are listed once and on their flow (`MarksEarnedOnce`); refinement of `FlowMarks`; growth noticed and new tags listed in the end. |
| `streams` | a capture of three packets, of one TCP connection and three kinds of datagrams, flushes at any threshold: what is cut and what is kept (`LimitIsFair`), completeness of what a reader finds (`EveryItemShown`), each datagram once and with its conversation (`ConversationsHoldTogether`). |
| `udp_limit` | violation of `UdpUnderLimit`: the unsigned difference wraps and payloads are kept in full. |
| `stress_harness` | the driver, its children, the cluster and a generator of one-second files, two faults and two interrupts at any steps: files tile the run, the packets of a request are a conversation, cleanup undoes the run (the source is put back whatever other step fails, an sshd stays only where its exec failed or came too early and the pod was not replaced), and a bounded or interrupted run ends. |
| `converters` | any two streams to one process of each class, with a kill in between: nothing of an earlier stream shows, bad bytes cost chunks of their own side only, every stream is answered but for one loop. |
| `websocket_deflate` | violation of `WholeMessagesPass`: the first whole message of a compressed websocket is refused as a fragment that does not fit. |
| `flow_api` | two requests over one connection while two flows are stored, marked and starred: failures for refused values and two states of the tables only, details that agree, whole answers, stars and marks that keep each other. |

**Bounds.** Two batchers and one worker are the smallest system in which batches compete for
a worker; three records with batches of two give a full batch, a half-filled one and a
record that meets a closed batch. The configuration fixes which of the two first batches is
older (`MCSpec`), which is symmetric. In `MCFlowPipeline` the two items of the flow share a
batch of two or are split by the time-out, and every batch competes with two other tables
for the worker; five batch identities are one more than three loops and one worker can use.
A second flow is beyond what TLC finishes; the theorems hold for any number. Two packets per
file give a packet below and one beyond a position, two files an event that waits while
another is handled; one fault is enough for each of the orders crash/store/flush, and
`MaxInt = 7` is larger than any length and small enough to wrap. `MaxDeaths = 1` lets the
process meet the malformed packet once more after a restart; later meetings are no
different. No file of the run is in `Unfiltered`: a third capture is beyond what TLC
finishes, and the theorems, which allow any such files, cover them. The bounds matter for
TLC alone: the theorems hold for any numbers of packets, deaths, faults and any `MaxInt`
beyond the length of a file. The three lines of `MCEnricher` are one of each way through
`handleEveLine` (found at once, skipped, found after the exchange of the ends or not at
all), the two flows let a line match more than one; one restart reads all lines again and
one failed call can hit any of them. In `MCStreams` lengths 0, 1 and 3 under a limit of 4
reach every branch of both limits: nothing to cut, a part cut, no room, and for UDP a
wrapped difference (`Word = 16` is far above the limit, as 2^64 is). Three packets give two
items from one side and one from the other, or a stream that is completed between two of its
datagrams; two time units to a microsecond and four instants let an item fall on either side
of a rounding. The three headers are a packet, its reply, and one of other ports between the
same hosts. `MCConverters` combines openings, answers and followers that do or do not fit
each other: ten ways for a client to begin, twelve for a server to answer, then frames of
either protocol from either side, well-formed, fragmented, undecodable, cut short or with the
rest of the chunk behind a broken one, or a second preface; and HTTP/2 connections in which
the server's frames come first and are bad. Two streams are enough for one to meet what another left
(every attribute is set by one stream), and `MaxKept = 2` stops the counter in the loop that
keeps a fragment for ever. In `MCFlowApi` the flows have two items and one, and begin in the
very microsecond in which one tick ends and the next begins, so that they fall on the edges
of statistics; a limit of two is reached and a pool of one runs out; the nine requests are
one of each way through the API, one of them with an expression that PostgreSQL refuses and
one with a tick beyond `datetime`. In `MCStressHarness` a second is two ticks, so that work
and sleep can end in mid-second; five ticks and two segments take a run of two seconds to
its end and an endless one to its second file; the draws are the least and the greatest first
number (no number of the code wraps: both ends draw below 2^31); two faults and two interrupts
let a failure hit `run` and another `cleanup`.
The theorems do not depend on any of these numbers.

**Fairness.** Weak fairness of each loop, timer, callback and of the worker pool: Go
schedules runnable goroutines, timers fire, and the pool's dispatcher gives a waiting job to
an idle worker. A COPY whose data has ended returns (with or without an error). Nobody is
obliged to push, to append to a file, to fail or to interrupt. In `FlowPipeline`
`FlowInsert` and its goroutine run on to their next wait, and the batchers have
`CopyBatcher`'s fairness. In `Enricher` the read loop, the workers and the five-second
ticker go on; neither suricata, which may stop in the middle of a line, nor the assembler
has to do anything. `Streams` has no liveness property: nothing in the code makes a packet
or a flush come; neither has `FlowApi`, where a request waits for a connection as long as
its time-out allows. In `Converters` the process goes on with what it has read, and nobody
has to kill it. In `StressHarness` every call of `run` and of `cleanup` returns in the end
(each has a time-out of its own or the API server's; the script that an exec waits for does
nothing that lasts, while nothing is asked of a script nobody waits for), and the generator,
while it lives, works and time passes; nothing has to fail or to interrupt. In `PcapIngest` the process runs
on and is restarted when it ended (the deployment's pods are), and an event in the queue is
received; that it is restarted only so often after it has met a malformed packet takes
nothing from `ReportedFileIsRead`, which asks nothing more from then on.

**Findings.** The four violations are in PROJECT.json with the lines they concern; all are
bugs of the code: `stuck_batcher` (batcher.go:97), `dump_reread` (main.go:611), `udp_limit`
(udp.go:113) and `websocket_deflate` (websockets.py:74). Where the code knowingly lets
something go, no run is spent on it; section 5 lists these places.

## 4. Proofs

tlapm checks every theorem from the assumptions on the constants named in each module
(`BatcherAssumption`, `FlowRowsAssumption`, `PipelineAssumption` (the records are the flows'
rows), `PcapIngestAssumption`, `EnricherAssumption`, `StreamsAssumption`,
`ConvertersAssumption`, `FlowApiAssumption`, `GeneratorAssumption`, `HarnessAssumption`),
for any number of tables, workers, records, flows, files, lines, packets, chunks, clients
and faults.

- `CopyBatcherProofs`: `TypeCorrectness`, `NoRecordLostOrDoubled`, `CallbacksTellTheTruth`,
  `MemoryIsBounded`, `CopyBatcherImplementsBatchedTable`. The properties are not inductive:
  the truth of a callback needs that rows of a job that has not committed are in no table,
  which needs that a record is in one batch only, which needs that a batch held by a loop is
  not shared with another loop and that its count of rows is the loop's `index` as long as
  the loop feeds it. The inductive invariant is the conjunction of these facts; the
  refinement uses it to show that a commit settles rows of one table, all pending and at
  most a batch. `MemoryIsBounded` adds `PoolInv`: a loop begins another batch only after its
  last one has left the queue, so at most one queued batch belongs to each loop, and what is
  neither queued nor gone has a worker. From the same facts follow
  `WaitingJobsAreQueuedOnce` (the pool loses no job and runs none twice) and, about the
  model itself, `IdentitiesSuffice`: with more identities than loops and workers a loop that
  begins a batch always finds a free one.
- `FlowPipeline`, in the same module: `PipelineTypeCorrectness`, `FlowInsertOverBatchers`,
  `GivenUpFlowsHaveNoItem`, `FlowsAppearWhole`. A step of `FlowInsert` changes one batcher
  variable at most (a record is offered), so the batchers' invariant is kept by
  `PipelineNextBatches`; a push of a fresh record is `FlowStore`'s push (`FlowSteps`), a
  step of the batchers is a step of the tables by `BatcherSimulation`, and the two layers'
  different instances of `BatchedTable` are shown to be the same formula (`SameTables`).
  What `FlowStoreProofs` proves is then instantiated with the refinement mapping and holds
  of the pipeline: the two theorems about flows are not proved a second time.
- `FlowStoreProofs`: `TypeCorrectness`, `FlowsWithoutItemsAreGivenUp`,
  `FlowStoreImplementsFlowCatalog`. Strengthened by: callbacks agree with rows, the flow
  row is idle before the last phase, and once the wait is over all items were answered,
  with one stored unless the flow was dropped.
- `PcapIngestProofs`: `TypeCorrectness`, `PositionsTellTheTruth`, `PositionsNeverFallBack`,
  `StoredPacketsAreSkipped`, `PacketsFlowOnce`, `ReportedStaysInSight`,
  `NothingBehindMalformed`, `DumpsElsewhereAreNotRead`. The stored position is only as good
  as the reader's memory of it, so the invariant (`ReaderTruthful`) says of the file being
  read that every packet counted was processed now or before, that `start` is still the
  stored position and within the length at opening, and that the count has reached it when
  it is about to be stored.
  `SkipExact` is the lemma about the comparison at main.go:611: it skips exactly what the
  position covers, as long as the position is not `math.MaxInt64`. `ReportedStaysInSight` is
  what `ReportedFileIsRead` rests on: a packet of a reported file is processed, listed,
  reported or part of the reading under way, after every step and across restarts, until it
  is processed or somebody interrupts (`SightNext`). `NothingBehindMalformed` is the other
  side of the property's excuse: no position gets to a packet that defragmentation refuses,
  and nothing behind it in its file is ever processed. `PacketsFlowOnce` adds, for runs
  without faults and without such a packet, that a packet passed the skip once exactly when
  the reader or the position is beyond it, and is then in the assemblers or in one flow.
  `DumpsElsewhereAreNotRead` is the condition under which the sentence that `dump_reread`
  refutes holds: nothing leads the reader to a dump unless its directory is watched.
- `EnricherProofs`: `TypeCorrectness`, `NoUpdateIsForgotten`, `MarksAreRight`, `MarksStay`,
  `EnricherImplementsFlowMarks`. Each column is the set-like bag of its own elements
  (`UniqueBags`), which `Merge` keeps by the lemma `MergeUnites`; jobs and failed updates
  come from complete lines that match their stored flow. A restart resets the offset, so
  what it forgets is in front of the offset again: that is why `NoUpdateIsForgotten` holds
  across crashes. Its second half, about the names of tags, needs that a job to add a tag is
  accompanied by one to keep its name (`JobsNamed`) and that, when a line is in its second
  lookup, no flow with a mark whose name is not kept has the line's ends in their order
  (`StraightMissed`), so that after a restart the line that brought a tag finds the same
  flow. The refinement of `FlowMarks` forgets the offset, the jobs and the cache: a job that
  runs is `AddTags` or `AddSignature` for the line it came from, all else is a stutter.
- `StreamsProofs`: `TypeCorrectness`, `LimitCutsFairly`, `SidesTakeTurns`, `ItemsAreShown`,
  `ConversationsStayTogether`. The times of a stream's items rise (`Ordered`), so the
  maximum that an entry computes is its last item's time and the lemmas `MicroMonotonic`
  and `DurationReaches` about integer division give `ItemsAreShown`. `KeptOf` (nothing kept
  that did not arrive, everything below half of the limit) is inductive together with the
  TCP limit. Every packet of an open stream has the stream's identifier, which makes
  streams disjoint and conversations whole. `SidesTakeTurns` has no run of its own: it is
  what consolidation is for, and follows from the same invariant.
- `ConvertersProofs`: `ConverterTypeCorrectness`, `NoStreamLeaks`, `TheRestIsShown`. The
  invariant gives each attribute its meaning for the chunks handled so far (`Meaning`): a
  key means that this stream's client has asked for a websocket, switched protocols that
  this server has granted it, active HTTP/2 that there was a preface or a granted upgrade,
  an announced gRPC stream that one of this stream's frames announced it. It is
  re-established by the lemma that what each class resets is what the meaning needs
  (`ResetIsNew`): the attributes a class does not reset are those it never sets.
  `TheRestIsShown` needs to know where what spoils a chunk came from: the frames in a
  buffer came with this side's chunks so far (`FromStream`), the websocket frames still to
  be shown with the chunk in hand (`FromChunk`), and a buffer that takes a preface for a
  frame has had another (`Opened`). A chunk is lost only when what it is answered with
  ends in an error (`LostByItsEnd`), so the action that wrote the error has the bytes.
- `FlowApiProofs`: `ApiTypeCorrectness`, `OnlyKnownFailures`, `DetailsNeverDisagree`,
  `NothingIsLeftOut`, `StarsKeepMarks`, `ApiKeepsTheCatalog`. Tables only grow (but for a
  star), so what was there when a request began is there at each of its statements; a flow
  with a row has all the items it will ever have, and they lie between its time and the end
  of its duration; and a tick's flows are the ones between its ids, one microsecond at the
  end excepted, for which `stats_query` asks for a key it has not made: that, a text search
  that meets a flow without a row, and values that PostgreSQL or `datetime` refuses are the
  failures that `OnlyKnownFailures` leaves.
- `StressHarnessProofs`: `StressTypeCorrectness`, `CleanupUndoesTheRun`,
  `FilesNeverOverlap`, `RequestsAreConversations`. A child without a handle is the one being
  spawned (`HandlesInv`); during cleanup, children behind the one in hand are stopped
  (`StoppedInv`); the script and the sshd run in the pod the driver knows or in one that is
  gone, and only after there was something to restore, so that the patch of the cleanup takes
  away what its exec has missed (`SshdInv`); and once that patch is through, the source is
  what `run` had read, unless there was nothing to restore, it was told to leave it or that
  patch failed (`SourceInv`). Of the generator, `FilesInv` says that each published file holds the
  requests it should, that the files' numbers are a partition of those generated up to the
  open file and that no file reaches beyond the start of the next; the property's last
  conjunct follows without an induction over files. `WireInv` says that the packets on the
  wire are those of some drawn request, for which the numbers are checked modulo `SeqSpace`.

Only model-checked: all liveness (`AnsweredUnlessStuck`, `InsertEndsUnlessStuck`,
`ReportedFileIsRead`, `GrowthIsNoticed`, `TagsGetListed`, `EndsWhenAsked`,
`EveryStreamAnswered`): fairness and ENABLED are beyond the prover. Every invariant, action
property and refinement that a passing run checks is also proved.

## 5. Not modelled, and why

- What the code knowingly lets go, with a note at the hazard: packets that were in the
  assemblers when the process died after it had stored the position; a file that arrives
  between the listing of the directory and the watch and is never touched again; an alert
  that is read before its flow is stored.
- PCAP-over-IP with several sources (unlocked sharing of one `AssemblerService`: Go gives
  map and slice races no finite meaning; not deployed), and the cache of flag ids that
  workers share without a lock.
- The contents of packets, HTTP and tags in the assembler (pure functions of one flow), the
  check of TCP states (`Accept`) and of checksums.
- The overflow of inotify's queue, files that shrink or are removed, an eve.json that is
  rotated, captures that are not in the order of time, the age of a connection by the clock.
- HTTP/2 streams that are websockets: `WebsocketConverter.handle_http2_headers` calls
  `decode` on text and raises before it can switch one, which the model does.
- An HTTP/2 frame that is split over two chunks and arrives in full with the second, and the
  HTTP/2 library's errors about continuations.
- The addresses and ports of a query of the API, which are further conditions on a row, its
  static pages, and the exports, which write a flow that `flow_detail` has returned as a
  script, after the connection went back to the pool; a database that fails or closes a
  connection.
- The files of the stress test's state directory: as its key pair is never removed, neither
  is the directory.
- The converter pool: switched off in the deployment, and it cannot run as it stands (the nil
  map at `runner.go:22`).
- Flow linking, the synchronisation of captures and the flag id scraper: planned.
- What section 1 lists as outside the program's logic.

The hazards without a property say so one by one.

## 6. Plan

1. Done: `CopyBatcher`, `FlowStore`, `FlowPipeline`, `PcapIngest`, `Enricher`, `Streams`,
   `Converters`, `FlowApi`, `PcapGenerator` with `StressHarness`, their runs and theorems;
   `BatchedTable`, `FlowCatalog` and `FlowMarks` as abstract specifications.
2. Proofs: an abstract specification of the converter process (a stream's answer is a
   function of that stream) with `Converters` as its refinement; one of the capture
   ingestion (packets reach the flows, positions cover what did); the safety that the other
   liveness properties rest on, as `ReportedStaysInSight` is for `ReportedFileIsRead`.
3. `FlowLinks`: fingerprint groups and links, after `FlowStore`; every link points both
   ways, the flows of a group form one chain, a flush links what it took from the queue.
4. `ConverterPool`, once `RunPipeline` makes the map it writes to: time-out, kill, monitor;
   an answer goes to the flow that asked. `Converters` is the process at its other end.
5. `PcapSync` (lock, staging, rename) and small pure checks: the scraper's pause, chunking
   of the index at `db.go:313-337` against its promise of an overlap, HTTP tags.

One passing run for each module, a violation only for a sentence of the repository that
the code does not keep, and none for what a hazard's note already settles.
