# Verification of astriena

TLA+ models of [astriena](../src/README.md), TLC configurations that check them
on small instances, and proofs that TLAPS checks for every value of their
constants. The models are written from the Go code; each definition's lines are
listed in `PROJECT.json` under `map`.

## The system

astriena is a pair of OpenTelemetry Collector components with two pure Go
packages behind them. Spans flow from left to right; every arrow is a
synchronous call except the last two, which cross a bounded channel and the
network.

    receiver -> astriena_sampler ----> Engine.Consume ----> consumerSink
                 (processor.go)        (engine.go)            |
                                                              v
    ClickHouse <- chInserter <- worker <- flushCh <- Writer.Write <- exporter
                  (driver.go)             (writer.go)            (exporter.go)

| part | state | operations | what is hard |
|---|---|---|---|
| sampling engine (`internal/sampling/engine.go`, `policy.go`) | id index in 64 stripes, arrival list, pending list, touched list, generation, counters, stop/done of the ticker | `Consume`, background expiry, `Start`, `Shutdown`, counters | three goroutines around one mutex; a sink that fails half way through a batch; stale trace pointers after an eviction; expiry that stops early; Shutdowns that race the ticker and each other |
| processor adapter (`components/astrienasampler/processor.go`) | none of its own; a snapshot travels in the first span of each trace of a batch | `ConsumeTraces`, `ConsumeSampled`, conversions | span counts read before the engine's lock; a snapshot whose carrier span the engine drops |
| ClickHouse writer (`internal/clickhouse/writer.go`) | row buffer, known attribute keys, closed flag, flush queue of depth 4, in-flight writes, ticker | `Write`, flush worker, flush ticker, `Close` | producers, worker, ticker and Close on one channel; failed batches put back; cancellation at each blocking point; draining on Close |
| exporter adapter (`components/clickhouseexporter/exporter.go`) | none | pdata to rows | its own copies of the sampler's conversions |
| ClickHouse driver (`components/clickhouseexporter/driver.go`) | a connection | bootstrap of the database, base schema, `AddColumns`, `InsertBatch` | DDL that fails between two statements; several collectors that alter one table; connections on error paths |
| metrics, config, factories | registered callbacks | observe counters, validate | thin glue over the collector |
| bench, tests, docs | - | - | not part of the program |

### What makes each part correct

- Engine: the id index and both lists describe one buffer at every step; the
  caps are hard bounds; a trace that is kept reaches the sink exactly once or is
  still held for a retry; a trace no policy keeps is dropped, once, and counted;
  a due trace is never overlooked by the early stop of the expiry walk; a late
  span finds its trace; shutdown leaves nothing behind unless the sink failed;
  every trace is decided eventually while the ticker runs; at most one ticker
  runs, and it can be stopped.
- Processor: a trace leaves with the spans the engine counted, and with no more
  than the span cap; nil means that what a policy keeps was emitted.
- Writer: no accepted row is lost and none is inserted twice; a Write is all or
  nothing, and nothing when it was refused for a full buffer; the columns of a row
  exist before the row; Close drains and returns; nothing is sent on a closed
  channel.
- Driver: what an exporter takes for ensured is there; no statement refers to
  what does not exist, from any crash point; no connection leaks.
- Conversions: a snapshot is the first spans that fit; policies keep what they
  say; a row says of a span what the sampler judged it by.

## Modules

| module | what it is | models |
|---|---|---|
| `PointerLists` | intrusive lists as increasing sequences of pointers, `Unlink` | `removeLocked`'s relinking |
| `SamplingEngine` | the engine: Consume, expiry, ticker, Start, Shutdown | `engine.go`, `policy.go` |
| `TailSampling` | abstract sampler: a trace is pending, held, forwarded or dropped | what the engine promises |
| `ExpiryTicker` | the channels stop and done across restarts and overlapping Shutdowns | `Start`, `Shutdown` of `engine.go` |
| `Words` | fixed-width integers | Go's `int64`/`uint64` conversions |
| `SpanTranslation` | deliveries to engine spans and back, policies of a configuration | `processor.go`, `config.go`, `policy.go` |
| `RowTranslation` | pdata to rows | `exporter.go` |
| `Translation` | deliveries that grow span by span, and what both components make of them | both conversions together |
| `SamplerProcessor` | ConsumeTraces and consumerSink around `SamplingEngine` | `processor.go` |
| `ClickHouseWriter` | the writer: Write, worker, ticker, Close, with the Inserter | `writer.go`, two calls of `driver.go` |
| `RowStore` | abstract at-least-once store of rows | what the writer promises |
| `ChInserter` | exporters that bootstrap, alter and insert into one table | `driver.go` |
| `SchemaStore` | abstract table with a growing schema | what the driver promises |
| `MC...` | instances for TLC | - |
| `DataProofs` | lemmas about lists, sums, snapshots and the loop of `toEngineSpans` | - |
| the other `...Proofs`, `SamplingEngineFates` | theorems | - |

`SamplerProcessor` composes the adapter with the whole engine: it EXTENDS
`SamplingEngine` and `SpanTranslation`. `ClickHouseWriter` has the driver as its
Inserter at the level of one column at a time, `ChInserter` has each statement.

### SamplingEngine

A `*Trace` is a position in `heap`, which only grows, so a stale pointer stays
visible after its trace left the buffer. `index` is the union of the 64 stripes
(every change of a stripe happens under `ingestMu`), `order` and `pendingOrder`
are the two linked lists. `ingestMu` is held during a whole Consume, tick or
drain; `pc` names the part of the section that is running and one action is one
iteration of a loop:

| action | code |
|---|---|
| `ConsumeBegin`, `BeginGeneration`, `IngestSpan`, `EndIngest`, `DecideTouched`, `EndDecide`, `ConsumeEnd` | `Consume`, `ingestSpan`, `appendSpanUnderStripeLock`, `decideLocked` |
| `ExpireKeep`, `ExpireDrop` (shared by the two passes of Consume, the ticker and the final force) | `expireLockedSkip` |
| `Start`, `TickerFires`, `TickerStops`, `TickBegin`, `TickEnd` | `Start` and its goroutine, `expire` |
| `ShutdownBegin`, `ShutdownTickerDone`, `ShutdownCancelled`, `DrainBegin`, `DrainDecide`, `DrainForce`, `ShutdownFails`, `ShutdownEnd` | `Shutdown`, `evaluateAllLocked` |
| `ClockAdvances` | the clock |

The clock, the ticker and the stop/done handshake move between any two of these
steps. `orderMu` serializes Consume, Start and Shutdown: `OrderMuFree` is the
guard of the steps that lock it. The sink may refuse any call; policies are the
predicate `KeepWorthy`, true when some span has a kept kind, which is what both
`StatusCodePolicy` and `LatencyPolicy` compute. `decideLocked` would also act on a
policy that answers NotSampled; no policy of the repository does, and the model
has no such answer. A configuration value `<= 0`,
which switches a limit off, is 0.

### ExpiryTicker

The goroutine of Start reads `e.done` once, when it begins, and `e.stop` each
time it enters its select, both without a lock. Channels have an identity here:
channel `g` is the one the g-th effective Start made, and nil is 0. `Begin`,
`EnterSelect`, `Tick`, `Expired`, `SeesStop` and `Exit` are the steps of a
goroutine, `ShutdownBegin`, `ShutdownAwaited` or `ShutdownCancelled`,
`ShutdownClears` and `ShutdownReturns` those of one call of Shutdown; the wait
for `done` and the clearing of `stop` are separate, because the lock is released
in between. The buffer is left out. `Overlapping` says whether a Start may come
while a Shutdown runs; the collector does not do that, and the configuration
`TickerRace` shows what would happen.

### SpanTranslation, RowTranslation and SamplerProcessor

A delivery of pdata is the sequence of its spans, each with the indices of its
resource and scope; built pdata is a sequence of blocks, a resource and a scope
with their spans. `ToEngineSpans` folds one iteration of `toEngineSpans`'s inner
loop, `Visit`, over a delivery; `FromEngineSpans` concatenates the snapshots of
the carriers. Durations and thresholds wrap at the width of a word, which is given by
the weight of its sign bit, `SignBit`: 2^63 in the code, any positive number
in the proofs.

`Translation` lets a delivery grow one span at a time, in the resource and scope
of the last span, in a new scope or in a new resource, which is the order in which
the nested loops meet the spans. Its constant `Studies` says which trace ids,
payloads, policies and caps there are; TLC uses two (`MCTranslation`), the proofs
any that satisfy `StudiesAssumption`.

A call of ConsumeTraces is `Receive`, one `ReadCount` per distinct trace id
(`BufferedSpanCounts` locks one stripe at a time), `Enter`, which converts with
the counts it has and takes `ingestMu`, and `Leave`. `EngineStep` is every other
step of the engine; `Decide` restricts the sink to what `consumerSink` does: a
trace with nothing to emit is accepted without a call.

### ClickHouseWriter

One action is one critical section of `mu`, one operation on `flushCh` or one
call of the Inserter. `callPc[c]` follows a call of Write through its early
returns: `check` (under `mu`), `enqueue` (the closed check of `enqueueFlush`),
`send`/`blocked` (its two selects), `await` (the leftover's flush), `recheck`,
`giveBack` (the second `rebuffer`). The worker goes from `recv` through `fetch`,
`columns` and `insert`; `closer` walks through Close statement by statement. A
result that nobody waits for any more stays in `result`, as in the buffered
`errCh`. ClickHouse is `columns` and `stored`. `AddColumns` may stop after any
subset of its columns and `InsertBatch` may, when `LosesReplies`, report a
failure after the rows were stored. A row that is rebuffered twice is twice in
`buf`, and `stored` counts how often each row was inserted.

The buffer, a detached batch and the batch of the worker are Go slices, and
`append` may write into the spare capacity of its first argument. That shows in
another slice only if two slices are on one backing array. A batch is moved from
place to place, so this happens in one case: `enqueueFlush` gives the batch back
and Write still has it. `shares` says which slices are on the array of such a
batch (`Own`: on none that is shared), `AppendsTo` chooses whether there was room
in the array, and `Seen` is what the other slices of the array hold afterwards:
cells they reach are overwritten. The choice of room is free, because a slice's
capacity depends on how it grew. Each append takes place between two steps of the
worker; a row that is overwritten while `InsertBatch` reads it is not modelled.

`flushMu` needs no variable: it delays one attempt only, the ticker's while
`sync` waits for room, and the model lets that attempt come out either way.

### ChInserter

Several exporters, each in a collector of its own, share a server. One action is
one statement or one call that opens or closes a connection:

| action | code |
|---|---|
| `Open`, `Verify` | `openConnWithDatabase`, with the ping that may report the missing database now or later |
| `EnsureOpen`, `EnsureCreate`, `Reopen` | `ensureDatabaseExists`, the second attempt of `bootstrapAndOpen` |
| `EnsureDatabase`, `EnsureTable` | `EnsureBaseSchema` |
| `Flush`, `AddOneColumn`, `AddOneIndex` | the writer's `insertBatch`, `AddColumns` |
| `PrepareBatch`, `AppendRows`, `Send` | `InsertBatch` |
| `Close`, `Crash` | `Close`, from Shutdown or from `newExporter` when it cannot register its metrics; the end of the process at any point |

A statement that fails was rejected for what it refers to (`rejected`), was not
executed, or was executed without an answer. A crash forgets `known` and the
connections and leaves the server as it is. `ADD COLUMN IF NOT EXISTS` leaves a
column of the same name alone, whichever key it was made for, and keys may have
the same name: a name keeps 32 bits of a hash. A key is `Searchable` when the
column of its name is there with its index, filled from the key if no other key
has the name.

## What is checked

| run | bounds | properties |
|---|---|---|
| `engine_caps` | 3 ids, 3 Consume calls from 4 batches, MaxTraces 2, MaxSpansPerTrace 2, DecisionWait 1, clock to 2 | `TypeOK`, `BufferConsistent`, `HardCaps`, `SampledForwardedOnce`, `PendingIsCold`, `CountersAgree`, `ExpiryComplete`, `ShutdownDrains`, `ImplementsTailSampling` |
| `engine_live` | 2 Consume calls, fairness | `PendingEventuallyDecided`, `ShutdownReturns` |
| `ticker` | 3 Shutdowns that overlap and may be cancelled, 3 starts between them, fairness | `RunningIsOwned`, `NeverPanics`, `ShutdownEnds` |
| `translation` | placements: 5 spans of 2 traces, caps and held counts 0 to 3; numbers: every pair of 5-bit timestamps, 8 policy lists | `SnapshotsAreFirstSpans`, `PoliciesMeanWhatTheySay`, `StoredAsJudged` |
| `processor_uncapped` | 3 overlapping calls, 2 deliveries, no caps | `ForwardedAsCounted`, `NilMeansKeptWereEmitted`, `KeepWorthyNeverDropped`, `ConsumeReportsHeld`, `LateSpanFindsTrace` |
| `processor_overlap` | 3 overlapping calls, 2 deliveries of one trace, MaxSpansPerTrace 2 | `AdapterTypeOK`, `EmissionWithinTwice` |
| `writer_retries` | 3 calls (4, 1 and 1 rows), BatchSize 1 (cap 4), queue of 1, 2 failures, one call and Close cancellable | `TypeOK`, `StoredOnce`, `AllOrNothing`, `FullMeansRefused`, `ColumnsBeforeRows`, `ImplementsRowStore` |
| `writer_live` | 2 calls (8 and 1 rows), BatchSize 2 (cap 8), queue of 1, 1 failure, lost replies, Close overlaps, fairness | `NeverPanics`, `CloseNilMeansDrained`, `KeptUnlessShared`, `WriteReturns`, `CloseReturns`, `BufferedEventuallyStored` |
| `driver_shared` | 2 exporters, 3 keys of which two have one column name, 2 failed calls, 3 starts, crashes anywhere | `KnownKeysSearchable`, `ConnectionsBalanced`, `NeverRejected`, `ImplementsSchemaStore` |

Three more runs end in a counterexample, see below, and so do the configurations
that no run uses, except `ProcessorCapped`.

Why the bounds are enough to meet the hard cases:

- Engine: with MaxTraces 2 and three ids every admission case occurs (room,
  eviction of a Pending trace, nothing to evict because both are held). Three
  Consume calls allow hold, retry and expiry of one trace around the others. A
  clock up to 2 with DecisionWait 1 gives traces that are due, just due and not
  due in one list. A trace that meets a duplicate, then the span cap, is one of
  the batches. `MaxGen` and `MaxTime` are the only bounds in guards.
- Ticker: three Shutdowns are one that is cancelled, one that waits and one that
  comes when both are under way; three starts are a restart of a restart.
  `MaxStarts` is the only bound in a guard.
- Translation: two traces in up to five resources or scopes give every way in
  which the snapshots of one batch can interleave, at caps below, at and above
  the held counts. Five bits hold zero, the largest signed value, the wrap of a
  difference and, with `MsInNs` 3, the wrap of a threshold.
- Processor: a third call is needed to meet a trace that the first two left
  there, held or expired. A repeated delivery is the receiver's retry. The calls
  are symmetric, and the properties do not tell them apart. In
  `processor_overlap` a delivery of one span and one of more than the cap meet in
  a trace, before and after it expired, so that calls that counted nothing bring
  the most that can leave, one less than twice the cap.
- Writer: the code's queue holds 4 jobs; the passing runs use 1, so that a
  queue full of a batch and a drain job, the case that blocks, needs two jobs
  and not five. No guard compares the length of the queue with anything but its
  capacity. The configurations that end in a counterexample keep the code's 4, so
  none of them rests on the smaller queue. The first call fills the cap exactly, so that after one failure
  the other calls run into it; two failures are needed for `errBufferFull`, which
  `writer_retries` meets with a batch size of 1. `writer_live` needs 2 for a row
  that is below the batch size and waits for the ticker. `MaxFailures` is the
  only bound in a guard.
- Driver: two keys with one name, one with its own and two exporters give every
  race for a column and its index; a failure, a crash and a restart of each fit into three
  starts. `MaxFaults` and `MaxStarts` are the only bounds in guards.

### Fairness

- Engine: the goroutine that holds `ingestMu` runs on and a sink call returns
  (weak); a select takes a ready case that is offered again and again, and a
  `sync.Mutex` does not starve a waiter (strong, on the steps that lock one or
  leave a select). Nobody must call Consume, Start or Shutdown.
- Ticker: goroutines and Shutdowns run on (weak), a closed stop is seen in the
  end although ticks compete with it (strong). No ctx has to be cancelled.
- Writer: running goroutines run on and the Inserter answers (weak); Go hands a
  channel's free slot to its blocked senders in order (strong, on the sends);
  the ticker leaves its select when stop is closed (strong). No call has to
  begin and no ctx has to be cancelled. Failures are finitely many, which
  `BufferedEventuallyStored` and `CloseReturns` do need: with a server that
  always fails, nothing is ever stored, by design.

Deadlock is checked except in `translation`, whose states are finished
deliveries, and in `ticker`, which stops when every start and Shutdown was used.
The engine's clock stops at `MaxTime` but calls of Start and Shutdown remain
possible; the writer and the driver stop when everything returned, and
`Terminated` says so.

### Disagreements between the code and what is written about it

Three runs expect a violation; `PROJECT.json` quotes the comment or test that each
contradicts.

| run | violates | because |
|---|---|---|
| `processor_carrier` | `ForwardedAsCounted` | a batch's snapshot of a trace travels in the first span that fits; when the engine drops that span as a duplicate, the other spans of the batch are buffered, judged and counted, but never emitted |
| `writer_twice` | `StoredOnce` | a Write overtaken by Close puts its batch back twice (once in `enqueueFlush`, once in `Write`), and the drain inserts the rows twice |
| `writer_aliased` | `AcceptedKept` | after the second give-back the buffer is on the array of the batch in the worker, and the next append overwrites an accepted row there |

`writer_aliased` needs spare capacity in the right place. A row has 104 bytes; an
append of one row to a slice of two gives it a capacity of 4 in the Go runtime's
size classes, which is the first array of the trace.

The other cases have a configuration each, to be run by hand
(`tlc -config X.cfg M`); all of them find their counterexample within seconds.

| configuration | module | violates | because |
|---|---|---|---|
| `EngineEviction` | `MCSamplingEngine` | `KeepWorthyNeverDropped` | Consume ingests a whole batch before it decides a trace, so eviction at MaxTraces can take a trace whose error span came in the same batch; "100% of errors" (`src/README.md:20`) does not hold at the cap |
| `EngineHeld` | `MCSamplingEngine` | `HeldEventuallyForwarded` | a trace whose sink call failed is retried only when new spans for it arrive or at Shutdown, and keeps a MaxTraces slot meanwhile; the sink recovers in this configuration |
| `TickerRace` | `MCExpiryTicker` | `StopClearedAfterExit` | with a Start between the `e.stop = nil` of two Shutdowns, the second clears the channel of the new ticker; the collector does not start what it shuts down |
| `ProcessorOverrun` | `MCSamplerProcessor` | `EmissionWithinCap` | two overlapping calls count the same spans and both copy up to the cap |
| `ProcessorStale` | `MCSamplerProcessor` | `ForwardedAsCounted` | the ticker drops the trace after its spans were counted, the copy leaves spans out, and the engine buffers them under a new trace |
| `WriterCancelled` | `MCClickHouseWriter` | `ErrorMeansRefused` | a Write cancelled while the queue is full returns an error but keeps its rows, which a retry of the caller duplicates |
| `WriterFull` | `MCClickHouseWriter` | `FullMeansLeftover` | a Write that flushed what was in its way is refused because another call buffered a row meanwhile, though no flush failed |
| `WriterOutage` | `MCClickHouseWriter` | `AtCapRefuses` | the cap is compared with the buffer alone, so the rows that the worker retries do not count |
| `WriterPanic` | `MCClickHouseWriter` | `NeverPanics` | after a Close whose ctx ended before the ticker did, the ticker may send on the closed channel |
| `DriverCollision` | `MCChInserter` | `KnownKeysOwnColumns` | two keys with one base name and one 32-bit hash share a column, although `driver.go:228-229` says that distinct keys never do; `a-b+c:d/e/f/g` and `a+b+c:d/e-f#g` both give `attr_a_b_c_d_e_f_g_0b61e0b4` |

`ProcessorCapped` holds: in it the calls come one after the other and
`EmissionWithinCap` is checked, with a ticker that removes traces between the
count and the copy.

Where they do not apply (a Close after the last Write, no cancellation, a Close
that waits for the ticker, receivers that do not overlap) the same properties, or
weaker ones that hold always, are checked in the passing runs: `KeptUnlessShared`
and `AllOrNothing` for the writer, `EmissionWithinTwice` for the processor,
`KnownKeysSearchable` for the driver.

## What is proved

Everything below holds for every value of the constants, under the named ASSUMEs
of each module and the hypotheses a theorem states. None of them says that a set
is finite. All invariants, step properties and refinements that the passing runs
check are theorems; what is left to TLC is liveness.

### Engine

`SamplingEngineProofs` proves

- `EngineInvariant`: `Spec => []EngineInv`, the inductive invariant;
- `TypeCorrect`, `BufferAlwaysConsistent`, `LoopsCorrect`: `TypeOK`,
  `BufferConsistent` and `LoopInvariant`, which the loops rely on, always hold;
- `CapsAreHard`: `HardCaps` always holds;
- `HotTracesTouched`, `PendingAlwaysCold`: a pending trace with a span to be kept
  is in `touched`, so none is left when the batch is over (`PendingIsCold`);
- `KeepWorthyKept`: with `MaxTraces = 0`, `KeepWorthyNeverDropped` always holds.

`BufferConsistent` is not inductive alone. Removing a trace deletes the index
entry of its *id*, so it must be known that the entry is this trace; a decision
of a touched trace relies on no touched trace being forwarded already; the walk
relies on its cursor staying inside the list. `EngineInv` is therefore
`WellFormed` (heap, index and lists describe one buffer, dropped traces are not
in it), the types of the other variables, and `LoopInvariant`. The buffer
changes in four ways, each with its lemma: a trace is removed
(`RemoveWellFormed`), held (`HoldWellFormed`), added (`AddWellFormed`) or gets a
span (`SpanWellFormed`); `TouchedFits` follows the touched list through them.
The steps of `Next` are instances of these lemmas, and `QuietStepInv` covers
those that leave the buffer alone. `DataProofs` has what `Unlink` does to an
increasing list: it stays increasing and loses exactly one element.

The last three need one more invariant, `MarksAreListed`:
`markTouched` does not list a trace that carries the current generation, so
every trace that carries it must already be listed while a batch is ingested,
and no trace may carry a later one. `HotPendingIsTouched` follows it: only
ingestion adds spans and only the decision loop takes a trace off the list, by
deciding it. Expiry runs outside these loops, where `touched` is empty; without
MaxTraces nothing else drops a trace.

`SamplingEngineFates` says what becomes of each trace. Twenty actions change the
buffer, but a step does one of six things to the fates of the traces
(`StepOutcomes`): nothing, it drops a pending trace, holds one, forwards one,
admits one, or admits one in place of an evicted one; every other trace keeps its
decision, its arrival time and its place, and nobody writes a trace that is out
of the buffer. The theorems go through the six outcomes:

- `ForwardedOnce` (`SampledForwardedOnce`) by `SinkAgrees`, which speaks of the
  arrival list and not of the index;
- `CountersTellTheTruth` (`CountersAgree`) by `TracesCounted` and `SpansCounted`.
  The sum over the sink's log is a fold of the community modules; `FoldIsSum`
  turns it into a sum over positions, by induction over the positions;
- `ShutdownLeavesNothing` (`ShutdownDrains`) by `ShutdownReachesAll`: what waits in
  the buffer is still to be evaluated, and what the final force walks over is
  undecided;
- `NilMeansNoneHeld` (`ConsumeReportsHeld`) by `HeldIsListed`: a held trace of the
  current generation is still to be decided;
- `PassLeavesNoneOverdue` (`ExpiryComplete`) by `ArrivalsInOrder` and `WalkedPast`:
  the list is in the order of arrival because a section stamps its traces with
  one reading of a clock that does not go back, so the walk may stop early;
- `LateSpansFindTraces` (`LateSpanFindsTrace`) from what expiry skips;
- `EngineImplementsTailSampling` (`ImplementsTailSampling`): each outcome is a step
  of `TailSampling` or a stutter. The abstract buffer has as many traces as the
  arrival list (`BufferCount`), so both meet the cap together (`SameCap`), and the
  head of the pending list is the oldest pending trace (`HeadIsOldest`).

### Ticker

`ExpiryTickerProofs`, when no Start overlaps a Shutdown: `TickersAreOwned`
(`RunningIsOwned`) and `ChannelsClosedOnce` (`NeverPanics`). The invariant is
that only the newest ticker can be running and `done` is its channel
(`NewestOnly`), and that a Shutdown which waits, or has waited and not yet
cleared `stop`, waits for that one (`WaitsForNewest`): then the ticker whose
channel it clears is gone.

### Processor

`SamplerProcessorProofs`: whatever the calls read and whenever they enter, every
step of the composition is a step of the engine or leaves it alone. So the
processor implements its engine (`ProcessorUsesEngine`) and inherits its
theorems (`EngineGuaranteesHold`, `EnginePromisesHold`, `EngineKeepsWhatCounts`).
That a call enters with one of the engine's batches depends on its counts being
within the cap, and these on the engine's cap being hard, so both are proved in
one induction (`CountsStayInRange`).

Two theorems are about the whole way of a span, from the delivery to the sink,
without caps (`Uncapped`):

- `ForwardedWhole` (`ForwardedAsCounted`): what the sink took of a trace are the
  spans the engine counted of it;
- `NoKeptSpanIsLost` (`NilMeansKeptWereEmitted`): nil means that each trace with a
  kept span was emitted with all spans the call brought of it.

First, `Conversion` (in `DataProofs`) says what `ToEngineSpans` returns for every
delivery, cap and count: each span in its place, and the first of each trace with
a snapshot of those that fit. `LoopVisits` unfolds the fold of the loop into its
accumulators, `VisitLoads` is a step of the induction over them and `LoopLoads` its
result, and `Flattened` says what concatenated snapshots hold.
Then `OnItsWay` is inductive, and follows a delivery through the engine:

- `OneInside`: one call is in Consume;
- `RestOfCall`: what is left to ingest is the end of its delivery, converted;
- `CarriesItsSpans`: the snapshots that the spans of a trace carry hold each of
  its spans once, and besides them only spans that the running call still brings
  (`StillComing`); and if they hold one span of a delivery, they hold all that it
  brings of the trace;
- `Arrived`: what the call has ingested is in one trace of this generation, with
  all it brought of it so far.

`IngestGoesOn` is the step that matters: a span that is new to its trace and the
first of its delivery brings a snapshot of which the trace has nothing, one that
is not the first finds the snapshot there, and a duplicate leaves its snapshot
behind, whose spans are all there. Both theorems suppose `RepeatedWhole` of the
deliveries: spans have ids, and deliveries that share a span of a trace bring the
same spans of it, as a retry does. `processor_carrier` is the counterexample
without it, `ProcessorStale` the one with a span cap, and with MaxTraces an
eviction takes a trace out in the middle of its batch. An instance of the
hypothesis is `DistinctDeliveries`, which TLC evaluates (`RepeatedDeliveries`).

With a cap, `EmissionsAreBounded` (`EmissionWithinTwice`) says that no trace
leaves with twice as many spans as the cap, however many receivers overlap, and
with no more than the cap when their calls come one after the other
(`EmissionWithinCap`). The engine counts spans and the adapter copies them, at two
places and at two times, and each half ties one to the other.

One after the other (`CappedWay`, for `CapHoldsToTheEnd`):

- `OneActive`: at most one call is between its first count and its return;
- `RoomKept`: a buffered trace has no more spans than the active call has counted
  and brought, since nobody else adds any. Expiry only makes it less;
- `CarriesWhatFits`: of the spans that the snapshots of a trace hold, each is in
  the trace, or is still to come and fits (`FitsToCome`); and if they hold one
  span of a delivery, then the trace is full, or it has or will have all that the
  delivery brings of it. So a repetition finds its spans there and its snapshot is
  dropped, or the trace is full and nothing of it is copied.

What is emitted is thus no more than what the trace buffers, and that is within
the cap by `HardCaps`.

Overlapping (`CrowdedWay`): a call may copy up to the cap of a trace that others
fill meanwhile. But `ingestSpan` takes a snapshot only with the span that carries
it, so only for a trace that is not full; and a trace that is not full has every
span that was copied for it, or the running call still brings it
(`CarriesGroups`). So before the last snapshot fewer spans than the cap were
copied, and the last one holds no more than the cap.

The hypothesis `RepeatedWhole` is needed here as well: a repetition that puts a
new span first would have its old spans copied again. MaxTraces is arbitrary: a
trace that is evicted in the middle of its batch is never emitted.

### Conversions

`TranslationProofs`, for deliveries of any length, any policies and any width of
words. `DeliveriesAsRead` is the invariant of the deliveries: types, ids that are
positions (so that no two spans of a delivery share one), and sources in the order
of the loops (`DeliveryInv`).

- `SnapshotsHoldFirstSpans` (`SnapshotsAreFirstSpans`): by induction over the spans
  of a delivery, the snapshot of a trace is `Ordered`: it holds the first spans of
  the trace up to the room the cap leaves (`FirstOnesFit`), its blocks stand in the
  strict order of their sources and each holds the spans of its own
  (`AppendArranged`). That order makes the blocks' sources differ
  (`ArrangedBlocks`). `OneCarries` finds the snapshot again in the one engine span
  that has it.
- `PoliciesKeepAsConfigured` (`PoliciesMeanWhatTheySay`): each entry makes the
  policy that keeps what it describes (`EntryKeeps`), if the numbers fit
  (`FittingDuration`, `FittingThreshold`). Of `strings.EqualFold` it is assumed
  only that no non-empty string folds to the empty one (`FoldedApart`).
- `RowsTellWhatWasJudged` (`StoredAsJudged`): without a cap the snapshots of a
  delivery hold each span once (`EverySpanCarried`), the exporter makes one row of
  each (`RowsOfSpans`), and the two copies of the conversions agree on it
  (`RowAsJudged`).

### Writer

`ClickHouseWriterProofs`:

- `TypeCorrect`: `TypeOK`;
- `ColumnsFirst`: `ColumnsBeforeRows`, since a key is known only when its column
  exists and a batch reaches `insert` only when its keys are known (`KeysReady`);
- `NilMeansDrained`: `CloseNilMeansDrained`;
- `NothingPanics`: `NeverPanics`, when the ctx of Close cannot end its wait for
  the ticker;
- `RowsKeptUnlessShared`: `KeptUnlessShared`, with no hypothesis on failures,
  cancellations or Close;
- `RefusedLeavesNothing`: `FullMeansRefused`, with no hypothesis;
- `WriterImplementsRowStore`: the refinement `ImplementsRowStore`, when no Write
  overlaps with Close;
- `WriteIsAllOrNothing`: `AllOrNothing`, when no Write overlaps with Close, but any
  ctx may end;
- `RowsStoredOnce`: `StoredOnce`, when no Write overlaps with Close and a failure
  that InsertBatch reports inserted nothing.

`NilMeansDrained` and `NothingPanics` follow from `WriterInvariant`: `Quiesced`
says who may still send at each point of Close, `BatchesPlaced` that a batch is
with its call or with the worker, and `OneJob` that, as long as Close saw no
error, the job it waits for is the last in the queue. With it answered, queue and
worker are empty, and Close has seen the buffer empty after that.

The others follow the rows. A row is in the buffer, with a call that detached it,
in the queue or with the worker (`HeldParts`). `append` changes no other slice
unless two are on one array (`AppendsUnseen`), and then every step moves no row
out of these places, brings in those of one call that had brought none
(`NotYetHeld`), or inserts the worker's batch (`RowsStep`). So rows leave only
into the table, which is the abstract store's step (`RowsKeptUnlessShared`).
Overwriting can only lose a row, never bring one (`SeenTyped`), so what a refused
call has not brought stays away (`LeftStays`), shared arrays or not.

Two slices share an array only after `enqueueFlush` found the writer closed.
When Close begins after the calls (`Calm`) it never does, so nothing is shared
(`Unshared`) and the refinement holds. A call that fails then has given back its
whole batch or had none (`Settles`). `OncePlaced` adds that each row is in one of
the places, once, through each move of a batch (`MoveOnce`, `TakeOnce`), and
`StoredApart` that none is in the table too. `OccurrencesAssumption` names what
makes a row one row: no two calls, and no two positions of a call, bring the same.
`writer_aliased` and `writer_twice` show that the hypothesis on Close is needed,
`WriterCancelled` why `AllOrNothing` cannot say "nothing".

### Driver

`ChInserterProofs`, for any names of columns: `KnownMeansSearchable`,
`StatementsInOrder`, `NothingLeaks` and the refinement `DriverImplementsStore`.
The invariant `DriverInv` says, for each place an exporter can be at, what its
statements have built by then (`Built`). The server only gains (`ServerGrows`),
so the statements and crashes of other exporters keep it. Each column is the
column of a key (`ColumnsOfKeys`), so one whose name is a key's own is filled from
it (`ColumnsFilledByTheirKeys`); a statement makes all keys of a name searchable at
once (`KeysMaterialize`).

### Only model-checked

- All liveness and fairness (`PendingEventuallyDecided`, `ShutdownReturns`,
  `ShutdownEnds`, `WriteReturns`, `CloseReturns`, `BufferedEventuallyStored`) is
  out of the prover's reach.

An induction over positions or over the length of a list is written with the set
of the numbers for which the claim holds (`AllNumbers`), because the theorems of
the library that take a predicate cannot be applied. It reaches the folds, whose
definitions are unfolded at the level of the choice they make
(`FlattenSteps`, `LoopVisits`, `FoldIsSum`). What a module with theorems builds of
lists is therefore written with `FoldLeft` and `FlattenSeq`, and not with
`SelectSeq`, whose definition in the library is recursive.

## Not modelled

- Benchmarks are a measuring harness. Self-telemetry reads counters and changes
  nothing. Factories and defaults only construct; the exporter's Validate checks
  the sign of three fields.
- `Start` while a Shutdown runs is excluded except in `TickerRace`, because the
  collector does not do it.
- In the processor, attributes and names of spans, which no policy reads, and the
  text of ids.
- In the writer, the counters only the telemetry reads, an empty Write, a second
  Close, and a row that another goroutine overwrites while the Inserter reads it.
- A policy that answers NotSampled; the repository has none.
- In the driver and the exporter, the quoting and text of statements and the
  formatting of ids and attribute values.

## Plan

Done: (1) the engine, its abstract sampler and its inductive invariant; (2) the
writer and its abstract store; (3) the processor around the engine; (4) the
driver and its abstract table; (5) the conversions; (6) the ticker's handover;
(7) the safety of each of them proved; (8) the engine's and the writer's
refinements, and the way of a span and of a row through them, proved; (9) the
span cap from the count to the sink; (10) the conversions. To do:

11. A pipeline that composes engine, exporter and writer: which errors of the
    writer make the engine hold and retry a trace, and what reaches the table.
