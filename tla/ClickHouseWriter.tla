-------------------------- MODULE ClickHouseWriter --------------------------
(***************************************************************************)
(* The batching writer of internal/clickhouse/writer.go: callers of Write  *)
(* append rows to a buffer, detach it as a batch when it is large enough   *)
(* and hand it to one worker through a bounded channel.  A ticker asks the *)
(* worker to drain what is buffered; a batch whose insertion fails goes    *)
(* back in front of the buffer; Close stops everything and drains.         *)
(*                                                                         *)
(* One action is one critical section of mu, one channel operation or one  *)
(* call of the Inserter.  mu is never held across a blocking operation, so *)
(* it needs no variable; nor does flushMu: the only attempt it delays is   *)
(* the ticker's, while sync waits for room, and that one finds no room.    *)
(* ClickHouse (columns, stored) is external and seen through the Inserter. *)
(*                                                                         *)
(* The buffer, a detached batch and the batch of the worker are Go slices. *)
(* Each is a sequence here, and shares tells which of them look at one     *)
(* backing array: append writes into the spare capacity of its argument,   *)
(* and that shows in every slice of the array that reaches so far.         *)
(***************************************************************************)
EXTENDS Integers, Sequences, FiniteSets, Functions

CONSTANTS
  Calls,             \* the calls of Write
  Rows, Keys,        \* rows and their attribute keys
  RowsOf,            \* the rows of each call
  KeysOf,            \* the attribute keys of each row
  BatchSize,         \* 0 stands for every value <= 0: flush on every Write
  TickerEnabled,     \* FlushInterval > 0
  QueueDepth,        \* flushQueueDepth, 4 in the code
  Cancellable,       \* the calls whose ctx may be cancelled
  CloseCancellable,  \* whether the ctx of Close may be cancelled
  CloseOverlaps,     \* whether Close may begin while a Write is running
  LosesReplies,      \* whether an insertion may fail after it took effect
  MaxFailures        \* bound: how often the Inserter fails

ASSUME SizesAssumption == BatchSize \in Nat /\ QueueDepth \in Nat \ {0} /\ MaxFailures \in Nat
ASSUME RowsAssumption == RowsOf \in [Calls -> Seq(Rows)] /\ \A c \in Calls : RowsOf[c] # <<>>
\* A row is one occurrence of a row: one call brings it, and brings it once.
ASSUME OccurrencesAssumption ==
  /\ \A c \in Calls : IsInjective(RowsOf[c])
  /\ \A c, d \in Calls : c # d => Range(RowsOf[c]) \cap Range(RowsOf[d]) = {}
ASSUME KeysAssumption == KeysOf \in [Rows -> SUBSET Keys]
ASSUME EnvironmentAssumption ==
  /\ Cancellable \subseteq Calls
  /\ {TickerEnabled, CloseCancellable, CloseOverlaps, LosesReplies} \subseteq BOOLEAN

VARIABLES
  buf,        \* rows waiting for a flush
  known,      \* attribute keys ensured through AddColumns
  closed,     \* Close was called
  shares,     \* the backing array a slice shares, or Own
  flushCh,    \* the queue of flush jobs
  chOpen,     \* flushCh is not closed
  stop,       \* "nil", "open" or "closed"
  ticker,     \* the ticker goroutine: "off", "select" or "send"
  callPc,     \* where each call is
  detached,   \* the batch a call took from the buffer and has not sent
  outcome,    \* what a call returns: "nil", or the error "closed", "full" or "ctx"
  cancelled,  \* the calls whose ctx is cancelled
  result,     \* the answer a waiting caller finds in errCh
  workerPc,   \* "recv", "fetch", "columns", "insert" or "exit"
  batch,      \* the rows the worker is inserting
  waiter,     \* who waits for the worker's job
  closer,     \* where Close is
  closeErr,   \* Close is going to return an error
  failures,   \* flushFailures
  columns,    \* the attribute columns of the table
  stored,     \* how often each row was inserted
  panicked    \* a goroutine sent on the closed channel

bufferVars == <<buf, known, closed, shares>>
queueVars  == <<flushCh, chOpen>>
tickerVars == <<stop, ticker>>
callVars   == <<callPc, detached, outcome>>
workerVars == <<workerPc, batch, waiter>>
closeVars  == <<closer, closeErr>>
serverVars == <<columns, stored>>
vars == <<bufferVars, queueVars, tickerVars, callVars, cancelled, result,
          workerVars, closeVars, failures, serverVars, panicked>>

Closer == "close"
Nobody == "nobody"
Waiters == Calls \cup {Closer, Nobody}

\* Who holds a slice.  Only a batch that enqueueFlush gave back and Write still
\* has is on a shared array, so the array has the name of that call.
Buffer == "buffer"
InWorker == "worker"
Own == "own"
Holders == Calls \cup {Buffer, InWorker}
Arrays == Calls \cup {Own}
ASSUME NamesAssumption == {Closer, Nobody, Buffer, InWorker, Own} \cap Calls = {}

Job(kind, rows, who) == [kind |-> kind, rows |-> rows, waiter |-> who]
Jobs == [kind : {"batch", "drain", "idle"}, rows : Seq(Rows), waiter : Waiters]

CallStates == {"new", "check", "enqueue", "send", "blocked", "await", "recheck", "giveBack", "done"}
CloseStates == {"new", "ticker", "writers", "sync", "syncWait", "drain", "drainWait",
                "channel", "worker", "done"}

TypeOK ==
  /\ buf \in Seq(Rows) /\ known \subseteq Keys /\ closed \in BOOLEAN
  /\ shares \in [Holders -> Arrays]
  /\ flushCh \in Seq(Jobs) /\ Len(flushCh) <= QueueDepth /\ chOpen \in BOOLEAN
  /\ stop \in {"nil", "open", "closed"} /\ ticker \in {"off", "select", "send"}
  /\ callPc \in [Calls -> CallStates]
  /\ detached \in [Calls -> Seq(Rows)]
  /\ outcome \in [Calls -> {"nil", "closed", "full", "ctx"}]
  /\ cancelled \subseteq Cancellable
  /\ result \in [Calls \cup {Closer} -> {"none", "ok", "failed"}]
  /\ workerPc \in {"recv", "fetch", "columns", "insert", "exit"}
  /\ batch \in Seq(Rows) /\ waiter \in Waiters
  /\ closer \in CloseStates /\ closeErr \in BOOLEAN
  /\ failures \in 0..MaxFailures
  /\ columns \subseteq Keys /\ stored \in [Rows -> Nat]
  /\ panicked \in BOOLEAN

Init ==
  /\ buf = <<>> /\ known = {} /\ closed = FALSE /\ shares = [h \in Holders |-> Own]
  /\ flushCh = <<>> /\ chOpen = TRUE
  /\ stop = "nil" /\ ticker = "off"
  /\ callPc = [c \in Calls |-> "new"] /\ detached = [c \in Calls |-> <<>>]
  /\ outcome = [c \in Calls |-> "nil"] /\ cancelled = {}
  /\ result = [w \in Calls \cup {Closer} |-> "none"]
  /\ workerPc = "recv" /\ batch = <<>> /\ waiter = Nobody
  /\ closer = "new" /\ closeErr = FALSE
  /\ failures = 0 /\ columns = {} /\ stored = [r \in Rows |-> 0]
  /\ panicked = FALSE

-----------------------------------------------------------------------------
(* The buffer and the queue.                                               *)

bufCap == IF BatchSize > 0 THEN 4 * BatchSize ELSE 10000

\* A leftover in the buffer leaves no room; an empty buffer takes any batch.
OverCap(c) == buf # <<>> /\ Len(buf) + Len(RowsOf[c]) > bufCap

Ready(rows) == BatchSize = 0 \/ Len(rows) >= BatchSize

\* Mutant: rows that were buffered meanwhile are overwritten.
RebufferedOver(rows) == rows

\* rebuffer puts a batch back in front of what was buffered meanwhile.
Rebuffered(rows) == rows \o buf

\* append(slice, rows...) for a slice on array x: without rows it returns the
\* slice; else there is room for them, or they go to a new array.
AppendsTo(x, rows) == IF rows = <<>> THEN {x} ELSE {x, Own}

\* What a slice on array y holds after rows were written behind cell n of x.
Seen(slice, y, x, n, rows) ==
  IF x = Own \/ y # x THEN slice
  ELSE [i \in DOMAIN slice |-> IF i \in n+1..n+Len(rows) THEN rows[i - n] ELSE slice[i]]

DetachedAfter(x, n, rows) == [c \in Calls |-> Seen(detached[c], shares[c], x, n, rows)]
BatchAfter(x, n, rows) == Seen(batch, shares[InWorker], x, n, rows)

\* Mutant: off by one.
RoomBeyond == chOpen /\ Len(flushCh) <= QueueDepth
Room == chOpen /\ Len(flushCh) < QueueDepth

InFlight == {c \in Calls : callPc[c] \notin {"new", "done"}}

-----------------------------------------------------------------------------
(* Write.                                                                  *)

Goto(c, label) == callPc' = [callPc EXCEPT ![c] = label]

Return(c, value) ==
  /\ Goto(c, "done")
  /\ outcome' = [outcome EXCEPT ![c] = value]

WriteRefused(c) ==
  /\ callPc[c] = "new" /\ closed
  /\ Return(c, "closed")
  /\ UNCHANGED <<bufferVars, queueVars, tickerVars, detached, cancelled, result,
                 workerVars, closeVars, failures, serverVars, panicked>>

\* The call is counted in writers, under mu; then mu is taken again.
WriteBegin(c) ==
  /\ callPc[c] = "new" /\ ~closed
  /\ Goto(c, "check")
  /\ UNCHANGED <<bufferVars, queueVars, tickerVars, detached, outcome, cancelled, result,
                 workerVars, closeVars, failures, serverVars, panicked>>

MayAppend(c) ==
  /\ ~OverCap(c)
  /\ callPc[c] = "check" \/ (callPc[c] = "recheck" /\ ~closed)

WriteBuffers(c) ==
  /\ MayAppend(c) /\ ~Ready(buf \o RowsOf[c])
  /\ buf' = buf \o RowsOf[c]
  /\ \E x \in AppendsTo(shares[Buffer], RowsOf[c]) :
       /\ shares' = [shares EXCEPT ![Buffer] = x]
       /\ detached' = DetachedAfter(x, Len(buf), RowsOf[c])
       /\ batch' = BatchAfter(x, Len(buf), RowsOf[c])
  /\ Return(c, "nil")
  /\ UNCHANGED <<known, closed, queueVars, tickerVars, cancelled, result,
                 workerPc, waiter, closeVars, failures, serverVars, panicked>>

WriteDetaches(c) ==
  /\ MayAppend(c) /\ Ready(buf \o RowsOf[c])
  /\ \E x \in AppendsTo(shares[Buffer], RowsOf[c]) :
       /\ shares' = [shares EXCEPT ![c] = x, ![Buffer] = Own]
       /\ detached' = [DetachedAfter(x, Len(buf), RowsOf[c]) EXCEPT ![c] = buf \o RowsOf[c]]
       /\ batch' = BatchAfter(x, Len(buf), RowsOf[c])
  /\ buf' = <<>>
  /\ Goto(c, "enqueue")
  /\ UNCHANGED <<known, closed, queueVars, tickerVars, outcome, cancelled, result,
                 workerPc, waiter, closeVars, failures, serverVars, panicked>>

\* Over the cap the leftover is flushed first, and the call waits for it.
WriteRetriesLeftover(c) ==
  /\ callPc[c] = "check" /\ OverCap(c)
  /\ Goto(c, "send")
  /\ UNCHANGED <<bufferVars, queueVars, tickerVars, detached, outcome, cancelled, result,
                 workerVars, closeVars, failures, serverVars, panicked>>

RecheckClosed(c) ==
  /\ callPc[c] = "recheck" /\ closed
  /\ Return(c, "closed")
  /\ UNCHANGED <<bufferVars, queueVars, tickerVars, detached, cancelled, result,
                 workerVars, closeVars, failures, serverVars, panicked>>

\* Mutant: the rows are appended although the call is refused.
RecheckFullKeeping(c) ==
  /\ callPc[c] = "recheck" /\ ~closed /\ OverCap(c)
  /\ buf' = buf \o RowsOf[c]
  /\ Return(c, "full")
  /\ UNCHANGED <<known, closed, shares, queueVars, tickerVars, detached, cancelled, result,
                 workerVars, closeVars, failures, serverVars, panicked>>

RecheckFull(c) ==
  /\ callPc[c] = "recheck" /\ ~closed /\ OverCap(c)
  /\ Return(c, "full")
  /\ UNCHANGED <<bufferVars, queueVars, tickerVars, detached, cancelled, result,
                 workerVars, closeVars, failures, serverVars, panicked>>

\* Bound by Cancellable: ctx is cancelled before or during the call.
Cancel(c) ==
  /\ c \in Cancellable \ cancelled /\ callPc[c] # "done"
  /\ cancelled' = cancelled \cup {c}
  /\ UNCHANGED <<bufferVars, queueVars, tickerVars, callVars, result, workerVars,
                 closeVars, failures, serverVars, panicked>>

-----------------------------------------------------------------------------
(* enqueueFlush, for a call with a detached batch, or for the leftover.    *)

EnqueueOpen(c) ==
  /\ callPc[c] = "enqueue" /\ ~closed
  /\ Goto(c, "send")
  /\ UNCHANGED <<bufferVars, queueVars, tickerVars, detached, outcome, cancelled, result,
                 workerVars, closeVars, failures, serverVars, panicked>>

\* enqueueFlush puts the batch back, and so does Write when it sees the error.
\* In between the call has its batch and the buffer may be on the same array.
EnqueueClosed(c) ==
  /\ callPc[c] = "enqueue" /\ closed
  /\ buf' = Rebuffered(detached[c])
  /\ \E x \in AppendsTo(IF shares[c] = Own THEN c ELSE shares[c], buf) :
       /\ shares' = [shares EXCEPT ![Buffer] = x, ![c] = IF x = Own THEN @ ELSE x]
       /\ detached' = DetachedAfter(x, Len(detached[c]), buf)
       /\ batch' = BatchAfter(x, Len(detached[c]), buf)
  /\ Goto(c, "giveBack")
  /\ outcome' = [outcome EXCEPT ![c] = "closed"]
  /\ UNCHANGED <<known, closed, queueVars, tickerVars, cancelled, result,
                 workerPc, waiter, closeVars, failures, serverVars, panicked>>

\* Mutant: the batch of a call that ends with an error is dropped.
GiveBackNothing(c) ==
  /\ callPc[c] = "giveBack"
  /\ detached' = [detached EXCEPT ![c] = <<>>]
  /\ Goto(c, "done")
  /\ UNCHANGED <<bufferVars, queueVars, tickerVars, outcome, cancelled, result,
                 workerVars, closeVars, failures, serverVars, panicked>>

GiveBack(c) ==
  /\ callPc[c] = "giveBack"
  /\ buf' = Rebuffered(detached[c])
  /\ \E x \in AppendsTo(shares[c], buf) :
       /\ shares' = [shares EXCEPT ![Buffer] = x, ![c] = Own]
       /\ detached' = [DetachedAfter(x, Len(detached[c]), buf) EXCEPT ![c] = <<>>]
       /\ batch' = BatchAfter(x, Len(detached[c]), buf)
  /\ Goto(c, "done")
  /\ UNCHANGED <<known, closed, queueVars, tickerVars, outcome, cancelled, result,
                 workerPc, waiter, closeVars, failures, serverVars, panicked>>

SendBatch(c) ==
  /\ callPc[c] \in {"send", "blocked"} /\ detached[c] # <<>> /\ Room
  /\ flushCh' = Append(flushCh, Job("batch", detached[c], Nobody))
  /\ detached' = [detached EXCEPT ![c] = <<>>]
  /\ Return(c, "nil")
  /\ UNCHANGED <<bufferVars, chOpen, tickerVars, cancelled, result,
                 workerVars, closeVars, failures, serverVars, panicked>>

SendLeftover(c) ==
  /\ callPc[c] \in {"send", "blocked"} /\ detached[c] = <<>> /\ Room
  /\ flushCh' = Append(flushCh, Job("drain", <<>>, c))
  /\ Goto(c, "await")
  /\ UNCHANGED <<bufferVars, chOpen, tickerVars, detached, outcome, cancelled, result,
                 workerVars, closeVars, failures, serverVars, panicked>>

SendBlocks(c) ==
  /\ callPc[c] = "send" /\ chOpen /\ ~Room
  /\ Goto(c, "blocked")
  /\ UNCHANGED <<bufferVars, queueVars, tickerVars, detached, outcome, cancelled, result,
                 workerVars, closeVars, failures, serverVars, panicked>>

SendCancelled(c) ==
  /\ callPc[c] = "blocked" /\ c \in cancelled
  /\ Goto(c, IF detached[c] = <<>> THEN "done" ELSE "giveBack")
  /\ outcome' = [outcome EXCEPT ![c] = "ctx"]
  /\ UNCHANGED <<bufferVars, queueVars, tickerVars, detached, cancelled, result,
                 workerVars, closeVars, failures, serverVars, panicked>>

\* A flush error is the writer's to retry, unless the caller gave up as well.
AwaitDone(c) ==
  /\ callPc[c] = "await" /\ result[c] # "none"
  /\ result[c] = "ok" \/ c \notin cancelled
  /\ Goto(c, "recheck")
  /\ UNCHANGED <<bufferVars, queueVars, tickerVars, detached, outcome, cancelled, result,
                 workerVars, closeVars, failures, serverVars, panicked>>

AwaitCancelled(c) ==
  /\ callPc[c] = "await" /\ c \in cancelled
  /\ Return(c, "ctx")
  /\ UNCHANGED <<bufferVars, queueVars, tickerVars, detached, cancelled, result,
                 workerVars, closeVars, failures, serverVars, panicked>>

\* Sending on a closed channel ends the process.
Panics ==
  /\ ~chOpen
  /\ {c \in Calls : callPc[c] \in {"send", "blocked"}} # {} \/ ticker = "send"
  /\ panicked' = TRUE
  /\ UNCHANGED <<bufferVars, queueVars, tickerVars, callVars, cancelled, result,
                 workerVars, closeVars, failures, serverVars>>

-----------------------------------------------------------------------------
(* The worker: runWorker, executeFlush, insertBatch.                       *)

Answer(who, value) ==
  result' = IF who = Nobody THEN result ELSE [result EXCEPT ![who] = value]

\* Mutant: only a failed flush is reported to its waiter.
CompleteOnFailure(value) ==
  /\ workerPc' = "recv" /\ batch' = <<>> /\ waiter' = Nobody
  /\ IF value = "failed" THEN Answer(waiter, value) ELSE UNCHANGED result

Complete(value) ==
  /\ workerPc' = "recv" /\ batch' = <<>> /\ waiter' = Nobody
  /\ Answer(waiter, value)

WorkerTakesBatch ==
  /\ workerPc = "recv" /\ flushCh # <<>> /\ Head(flushCh).kind = "batch"
  /\ flushCh' = Tail(flushCh)
  /\ workerPc' = "columns" /\ batch' = Head(flushCh).rows /\ waiter' = Head(flushCh).waiter
  /\ UNCHANGED <<bufferVars, chOpen, tickerVars, callVars, cancelled, result,
                 closeVars, failures, serverVars, panicked>>

WorkerTakesDrain ==
  /\ workerPc = "recv" /\ flushCh # <<>> /\ Head(flushCh).kind = "drain"
  /\ flushCh' = Tail(flushCh)
  /\ workerPc' = "fetch" /\ waiter' = Head(flushCh).waiter
  /\ UNCHANGED <<bufferVars, chOpen, tickerVars, callVars, cancelled, result, batch,
                 closeVars, failures, serverVars, panicked>>

\* Mutant: the wait-for-drain sentinel is not acknowledged.
WorkerForgetsIdle ==
  /\ workerPc = "recv" /\ flushCh # <<>> /\ Head(flushCh).kind = "idle"
  /\ flushCh' = Tail(flushCh)
  /\ UNCHANGED <<bufferVars, chOpen, tickerVars, callVars, cancelled, result, workerVars,
                 closeVars, failures, serverVars, panicked>>

WorkerTakesIdle ==
  /\ workerPc = "recv" /\ flushCh # <<>> /\ Head(flushCh).kind = "idle"
  /\ flushCh' = Tail(flushCh)
  /\ Answer(Head(flushCh).waiter, "ok")
  /\ UNCHANGED <<bufferVars, chOpen, tickerVars, callVars, cancelled, workerVars,
                 closeVars, failures, serverVars, panicked>>

\* Mutant: the buffer is flushed and kept.
WorkerFetchesCopy ==
  /\ workerPc = "fetch" /\ buf # <<>>
  /\ batch' = buf
  /\ workerPc' = "columns"
  /\ UNCHANGED <<bufferVars, queueVars, tickerVars, callVars, cancelled, result,
                 waiter, closeVars, failures, serverVars, panicked>>

WorkerFetches ==
  /\ workerPc = "fetch" /\ buf # <<>>
  /\ batch' = buf /\ buf' = <<>>
  /\ shares' = [shares EXCEPT ![InWorker] = shares[Buffer], ![Buffer] = Own]
  /\ workerPc' = "columns"
  /\ UNCHANGED <<known, closed, queueVars, tickerVars, callVars, cancelled, result,
                 waiter, closeVars, failures, serverVars, panicked>>

WorkerFindsNothing ==
  /\ workerPc = "fetch" /\ buf = <<>>
  /\ Complete("ok")
  /\ UNCHANGED <<bufferVars, queueVars, tickerVars, callVars, cancelled,
                 closeVars, failures, serverVars, panicked>>

newKeys == (UNION {KeysOf[r] : r \in Range(batch)}) \ known

WorkerAddsColumns ==
  /\ workerPc = "columns"
  /\ columns' = columns \cup newKeys
  /\ known' = known \cup newKeys
  /\ workerPc' = "insert"
  /\ UNCHANGED <<buf, closed, shares, queueVars, tickerVars, callVars, cancelled, result,
                 batch, waiter, closeVars, failures, stored, panicked>>

Fails ==
  /\ failures < MaxFailures /\ failures' = failures + 1
  /\ buf' = Rebuffered(batch)
  /\ \E x \in AppendsTo(shares[InWorker], buf) :
       /\ shares' = [shares EXCEPT ![Buffer] = x, ![InWorker] = Own]
       /\ detached' = DetachedAfter(x, Len(batch), buf)
  /\ Complete("failed")

\* Mutant: the keys are marked as known before the columns exist.
AddColumnsFailsMarked ==
  /\ workerPc = "columns" /\ newKeys # {}
  /\ \E added \in SUBSET newKeys : columns' = columns \cup added
  /\ Fails
  /\ known' = known \cup newKeys
  /\ UNCHANGED <<closed, queueVars, tickerVars, callPc, outcome, cancelled,
                 closeVars, stored, panicked>>

\* The driver adds one column after the other and stops at the first error.
AddColumnsFails ==
  /\ workerPc = "columns" /\ newKeys # {}
  /\ \E added \in SUBSET newKeys : columns' = columns \cup added
  /\ Fails
  /\ UNCHANGED <<known, closed, queueVars, tickerVars, callPc, outcome, cancelled,
                 closeVars, stored, panicked>>

Inserted ==
  [r \in Rows |-> stored[r] + Cardinality({i \in DOMAIN batch : batch[i] = r})]

WorkerInserts ==
  /\ workerPc = "insert"
  /\ stored' = Inserted
  /\ shares' = [shares EXCEPT ![InWorker] = Own]
  /\ Complete("ok")
  /\ UNCHANGED <<buf, known, closed, queueVars, tickerVars, callVars, cancelled,
                 closeVars, failures, columns, panicked>>

InsertFails ==
  /\ workerPc = "insert"
  /\ Fails
  /\ stored' \in IF LosesReplies THEN {stored, Inserted} ELSE {stored}
  /\ UNCHANGED <<known, closed, queueVars, tickerVars, callPc, outcome, cancelled,
                 closeVars, columns, panicked>>

WorkerExits ==
  /\ workerPc = "recv" /\ flushCh = <<>> /\ ~chOpen
  /\ workerPc' = "exit"
  /\ UNCHANGED <<bufferVars, queueVars, tickerVars, callVars, cancelled, result,
                 batch, waiter, closeVars, failures, serverVars, panicked>>

-----------------------------------------------------------------------------
(* Start and the flush ticker.                                             *)

Start ==
  /\ TickerEnabled /\ stop = "nil" /\ ~closed
  /\ stop' = "open" /\ ticker' = "select"
  /\ UNCHANGED <<bufferVars, queueVars, callVars, cancelled, result,
                 workerVars, closeVars, failures, serverVars, panicked>>

\* The ticker looks at closed (twice) and has not sent yet.
TickerFires ==
  /\ ticker = "select" /\ ~closed
  /\ ticker' = "send"
  /\ UNCHANGED <<bufferVars, queueVars, stop, callVars, cancelled, result,
                 workerVars, closeVars, failures, serverVars, panicked>>

TickerSends ==
  /\ ticker = "send" /\ Room
  /\ flushCh' = Append(flushCh, Job("drain", <<>>, Nobody))
  /\ ticker' = "select"
  /\ UNCHANGED <<bufferVars, chOpen, stop, callVars, cancelled, result,
                 workerVars, closeVars, failures, serverVars, panicked>>

\* Mutant: the ticker ends at a saturated queue.
TickerGivesUp ==
  /\ ticker = "send" /\ chOpen /\ ~Room
  /\ ticker' = "off"
  /\ UNCHANGED <<bufferVars, queueVars, stop, callVars, cancelled, result,
                 workerVars, closeVars, failures, serverVars, panicked>>

\* Best effort: with a saturated queue the rows wait for the next tick.
TickerSkips ==
  /\ ticker = "send" /\ chOpen /\ ~Room
  /\ ticker' = "select"
  /\ UNCHANGED <<bufferVars, queueVars, stop, callVars, cancelled, result,
                 workerVars, closeVars, failures, serverVars, panicked>>

TickerStops ==
  /\ ticker = "select" /\ stop = "closed"
  /\ ticker' = "off"
  /\ UNCHANGED <<bufferVars, queueVars, stop, callVars, cancelled, result,
                 workerVars, closeVars, failures, serverVars, panicked>>

-----------------------------------------------------------------------------
(* Close.  The collector calls it once.                                    *)

CloseBegin ==
  /\ closer = "new" /\ (CloseOverlaps \/ InFlight = {})
  /\ closed' = TRUE
  /\ stop' = IF stop = "open" THEN "closed" ELSE stop
  /\ closer' = IF stop = "nil" THEN "writers" ELSE "ticker"
  /\ UNCHANGED <<buf, known, shares, queueVars, ticker, callVars, cancelled, result,
                 workerVars, closeErr, failures, serverVars, panicked>>

CloseTickerDone ==
  /\ closer = "ticker" /\ ticker = "off"
  /\ stop' = "nil" /\ closer' = "writers"
  /\ UNCHANGED <<bufferVars, queueVars, ticker, callVars, cancelled, result,
                 workerVars, closeErr, failures, serverVars, panicked>>

\* ctx cancels only the wait for the ticker.
CloseGivesUp ==
  /\ closer = "ticker" /\ CloseCancellable
  /\ closer' = "writers" /\ closeErr' = TRUE
  /\ UNCHANGED <<bufferVars, queueVars, tickerVars, callVars, cancelled, result,
                 workerVars, failures, serverVars, panicked>>

\* Mutant: the running calls are not waited for.
CloseWithoutWaiting ==
  /\ closer = "writers"
  /\ closer' = "sync"
  /\ UNCHANGED <<bufferVars, queueVars, tickerVars, callVars, cancelled, result,
                 workerVars, closeErr, failures, serverVars, panicked>>

CloseWritersDone ==
  /\ closer = "writers" /\ InFlight = {}
  /\ closer' = "sync"
  /\ UNCHANGED <<bufferVars, queueVars, tickerVars, callVars, cancelled, result,
                 workerVars, closeErr, failures, serverVars, panicked>>

\* Mutant: an empty buffer is taken to mean that nothing is in flight.
CloseSyncsOnLeftover ==
  /\ closer = "sync" /\ Room
  /\ flushCh' = IF buf = <<>> THEN flushCh ELSE Append(flushCh, Job("idle", <<>>, Closer))
  /\ result' = [result EXCEPT ![Closer] = IF buf = <<>> THEN "ok" ELSE "none"]
  /\ closer' = "syncWait"
  /\ UNCHANGED <<bufferVars, chOpen, tickerVars, callVars, cancelled,
                 workerVars, closeErr, failures, serverVars, panicked>>

CloseSyncs ==
  /\ closer = "sync" /\ Room
  /\ flushCh' = Append(flushCh, Job("idle", <<>>, Closer))
  /\ result' = [result EXCEPT ![Closer] = "none"]
  /\ closer' = "syncWait"
  /\ UNCHANGED <<bufferVars, chOpen, tickerVars, callVars, cancelled,
                 workerVars, closeErr, failures, serverVars, panicked>>

\* Every earlier job is done: look at the buffer.
CloseSynced ==
  /\ closer = "syncWait" /\ result[Closer] # "none"
  /\ closer' = IF buf = <<>> THEN "channel" ELSE "drain"
  /\ UNCHANGED <<bufferVars, queueVars, tickerVars, callVars, cancelled, result,
                 workerVars, closeErr, failures, serverVars, panicked>>

CloseDrains ==
  /\ closer = "drain" /\ Room
  /\ flushCh' = Append(flushCh, Job("drain", <<>>, Closer))
  /\ result' = [result EXCEPT ![Closer] = "none"]
  /\ closer' = "drainWait"
  /\ UNCHANGED <<bufferVars, chOpen, tickerVars, callVars, cancelled,
                 workerVars, closeErr, failures, serverVars, panicked>>

CloseDrained ==
  /\ closer = "drainWait" /\ result[Closer] = "ok"
  /\ closer' = "sync"
  /\ UNCHANGED <<bufferVars, queueVars, tickerVars, callVars, cancelled, result,
                 workerVars, closeErr, failures, serverVars, panicked>>

\* The first failed drain ends the loop.
CloseDrainFails ==
  /\ closer = "drainWait" /\ result[Closer] = "failed"
  /\ closer' = "channel" /\ closeErr' = TRUE
  /\ UNCHANGED <<bufferVars, queueVars, tickerVars, callVars, cancelled, result,
                 workerVars, failures, serverVars, panicked>>

CloseChannel ==
  /\ closer = "channel"
  /\ chOpen' = FALSE /\ closer' = "worker"
  /\ UNCHANGED <<bufferVars, flushCh, tickerVars, callVars, cancelled, result,
                 workerVars, closeErr, failures, serverVars, panicked>>

CloseEnd ==
  /\ closer = "worker" /\ workerPc = "exit"
  /\ closer' = "done"
  /\ UNCHANGED <<bufferVars, queueVars, tickerVars, callVars, cancelled, result,
                 workerVars, closeErr, failures, serverVars, panicked>>

-----------------------------------------------------------------------------
WriteStep(c) ==
  \/ WriteBuffers(c) \/ WriteDetaches(c) \/ WriteRetriesLeftover(c)
  \/ RecheckClosed(c) \/ RecheckFull(c)
  \/ EnqueueOpen(c) \/ EnqueueClosed(c) \/ GiveBack(c)
  \/ SendBlocks(c) \/ SendCancelled(c) \/ AwaitDone(c) \/ AwaitCancelled(c)

SendStep(c) == SendBatch(c) \/ SendLeftover(c)

Write(c) == WriteRefused(c) \/ WriteBegin(c) \/ WriteStep(c) \/ SendStep(c) \/ Cancel(c)

Worker ==
  \/ WorkerTakesBatch \/ WorkerTakesDrain \/ WorkerTakesIdle
  \/ WorkerFetches \/ WorkerFindsNothing
  \/ WorkerAddsColumns \/ AddColumnsFails \/ WorkerInserts \/ InsertFails
  \/ WorkerExits

Ticker == TickerFires \/ TickerSends \/ TickerSkips \/ TickerStops

CloseStep ==
  \/ CloseTickerDone \/ CloseGivesUp \/ CloseWritersDone
  \/ CloseSynced \/ CloseDrained \/ CloseDrainFails \/ CloseChannel \/ CloseEnd

CloseSend == CloseSyncs \/ CloseDrains

\* Everything returned, or the process is gone.
Terminated ==
  /\ panicked \/ (closer = "done" /\ \A c \in Calls : callPc[c] = "done")
  /\ UNCHANGED vars

Next ==
  \/ /\ ~panicked
     /\ \/ \E c \in Calls : Write(c)
        \/ Worker \/ Start \/ Ticker \/ CloseBegin \/ CloseStep \/ CloseSend \/ Panics
  \/ Terminated

Spec == Init /\ [][Next]_vars

\* A blocked sender gets its turn (Go queues them), a select takes every ready
\* case again and again, and the Inserter answers.
Fairness ==
  /\ \A c \in Calls : WF_vars(WriteStep(c)) /\ SF_vars(SendStep(c))
  /\ WF_vars(Worker)
  /\ WF_vars(TickerFires) /\ WF_vars(TickerSends \/ TickerSkips) /\ SF_vars(TickerStops)
  /\ WF_vars(CloseStep) /\ SF_vars(CloseSend)

FairSpec == Spec /\ Fairness

-----------------------------------------------------------------------------
(* Properties.                                                             *)

HeldRows ==
  Range(buf) \cup Range(batch)
    \cup (UNION {Range(detached[c]) : c \in Calls})
    \cup (UNION {Range(flushCh[i].rows) : i \in DOMAIN flushCh})

StoredRows == {r \in Rows : stored[r] > 0}

\* Two slices are on one array.
Sharing == \E g, h \in Holders : g # h /\ shares[g] = shares[h] /\ shares[g] # Own

\* No row is inserted twice when the Inserter reports its failures truly and
\* Close does not overlap with a Write: a row is in one place at a time, in the
\* buffer, a detached batch, the queue or the worker (Write, insertBatch,
\* rebuffer).
StoredOnce == \A r \in Rows : stored[r] <= 1

Done(c) == callPc[c] = "done"
Kept(c) == Range(RowsOf[c]) \subseteq HeldRows \cup StoredRows
Left(c) == Range(RowsOf[c]) \cap (HeldRows \cup StoredRows) = {}

\* Close does not drop a row that Write accepted ("the drain always runs so rows
\* Write already accepted are not dropped").
AcceptedKept == \A c \in Calls : Done(c) /\ outcome[c] = "nil" => Kept(c)

\* A Write is all or nothing: its rows are in memory or stored when it returns
\* nil, and all of them or none when it returns an error, although its batch
\* carries the rows of other calls and goes back when ctx ends (Write, rebuffer).
AllOrNothing ==
  \A c \in Calls : Done(c) => Kept(c) \/ (outcome[c] # "nil" /\ Left(c))

\* A Write that was refused for a full buffer left none of its rows behind,
\* neither before it waited for the leftover nor after (Write, errBufferFull).
FullMeansRefused == \A c \in Calls : Done(c) /\ outcome[c] = "full" => Left(c)

\* A Write that returned an error left none of its rows behind, so the caller
\* may send them again ("Writer owns retry: flush errors are re-buffered; only
\* errBufferFull signals the Collector").
ErrorMeansRefused == \A c \in Calls : Done(c) /\ outcome[c] # "nil" => Left(c)

\* A Write is refused only for the leftover of a failed flush ("Reject only when
\* a retry leftover is already occupying the cap").
FullMeansLeftover == \A c \in Calls : outcome[c] = "full" => failures > 0

\* With as many rows in memory as the cap, and no flush that succeeded since one
\* failed, no row is accepted ("subsequent Writes are rejected until a flush
\* succeeds").
AtCapRefuses ==
  [][ failures > 0 /\ StoredRows = {} /\ Cardinality(HeldRows) >= bufCap
        => HeldRows' \subseteq HeldRows ]_vars

\* A row is inserted only after the column of each of its keys exists, whatever
\* failed or was retried before; a batch on a shared array may change between
\* newKeys and InsertBatch (insertBatch).
ColumnsBeforeRows ==
  [][ \A r \in Rows :
        stored'[r] > stored[r] /\ shares[InWorker] = Own => KeysOf[r] \subseteq columns ]_vars

\* Close returns nil only when no row is left in memory: not in the buffer, not
\* with the worker and not with a Write that was running when it began, however
\* often a flush failed and was put back meanwhile (Close, sync).
CloseNilMeansDrained == closer = "done" /\ ~closeErr => HeldRows = {}

\* Nothing is sent on flushCh once Close closed it (flushMu, writers).
NeverPanics == ~panicked

\* The writer implements at-least-once delivery: an accepted row is held until
\* it is stored, through failed flushes, cancelled calls and Close.
Abstract == INSTANCE RowStore WITH held <- HeldRows, stored <- StoredRows
ImplementsRowStore == Abstract!Spec

\* Also when Close overlaps with a Write an accepted row is held until it is
\* stored, as long as no two slices are on one array: only the second give-back
\* of a batch can overwrite rows (rebuffer, enqueueFlush, Write).
KeptUnlessShared == [][~Sharing => [Abstract!Next]_<<HeldRows, StoredRows>>]_vars

\* A Write that began returns, also when the queue is full, as long as the
\* Inserter answers (enqueueFlush).
WriteReturns == \A c \in Calls : (c \in InFlight) ~> (c \notin InFlight)

\* Close returns: it is not blocked for ever behind a Write, the ticker or the
\* worker, and its drain loop ends (Close, sync).
CloseReturns == (closer # "new") ~> (closer = "done")

\* While the ticker runs, a buffered row does not wait for another Write: it is
\* inserted, when the Inserter fails finitely often (FlushInterval).
BufferedEventuallyStored ==
  \A r \in Rows : (r \in Range(buf) /\ stop = "open") ~> (r \in StoredRows \/ closed)
=============================================================================
