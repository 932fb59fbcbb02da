----------------------- MODULE ClickHouseWriterProofs -----------------------
(***************************************************************************)
(* Theorems about ClickHouseWriter, for any calls, rows and keys and every *)
(* value of the sizes and bounds.                                          *)
(***************************************************************************)
EXTENDS ClickHouseWriter, SequenceTheorems, FiniteSetTheorems, TLAPS

(***************************************************************************)
(* What the operations on the buffer and the queue keep.                   *)
(***************************************************************************)

\* A rebuffered batch and an appended call leave a sequence of rows (rebuffer,
\* Write).
LEMMA BufferTyped ==
  ASSUME TypeOK, NEW rows \in Seq(Rows)
  PROVE  Rebuffered(rows) \in Seq(Rows) /\ buf \o rows \in Seq(Rows)
BY ConcatProperties DEF TypeOK, Rebuffered

\* A slice whose array is written to keeps its length, and has its own rows or
\* those that were written; it keeps all of its own unless it is on that array
\* (append).
LEMMA SeenTyped ==
  ASSUME NEW slice \in Seq(Rows), NEW y, NEW x, NEW n \in Nat, NEW rows \in Seq(Rows)
  PROVE  /\ Seen(slice, y, x, n, rows) \in Seq(Rows)
         /\ Seen(slice, y, x, n, rows) = <<>> <=> slice = <<>>
         /\ Range(Seen(slice, y, x, n, rows)) \subseteq Range(slice) \cup Range(rows)
         /\ x = Own \/ y # x => Seen(slice, y, x, n, rows) = slice
<1>1. CASE x = Own \/ y # x
  BY <1>1 DEF Seen
<1>2. CASE ~(x = Own \/ y # x)
  <2> DEFINE t == Seen(slice, y, x, n, rows)
  <2>1. /\ DOMAIN slice = 1..Len(slice) /\ Len(slice) \in Nat
        /\ DOMAIN rows = 1..Len(rows) /\ Len(rows) \in Nat
    BY LenProperties
  <2>2. t = [i \in 1..Len(slice) |-> IF i \in n+1..n+Len(rows) THEN rows[i - n] ELSE slice[i]]
    BY <1>2, <2>1 DEF Seen
  <2> HIDE DEF t
  <2>3. ASSUME NEW i \in 1..Len(slice)
        PROVE  /\ i \in DOMAIN slice /\ t[i] \in Rows
               /\ t[i] = slice[i] \/ \E k \in DOMAIN rows : t[i] = rows[k]
    <3>1. CASE i \in n+1..n+Len(rows)
      <4>1. i - n \in DOMAIN rows /\ t[i] = rows[i - n]
        BY <2>1, <2>2, <2>3, <3>1
      <4> QED BY <2>1, <4>1
    <3>2. CASE i \notin n+1..n+Len(rows)
      BY <2>1, <2>2, <3>2
    <3> QED BY <3>1, <3>2
  <2>4. DOMAIN t = 1..Len(slice) /\ t \in [1..Len(slice) -> Rows]
    BY <2>2, <2>3
  <2>5. t \in Seq(Rows) /\ Len(t) = Len(slice)
    <3>1. t \in Seq(Rows)
      BY <2>1, <2>4, IsASeq
    <3> QED BY <2>1, <2>4, <3>1, LenProperties
  <2>6. t = <<>> <=> slice = <<>>
    BY <2>5, EmptySeq, LenProperties
  <2>7. Range(t) \subseteq Range(slice) \cup Range(rows)
    BY <2>3, <2>4 DEF Range
  <2> QED BY <1>2, <2>5, <2>6, <2>7 DEF t
<1> QED BY <1>1, <1>2

\* The slices of the calls and of the worker, after an append.
LEMMA AfterTyped ==
  ASSUME TypeOK, NEW x, NEW n \in Nat, NEW rows \in Seq(Rows)
  PROVE  /\ DetachedAfter(x, n, rows) \in [Calls -> Seq(Rows)]
         /\ BatchAfter(x, n, rows) \in Seq(Rows)
         /\ BatchAfter(x, n, rows) = <<>> <=> batch = <<>>
         /\ \A c \in Calls : DetachedAfter(x, n, rows)[c] = <<>> <=> detached[c] = <<>>
<1>1. batch \in Seq(Rows) /\ \A c \in Calls : detached[c] \in Seq(Rows)
  BY DEF TypeOK
<1>2. /\ BatchAfter(x, n, rows) \in Seq(Rows)
      /\ BatchAfter(x, n, rows) = <<>> <=> batch = <<>>
  BY <1>1, SeenTyped DEF BatchAfter
<1>3. ASSUME NEW c \in Calls
      PROVE  /\ DetachedAfter(x, n, rows)[c] \in Seq(Rows)
             /\ DetachedAfter(x, n, rows)[c] = <<>> <=> detached[c] = <<>>
  <2>1. DetachedAfter(x, n, rows)[c] = Seen(detached[c], shares[c], x, n, rows)
    BY DEF DetachedAfter
  <2> DEFINE slice == detached[c]
  <2>2. slice \in Seq(Rows)
    BY <1>1
  <2>3. DetachedAfter(x, n, rows)[c] = Seen(slice, shares[c], x, n, rows)
    BY <2>1
  <2> HIDE DEF slice
  <2>4. /\ Seen(slice, shares[c], x, n, rows) \in Seq(Rows)
        /\ Seen(slice, shares[c], x, n, rows) = <<>> <=> slice = <<>>
    BY <2>2, SeenTyped
  <2> QED BY <2>3, <2>4 DEF slice
<1> QED BY <1>2, <1>3 DEF DetachedAfter

\* What append writes to is the array of its slice, or a new one.
LEMMA AppendsTyped ==
  ASSUME NEW y \in Arrays, NEW rows
  PROVE  AppendsTo(y, rows) \subseteq Arrays
BY DEF AppendsTo, Arrays

\* The lengths and arrays of the slices that are appended to.
LEMMA SlicesTyped ==
  ASSUME TypeOK
  PROVE  /\ Len(buf) \in Nat /\ Len(batch) \in Nat /\ \A c \in Calls : Len(detached[c]) \in Nat
         /\ shares[Buffer] \in Arrays /\ shares[InWorker] \in Arrays /\ Own \in Arrays
         /\ \A c \in Calls : c \in Arrays /\ shares[c] \in Arrays
         /\ DOMAIN shares = Holders /\ Buffer \in Holders /\ InWorker \in Holders
         /\ Buffer # InWorker /\ Calls \subseteq Holders
BY LenProperties DEF TypeOK, Holders, Arrays, Buffer, InWorker

\* Every job fits the queue when there is room (enqueueFlush, tick, sync).
LEMMA QueueTyped ==
  ASSUME TypeOK, Room, NEW j \in Jobs
  PROVE  Append(flushCh, j) \in Seq(Jobs) /\ Len(Append(flushCh, j)) <= QueueDepth
BY SizesAssumption, AppendProperties DEF TypeOK, Room

\* What the worker takes from the queue is a job (runWorker).
LEMMA HeadTyped ==
  ASSUME TypeOK, flushCh # <<>>
  PROVE  /\ Head(flushCh) \in Jobs
         /\ Tail(flushCh) \in Seq(Jobs) /\ Len(Tail(flushCh)) <= QueueDepth
<1>1. Head(flushCh) \in Jobs /\ Tail(flushCh) \in Seq(Jobs) /\ Len(Tail(flushCh)) = Len(flushCh) - 1
  BY HeadTailProperties DEF TypeOK
<1> QED BY <1>1, SizesAssumption, LenProperties DEF TypeOK

\* An insertion counts every row of the batch once more (InsertBatch).
LEMMA InsertedTyped ==
  ASSUME TypeOK
  PROVE  Inserted \in [Rows -> Nat]
<1> SUFFICES ASSUME NEW r \in Rows
             PROVE  stored[r] + Cardinality({i \in DOMAIN batch : batch[i] = r}) \in Nat
  BY DEF Inserted
<1>1. DOMAIN batch = 1..Len(batch) /\ Len(batch) \in Nat
  BY LenProperties DEF TypeOK
<1>2. IsFiniteSet(DOMAIN batch)
  BY <1>1, FS_Interval
<1>3. Cardinality({i \in DOMAIN batch : batch[i] = r}) \in Nat
  BY <1>2, FS_Subset, FS_CardinalityType
<1> QED BY <1>3 DEF TypeOK

(***************************************************************************)
(* Types.                                                                  *)
(***************************************************************************)

LEMMA InitTyped == Init => TypeOK
<1> SUFFICES ASSUME Init PROVE TypeOK
  OBVIOUS
<1>1. <<>> \in Seq(Rows) /\ <<>> \in Seq(Jobs) /\ Len(<<>>) = 0
  BY EmptySeq
<1>2. /\ buf \in Seq(Rows) /\ flushCh \in Seq(Jobs) /\ Len(flushCh) <= QueueDepth
      /\ batch \in Seq(Rows) /\ detached \in [Calls -> Seq(Rows)]
      /\ shares \in [Holders -> Arrays]
  BY <1>1, SizesAssumption DEF Init, Arrays
<1>3. /\ callPc \in [Calls -> CallStates] /\ closer \in CloseStates /\ waiter \in Waiters
      /\ outcome \in [Calls -> {"nil", "closed", "full", "ctx"}]
      /\ result \in [Calls \cup {Closer} -> {"none", "ok", "failed"}]
      /\ stored \in [Rows -> Nat] /\ failures \in 0..MaxFailures
  BY SizesAssumption DEF Init, CallStates, CloseStates, Waiters
<1> QED BY <1>2, <1>3 DEF Init, TypeOK

\* Every step of a call of Write.
LEMMA WriteTyped ==
  ASSUME TypeOK, NEW c \in Calls, Write(c)
  PROVE  TypeOK'
<1> USE DEF bufferVars, queueVars, tickerVars, callVars, workerVars, closeVars, serverVars, Goto, Return,
            CallStates
<1>1. RowsOf[c] \in Seq(Rows) /\ detached[c] \in Seq(Rows) /\ buf \in Seq(Rows) /\ <<>> \in Seq(Rows)
  BY RowsAssumption, EmptySeq DEF TypeOK
<1>2. CASE WriteRefused(c)
  BY <1>2 DEF WriteRefused, TypeOK
<1>3. CASE WriteBegin(c)
  BY <1>3 DEF WriteBegin, TypeOK
<1>4. CASE WriteBuffers(c)
  <2>1. PICK x \in AppendsTo(shares[Buffer], RowsOf[c]) :
          /\ shares' = [shares EXCEPT ![Buffer] = x]
          /\ detached' = DetachedAfter(x, Len(buf), RowsOf[c])
          /\ batch' = BatchAfter(x, Len(buf), RowsOf[c])
    BY <1>4 DEF WriteBuffers
  <2>2. shares' \in [Holders -> Arrays]
    BY <2>1, AppendsTyped, SlicesTyped DEF TypeOK
  <2>3. detached' \in [Calls -> Seq(Rows)] /\ batch' \in Seq(Rows)
    BY <1>1, <2>1, AfterTyped, SlicesTyped
  <2> QED BY <1>1, <1>4, <2>2, <2>3, BufferTyped DEF WriteBuffers, TypeOK
<1>5. CASE WriteDetaches(c)
  <2>1. PICK x \in AppendsTo(shares[Buffer], RowsOf[c]) :
          /\ shares' = [shares EXCEPT ![c] = x, ![Buffer] = Own]
          /\ detached' = [DetachedAfter(x, Len(buf), RowsOf[c]) EXCEPT ![c] = buf \o RowsOf[c]]
          /\ batch' = BatchAfter(x, Len(buf), RowsOf[c])
    BY <1>5 DEF WriteDetaches
  <2>2. shares' \in [Holders -> Arrays]
    BY <2>1, AppendsTyped, SlicesTyped DEF TypeOK
  <2>3. detached' \in [Calls -> Seq(Rows)] /\ batch' \in Seq(Rows)
    BY <1>1, <2>1, AfterTyped, SlicesTyped, BufferTyped
  <2> QED BY <1>1, <1>5, <2>2, <2>3 DEF WriteDetaches, TypeOK
<1>6. CASE WriteRetriesLeftover(c)
  BY <1>6 DEF WriteRetriesLeftover, TypeOK
<1>7. CASE RecheckClosed(c)
  BY <1>7 DEF RecheckClosed, TypeOK
<1>8. CASE RecheckFull(c)
  BY <1>8 DEF RecheckFull, TypeOK
<1>9. CASE EnqueueOpen(c)
  BY <1>9 DEF EnqueueOpen, TypeOK
<1>10. CASE EnqueueClosed(c)
  <2>1. PICK x \in AppendsTo(IF shares[c] = Own THEN c ELSE shares[c], buf) :
          /\ shares' = [shares EXCEPT ![Buffer] = x, ![c] = IF x = Own THEN @ ELSE x]
          /\ detached' = DetachedAfter(x, Len(detached[c]), buf)
          /\ batch' = BatchAfter(x, Len(detached[c]), buf)
    BY <1>10 DEF EnqueueClosed
  <2>2. shares' \in [Holders -> Arrays]
    BY <2>1, AppendsTyped, SlicesTyped DEF TypeOK
  <2>3. detached' \in [Calls -> Seq(Rows)] /\ batch' \in Seq(Rows)
    BY <1>1, <2>1, AfterTyped, SlicesTyped
  <2> QED BY <1>1, <1>10, <2>2, <2>3, BufferTyped DEF EnqueueClosed, TypeOK
<1>11. CASE GiveBack(c)
  <2>1. PICK x \in AppendsTo(shares[c], buf) :
          /\ shares' = [shares EXCEPT ![Buffer] = x, ![c] = Own]
          /\ detached' = [DetachedAfter(x, Len(detached[c]), buf) EXCEPT ![c] = <<>>]
          /\ batch' = BatchAfter(x, Len(detached[c]), buf)
    BY <1>11 DEF GiveBack
  <2>2. shares' \in [Holders -> Arrays]
    BY <2>1, AppendsTyped, SlicesTyped DEF TypeOK
  <2>3. detached' \in [Calls -> Seq(Rows)] /\ batch' \in Seq(Rows)
    BY <1>1, <2>1, AfterTyped, SlicesTyped
  <2> QED BY <1>1, <1>11, <2>2, <2>3, BufferTyped DEF GiveBack, TypeOK
<1>12. CASE SendBlocks(c)
  BY <1>12 DEF SendBlocks, TypeOK
<1>13. CASE SendCancelled(c)
  BY <1>13 DEF SendCancelled, TypeOK
<1>14. CASE AwaitDone(c)
  BY <1>14 DEF AwaitDone, TypeOK
<1>15. CASE AwaitCancelled(c)
  BY <1>15 DEF AwaitCancelled, TypeOK
<1>16. CASE SendBatch(c)
  <2>1. Job("batch", detached[c], Nobody) \in Jobs
    BY <1>1 DEF Job, Jobs, Waiters
  <2> QED BY <1>1, <1>16, <2>1, QueueTyped DEF SendBatch, TypeOK
<1>17. CASE SendLeftover(c)
  <2>1. Job("drain", <<>>, c) \in Jobs
    BY <1>1 DEF Job, Jobs, Waiters
  <2> QED BY <1>17, <2>1, QueueTyped DEF SendLeftover, TypeOK
<1>18. CASE Cancel(c)
  BY <1>18 DEF Cancel, TypeOK
<1> QED
  BY <1>2, <1>3, <1>4, <1>5, <1>6, <1>7, <1>8, <1>9, <1>10, <1>11, <1>12, <1>13, <1>14, <1>15, <1>16,
     <1>17, <1>18
  DEF Write, WriteStep, SendStep

\* An answer goes to a call or to Close (job.done).
LEMMA AnswerTyped ==
  ASSUME TypeOK, NEW who \in Waiters, NEW value \in {"none", "ok", "failed"}, Answer(who, value)
  PROVE  result' \in [Calls \cup {Closer} -> {"none", "ok", "failed"}]
BY DEF TypeOK, Answer, Waiters

\* Every step of the worker.
LEMMA WorkerTyped ==
  ASSUME TypeOK, Worker
  PROVE  TypeOK'
<1> USE DEF bufferVars, queueVars, tickerVars, callVars, workerVars, closeVars, serverVars
<1>1. <<>> \in Seq(Rows) /\ waiter \in Waiters /\ Nobody \in Waiters
  BY EmptySeq DEF TypeOK, Waiters
<1>2. ASSUME NEW value \in {"ok", "failed"}, Complete(value)
      PROVE  /\ result' \in [Calls \cup {Closer} -> {"none", "ok", "failed"}]
             /\ workerPc' = "recv" /\ batch' \in Seq(Rows) /\ waiter' \in Waiters
  BY <1>1, <1>2, AnswerTyped DEF Complete
<1>3. ASSUME Fails
      PROVE  /\ buf' \in Seq(Rows) /\ failures' \in 0..MaxFailures /\ Complete("failed")
             /\ shares' \in [Holders -> Arrays] /\ detached' \in [Calls -> Seq(Rows)]
  <2>1. PICK x \in AppendsTo(shares[InWorker], buf) :
          /\ shares' = [shares EXCEPT ![Buffer] = x, ![InWorker] = Own]
          /\ detached' = DetachedAfter(x, Len(batch), buf)
    BY <1>3 DEF Fails
  <2>2. shares' \in [Holders -> Arrays]
    BY <2>1, AppendsTyped, SlicesTyped DEF TypeOK
  <2>3. detached' \in [Calls -> Seq(Rows)]
    <3>1. buf \in Seq(Rows) /\ Len(batch) \in Nat
      BY SlicesTyped DEF TypeOK
    <3> QED BY <2>1, <3>1, AfterTyped
  <2>4. buf' \in Seq(Rows)
    BY <1>3, BufferTyped DEF Fails, TypeOK
  <2>5. failures' \in 0..MaxFailures /\ Complete("failed")
    BY <1>3, SizesAssumption DEF Fails, TypeOK
  <2> QED BY <2>2, <2>3, <2>4, <2>5
<1>4. CASE WorkerTakesBatch
  BY <1>4, HeadTyped DEF WorkerTakesBatch, TypeOK, Jobs
<1>5. CASE WorkerTakesDrain
  BY <1>5, HeadTyped DEF WorkerTakesDrain, TypeOK, Jobs
<1>6. CASE WorkerTakesIdle
  <2>1. Head(flushCh).waiter \in Waiters
    BY <1>6, HeadTyped DEF WorkerTakesIdle, Jobs
  <2>2. result' \in [Calls \cup {Closer} -> {"none", "ok", "failed"}]
    BY <1>6, <2>1, AnswerTyped DEF WorkerTakesIdle
  <2> QED BY <1>6, <2>2, HeadTyped DEF WorkerTakesIdle, TypeOK
<1>7. CASE WorkerFetches
  <2>1. shares' \in [Holders -> Arrays]
    BY <1>7, SlicesTyped DEF WorkerFetches, TypeOK
  <2> QED BY <1>1, <1>7, <2>1 DEF WorkerFetches, TypeOK
<1>8. CASE WorkerFindsNothing
  BY <1>2, <1>8 DEF WorkerFindsNothing, TypeOK
<1>9. CASE WorkerAddsColumns
  <2>1. newKeys \subseteq Keys
    BY KeysAssumption, RangeOfSeq DEF newKeys, TypeOK
  <2> QED BY <1>9, <2>1 DEF WorkerAddsColumns, TypeOK
<1>10. CASE AddColumnsFails
  <2>1. newKeys \subseteq Keys
    BY KeysAssumption, RangeOfSeq DEF newKeys, TypeOK
  <2> QED BY <1>2, <1>3, <1>10, <2>1 DEF AddColumnsFails, TypeOK
<1>11. CASE WorkerInserts
  <2>1. shares' \in [Holders -> Arrays]
    BY <1>11, SlicesTyped DEF WorkerInserts, TypeOK
  <2> QED BY <1>2, <1>11, <2>1, InsertedTyped DEF WorkerInserts, TypeOK
<1>12. CASE InsertFails
  BY <1>2, <1>3, <1>12, InsertedTyped DEF InsertFails, TypeOK
<1>13. CASE WorkerExits
  BY <1>13 DEF WorkerExits, TypeOK
<1> QED
  BY <1>4, <1>5, <1>6, <1>7, <1>8, <1>9, <1>10, <1>11, <1>12, <1>13 DEF Worker

\* Every step of the ticker, of Start and of Close.
LEMMA CloseTyped ==
  ASSUME TypeOK, Start \/ Ticker \/ CloseBegin \/ CloseStep \/ CloseSend \/ Panics
  PROVE  TypeOK'
<1> USE DEF bufferVars, queueVars, tickerVars, callVars, workerVars, closeVars, serverVars, CloseStates
<1>1. <<>> \in Seq(Rows)
  BY EmptySeq
<1>2. CASE Start \/ TickerFires \/ TickerSkips \/ TickerStops
  BY <1>2 DEF Start, TickerFires, TickerSkips, TickerStops, TypeOK
<1>3. CASE TickerSends
  <2>1. Job("drain", <<>>, Nobody) \in Jobs
    BY <1>1 DEF Job, Jobs, Waiters
  <2> QED BY <1>3, <2>1, QueueTyped DEF TickerSends, TypeOK
<1>4. CASE CloseBegin
  BY <1>4 DEF CloseBegin, TypeOK
<1>5. CASE CloseStep
  <2>1. /\ stop' \in {stop, "nil"} /\ closer' \in CloseStates
        /\ closeErr' \in {closeErr, TRUE} /\ chOpen' \in {chOpen, FALSE}
        /\ UNCHANGED <<bufferVars, flushCh, ticker, callVars>>
        /\ UNCHANGED <<cancelled, result, workerVars, failures, serverVars, panicked>>
    <3>1. CASE CloseTickerDone
      BY <3>1 DEF CloseTickerDone
    <3>2. CASE CloseGivesUp
      BY <3>2 DEF CloseGivesUp
    <3>3. CASE CloseWritersDone
      BY <3>3 DEF CloseWritersDone
    <3>4. CASE CloseSynced
      BY <3>4 DEF CloseSynced
    <3>5. CASE CloseDrained
      BY <3>5 DEF CloseDrained
    <3>6. CASE CloseDrainFails
      BY <3>6 DEF CloseDrainFails
    <3>7. CASE CloseChannel
      BY <3>7 DEF CloseChannel
    <3>8. CASE CloseEnd
      BY <3>8 DEF CloseEnd
    <3> QED BY <1>5, <3>1, <3>2, <3>3, <3>4, <3>5, <3>6, <3>7, <3>8 DEF CloseStep
  <2>2. stop' \in {"nil", "open", "closed"} /\ closeErr' \in BOOLEAN /\ chOpen' \in BOOLEAN
    BY <2>1 DEF TypeOK
  <2> QED BY <2>1, <2>2 DEF TypeOK
<1>6. CASE CloseSyncs
  <2>1. Job("idle", <<>>, Closer) \in Jobs
    BY <1>1 DEF Job, Jobs, Waiters
  <2> QED BY <1>6, <2>1, QueueTyped DEF CloseSyncs, TypeOK
<1>7. CASE CloseDrains
  <2>1. Job("drain", <<>>, Closer) \in Jobs
    BY <1>1 DEF Job, Jobs, Waiters
  <2> QED BY <1>7, <2>1, QueueTyped DEF CloseDrains, TypeOK
<1>8. CASE Panics
  BY <1>8 DEF Panics, TypeOK
<1> QED BY <1>2, <1>3, <1>4, <1>5, <1>6, <1>7, <1>8 DEF Ticker, CloseSend

\* The buffer and the queue hold rows and jobs, no queue is longer than its
\* depth and no failure is counted twice, at every step of every goroutine.
THEOREM TypeCorrect == Spec => []TypeOK
<1>1. ASSUME TypeOK, [Next]_vars
      PROVE  TypeOK'
  <2>1. CASE UNCHANGED vars
    BY <1>1, <2>1
    DEF TypeOK, vars, bufferVars, queueVars, tickerVars, callVars, workerVars, closeVars, serverVars
  <2>2. CASE Next
    BY <1>1, <2>1, <2>2, WriteTyped, WorkerTyped, CloseTyped DEF Next, Terminated
  <2> QED BY <1>1, <2>1, <2>2
<1> QED BY <1>1, InitTyped, PTL DEF Spec

(***************************************************************************)
(* Columns.                                                                *)
(***************************************************************************)

\* What the worker is about to insert has its columns (insertBatch).
KeysReady ==
  /\ known \subseteq columns
  /\ workerPc = "insert" /\ shares[InWorker] = Own => \A r \in Range(batch) : KeysOf[r] \subseteq known

(***************************************************************************)
(* Close.                                                                  *)
(***************************************************************************)

\* Close has waited for the ticker and for the calls of Write.
Draining == closer \notin {"new", "ticker", "writers"}

\* Close waits for the ticker unless its ctx ends, and then for the calls;
\* after that nobody but Close sends (Close, writers, flushMu).
Quiesced ==
  /\ chOpen = (closer \notin {"worker", "done"})
  /\ closed = (closer # "new")
  /\ stop = "nil" => ticker = "off"
  /\ closer \notin {"new", "ticker"} /\ (~CloseCancellable \/ ~closeErr) => ticker = "off"
  /\ Draining => InFlight = {}

\* A batch is with its call until it is sent or given back, and with the worker
\* while it is inserted.
BatchesPlaced ==
  /\ workerPc \in {"recv", "fetch", "exit"} => batch = <<>>
  /\ workerPc \in {"recv", "exit"} => waiter = Nobody
  /\ \A c \in Calls :
       detached[c] # <<>> => callPc[c] \in {"enqueue", "send", "blocked", "giveBack"}

Awaited == closer \in {"syncWait", "drainWait"} /\ result[Closer] = "none"

\* Close waits for at most one job. When its wait for the ticker was not cut
\* short that job is the last one in the queue, and after it nothing is left
\* but the buffer (sync, Close).
NoCloserJob == waiter # Closer /\ \A i \in DOMAIN flushCh : flushCh[i].waiter # Closer

LastJobIsClosers ==
  \/ flushCh = <<>> /\ waiter = Closer
  \/ /\ flushCh # <<>> /\ waiter # Closer
     /\ \A i \in DOMAIN flushCh : flushCh[i].waiter = Closer <=> i = Len(flushCh)

Settled == closer \in {"syncWait", "drain", "drainWait", "channel", "worker", "done"} /\ ~Awaited

OneJob ==
  ~closeErr =>
    /\ ~Awaited => NoCloserJob
    /\ Awaited => LastJobIsClosers
    /\ Settled => flushCh = <<>> /\ workerPc \in {"recv", "exit"}
    /\ closer \in {"channel", "worker", "done"} => buf = <<>>

DrainInv == TypeOK /\ Quiesced /\ BatchesPlaced /\ OneJob

LEMMA InitDrain == Init => Quiesced /\ BatchesPlaced /\ OneJob
<1> SUFFICES ASSUME Init PROVE Quiesced /\ BatchesPlaced /\ OneJob
  OBVIOUS
<1>1. Quiesced /\ BatchesPlaced
  BY DEF Init, Quiesced, BatchesPlaced, Draining
<1>2. ~Awaited /\ ~Settled /\ closer = "new" /\ NoCloserJob
  BY DEF Init, Awaited, Settled, NoCloserJob, Nobody, Closer
<1> QED BY <1>1, <1>2 DEF OneJob

\* What a step of a call changes: its own place and batch, the buffer and the
\* end of the queue, and neither of these once closed is set and it has returned.
\* Of the other slices it may change rows, but not how many there are.
WriteFrame(c) ==
  /\ UNCHANGED <<closed, chOpen, stop, ticker, closer, closeErr, result, workerPc, waiter>>
  /\ batch' = <<>> <=> batch = <<>>
  /\ closed /\ callPc[c] \in {"new", "done"} =>
       UNCHANGED <<buf, flushCh>> /\ callPc'[c] \in {"new", "done"}
  /\ \/ UNCHANGED flushCh
     \/ \E j \in Jobs : j.waiter \in {c, Nobody} /\ flushCh' = Append(flushCh, j)
  /\ \A d \in Calls \ {c} : callPc'[d] = callPc[d] /\ (detached'[d] = <<>> <=> detached[d] = <<>>)
  /\ detached'[c] # <<>> => callPc'[c] \in {"enqueue", "send", "blocked", "giveBack"}

\* The four appends of a call change no slice of another into an empty one, nor
\* back, and leave the call without a batch when it is done.
LEMMA WriteKeepsEmpty ==
  ASSUME TypeOK, BatchesPlaced, NEW c \in Calls,
         WriteBuffers(c) \/ WriteDetaches(c) \/ EnqueueClosed(c) \/ GiveBack(c)
  PROVE  /\ batch' = <<>> <=> batch = <<>>
         /\ \A d \in Calls \ {c} : detached'[d] = <<>> <=> detached[d] = <<>>
         /\ callPc'[c] \in {"enqueue", "giveBack"} \/ detached'[c] = <<>>
<1> USE DEF Goto, Return
<1>1. /\ RowsOf[c] \in Seq(Rows) /\ buf \in Seq(Rows) /\ Len(buf) \in Nat /\ Len(detached[c]) \in Nat
      /\ DOMAIN callPc = Calls
  BY RowsAssumption, SlicesTyped DEF TypeOK
<1>2. CASE WriteBuffers(c)
  <2>1. PICK x : /\ detached' = DetachedAfter(x, Len(buf), RowsOf[c])
                 /\ batch' = BatchAfter(x, Len(buf), RowsOf[c])
    BY <1>2 DEF WriteBuffers
  <2>2. detached[c] = <<>>
    BY <1>2 DEF WriteBuffers, MayAppend, BatchesPlaced
  <2>3. /\ BatchAfter(x, Len(buf), RowsOf[c]) = <<>> <=> batch = <<>>
        /\ \A d \in Calls : DetachedAfter(x, Len(buf), RowsOf[c])[d] = <<>> <=> detached[d] = <<>>
    BY <1>1, AfterTyped
  <2> QED BY <2>1, <2>2, <2>3
<1>3. CASE WriteDetaches(c)
  <2>1. PICK x : /\ detached' = [DetachedAfter(x, Len(buf), RowsOf[c]) EXCEPT ![c] = buf \o RowsOf[c]]
                 /\ batch' = BatchAfter(x, Len(buf), RowsOf[c])
    BY <1>3 DEF WriteDetaches
  <2>2. callPc'[c] = "enqueue"
    BY <1>1, <1>3 DEF WriteDetaches
  <2>3. /\ BatchAfter(x, Len(buf), RowsOf[c]) = <<>> <=> batch = <<>>
        /\ \A d \in Calls : DetachedAfter(x, Len(buf), RowsOf[c])[d] = <<>> <=> detached[d] = <<>>
    BY <1>1, AfterTyped
  <2>4. \A d \in Calls \ {c} : detached'[d] = DetachedAfter(x, Len(buf), RowsOf[c])[d]
    BY <2>1 DEF DetachedAfter
  <2> QED BY <2>1, <2>2, <2>3, <2>4
<1>4. CASE EnqueueClosed(c)
  <2>1. PICK x : /\ detached' = DetachedAfter(x, Len(detached[c]), buf)
                 /\ batch' = BatchAfter(x, Len(detached[c]), buf)
    BY <1>4 DEF EnqueueClosed
  <2>2. callPc'[c] = "giveBack"
    BY <1>1, <1>4 DEF EnqueueClosed
  <2>3. /\ BatchAfter(x, Len(detached[c]), buf) = <<>> <=> batch = <<>>
        /\ \A d \in Calls : DetachedAfter(x, Len(detached[c]), buf)[d] = <<>> <=> detached[d] = <<>>
    BY <1>1, AfterTyped
  <2> QED BY <2>1, <2>2, <2>3
<1>5. CASE GiveBack(c)
  <2>1. PICK x : /\ detached' = [DetachedAfter(x, Len(detached[c]), buf) EXCEPT ![c] = <<>>]
                 /\ batch' = BatchAfter(x, Len(detached[c]), buf)
    BY <1>5 DEF GiveBack
  <2>2. /\ BatchAfter(x, Len(detached[c]), buf) = <<>> <=> batch = <<>>
        /\ \A d \in Calls : DetachedAfter(x, Len(detached[c]), buf)[d] = <<>> <=> detached[d] = <<>>
    BY <1>1, AfterTyped
  <2>3. \A d \in Calls \ {c} : detached'[d] = DetachedAfter(x, Len(detached[c]), buf)[d]
    BY <2>1 DEF DetachedAfter
  <2>4. detached'[c] = <<>>
    BY <2>1 DEF DetachedAfter
  <2> QED BY <2>1, <2>2, <2>3, <2>4
<1> QED BY <1>2, <1>3, <1>4, <1>5

LEMMA WriteFrames ==
  ASSUME TypeOK, BatchesPlaced, NEW c \in Calls, Write(c)
  PROVE  WriteFrame(c)
<1> USE DEF bufferVars, queueVars, tickerVars, callVars, workerVars, closeVars, serverVars, Goto, Return,
            WriteFrame
<1>1. /\ callPc \in [Calls -> CallStates] /\ detached \in [Calls -> Seq(Rows)]
      /\ detached[c] # <<>> => callPc[c] \in {"enqueue", "send", "blocked", "giveBack"}
  BY DEF TypeOK, BatchesPlaced
<1>2. CASE WriteRefused(c)
  BY <1>1, <1>2 DEF WriteRefused
<1>3. CASE WriteBegin(c)
  BY <1>1, <1>3 DEF WriteBegin
<1>4. CASE WriteBuffers(c)
  BY <1>1, <1>4, WriteKeepsEmpty DEF WriteBuffers, MayAppend
<1>5. CASE WriteDetaches(c)
  BY <1>1, <1>5, WriteKeepsEmpty DEF WriteDetaches, MayAppend
<1>6. CASE WriteRetriesLeftover(c)
  BY <1>1, <1>6 DEF WriteRetriesLeftover
<1>7. CASE RecheckClosed(c)
  BY <1>1, <1>7 DEF RecheckClosed
<1>8. CASE RecheckFull(c)
  BY <1>1, <1>8 DEF RecheckFull
<1>9. CASE EnqueueOpen(c)
  BY <1>1, <1>9 DEF EnqueueOpen
<1>10. CASE EnqueueClosed(c)
  BY <1>1, <1>10, WriteKeepsEmpty DEF EnqueueClosed
<1>11. CASE GiveBack(c)
  BY <1>1, <1>11, WriteKeepsEmpty DEF GiveBack
<1>12. CASE SendBlocks(c)
  BY <1>1, <1>12 DEF SendBlocks
<1>13. CASE SendCancelled(c)
  BY <1>1, <1>13 DEF SendCancelled
<1>14. CASE AwaitDone(c)
  BY <1>1, <1>14 DEF AwaitDone
<1>15. CASE AwaitCancelled(c)
  BY <1>1, <1>15 DEF AwaitCancelled
<1>16. CASE SendBatch(c)
  <2>1. Job("batch", detached[c], Nobody) \in Jobs /\ Job("batch", detached[c], Nobody).waiter = Nobody
    BY <1>1 DEF Job, Jobs, Waiters
  <2> QED BY <1>1, <1>16, <2>1 DEF SendBatch
<1>17. CASE SendLeftover(c)
  <2>1. Job("drain", <<>>, c) \in Jobs /\ Job("drain", <<>>, c).waiter = c
    BY EmptySeq DEF Job, Jobs, Waiters
  <2> QED BY <1>1, <1>17, <2>1 DEF SendLeftover
<1>18. CASE Cancel(c)
  BY <1>1, <1>18 DEF Cancel
<1> QED
  BY <1>2, <1>3, <1>4, <1>5, <1>6, <1>7, <1>8, <1>9, <1>10, <1>11, <1>12, <1>13, <1>14, <1>15, <1>16,
     <1>17, <1>18
  DEF Write, WriteStep, SendStep

\* A job that is appended keeps the others; without room none is (enqueueFlush).
LEMMA AppendedJobs ==
  ASSUME TypeOK, NEW j \in Jobs
  PROVE  /\ DOMAIN flushCh = 1..Len(flushCh) /\ Len(flushCh) \in Nat
         /\ DOMAIN Append(flushCh, j) = 1..(Len(flushCh) + 1)
         /\ Append(flushCh, j) # <<>> /\ Len(Append(flushCh, j)) = Len(flushCh) + 1
         /\ \A i \in DOMAIN flushCh : Append(flushCh, j)[i] = flushCh[i]
         /\ Append(flushCh, j)[Len(flushCh) + 1] = j
<1>1. flushCh \in Seq(Jobs) /\ DOMAIN flushCh = 1..Len(flushCh) /\ Len(flushCh) \in Nat
  BY LenProperties DEF TypeOK
<1>2. /\ Append(flushCh, j) \in Seq(Jobs)
      /\ Append(flushCh, j) # <<>> /\ Len(Append(flushCh, j)) = Len(flushCh) + 1
      /\ \A i \in 1..Len(flushCh) : Append(flushCh, j)[i] = flushCh[i]
      /\ Append(flushCh, j)[Len(flushCh) + 1] = j
  BY <1>1, AppendProperties
<1>3. DOMAIN Append(flushCh, j) = 1..Len(Append(flushCh, j))
  BY <1>2, LenProperties
<1> QED BY <1>1, <1>2, <1>3

\* A call of Write leaves what Close relies on.
LEMMA WriteDrain ==
  ASSUME DrainInv, NEW c \in Calls, Write(c)
  PROVE  Quiesced' /\ BatchesPlaced' /\ OneJob'
<1> USE DEF DrainInv
<1>1. WriteFrame(c)
  BY WriteFrames
<1>2. CASE Draining
  <2>1. callPc[c] \in {"new", "done"} /\ closed
    BY <1>2 DEF Quiesced, Draining, InFlight
  <2>2. UNCHANGED <<buf, flushCh>> /\ callPc'[c] \in {"new", "done"}
    BY <1>1, <2>1 DEF WriteFrame
  <2>3. InFlight' = {}
    BY <1>1, <1>2, <2>2 DEF WriteFrame, Quiesced, InFlight
  <2>4. Quiesced' /\ BatchesPlaced'
    BY <1>1, <2>3 DEF WriteFrame, Quiesced, BatchesPlaced, Draining
  <2>5. OneJob'
    BY <1>1, <2>2 DEF WriteFrame, OneJob, Awaited, NoCloserJob, LastJobIsClosers, Settled
  <2> QED BY <2>4, <2>5
<1>3. CASE ~Draining
  <2>1. Quiesced' /\ BatchesPlaced'
    BY <1>1, <1>3 DEF WriteFrame, Quiesced, BatchesPlaced, Draining
  <2>2. ~closeErr => NoCloserJob
    BY <1>3 DEF OneJob, Awaited, Draining
  <2>3. ~closeErr => NoCloserJob'
    <3>1. CASE UNCHANGED flushCh
      BY <1>1, <2>2, <3>1 DEF WriteFrame, NoCloserJob
    <3>2. ASSUME NEW j \in Jobs, j.waiter \in {c, Nobody}, flushCh' = Append(flushCh, j)
          PROVE  ~closeErr => NoCloserJob'
      <4>1. j.waiter # Closer
        BY <3>2, NamesAssumption DEF Nobody, Closer
      <4> QED BY <1>1, <2>2, <3>2, <4>1, AppendedJobs DEF WriteFrame, NoCloserJob
    <3> QED BY <1>1, <3>1, <3>2 DEF WriteFrame
  <2>4. OneJob'
    BY <1>1, <1>3, <2>3 DEF WriteFrame, OneJob, Awaited, Settled, Draining
  <2> QED BY <2>1, <2>4
<1> QED BY <1>2, <1>3

\* The first job leaves the queue and the others move up (runWorker).
LEMMA TakenJob ==
  ASSUME TypeOK, flushCh # <<>>
  PROVE  /\ DOMAIN flushCh = 1..Len(flushCh) /\ Len(flushCh) \in Nat \ {0}
         /\ Head(flushCh) = flushCh[1]
         /\ DOMAIN Tail(flushCh) = 1..(Len(flushCh) - 1) /\ Len(Tail(flushCh)) = Len(flushCh) - 1
         /\ \A i \in DOMAIN Tail(flushCh) : Tail(flushCh)[i] = flushCh[i + 1]
         /\ Len(flushCh) = 1 <=> Tail(flushCh) = <<>>
<1>1. flushCh \in Seq(Jobs) /\ DOMAIN flushCh = 1..Len(flushCh) /\ Len(flushCh) \in Nat \ {0}
  BY LenProperties, EmptySeq DEF TypeOK
<1>2. /\ Tail(flushCh) \in Seq(Jobs) /\ Len(Tail(flushCh)) = Len(flushCh) - 1
      /\ \A i \in 1..Len(Tail(flushCh)) : Tail(flushCh)[i] = flushCh[i + 1]
  BY <1>1, HeadTailProperties
<1>3. DOMAIN Tail(flushCh) = 1..Len(Tail(flushCh))
  BY <1>2, LenProperties
<1>4. Head(flushCh) = flushCh[1]
  BY <1>1
<1>5. Len(flushCh) = 1 <=> Tail(flushCh) = <<>>
  <2>1. Tail(flushCh) # <<>> => Len(Tail(flushCh)) \in Nat \ {0}
    BY <1>2, EmptySeq
  <2>2. Tail(flushCh) = <<>> => Len(Tail(flushCh)) = 0
    BY EmptySeq
  <2> QED BY <1>1, <1>2, <2>1, <2>2
<1> QED BY <1>1, <1>2, <1>3, <1>4, <1>5

\* What the worker takes is Close's job only when Close waits and nothing is
\* behind it.
LEMMA TakenFromQueue ==
  ASSUME DrainInv, ~closeErr, workerPc = "recv", flushCh # <<>>
  PROVE  /\ waiter # Closer /\ ~Settled
         /\ ~Awaited => /\ Head(flushCh).waiter # Closer
                        /\ \A i \in DOMAIN Tail(flushCh) : Tail(flushCh)[i].waiter # Closer
         /\ Awaited /\ Head(flushCh).waiter = Closer => Tail(flushCh) = <<>>
         /\ Awaited /\ Head(flushCh).waiter # Closer =>
              /\ Tail(flushCh) # <<>>
              /\ \A i \in DOMAIN Tail(flushCh) :
                   Tail(flushCh)[i].waiter = Closer <=> i = Len(Tail(flushCh))
<1> USE DEF DrainInv
<1>1. waiter # Closer
  BY DEF BatchesPlaced, Nobody, Closer
<1>2. ~Settled
  BY DEF OneJob
<1>3. CASE ~Awaited
  BY <1>1, <1>2, <1>3, TakenJob DEF OneJob, NoCloserJob
<1>4. CASE Awaited
  <2>1. \A i \in DOMAIN flushCh : flushCh[i].waiter = Closer <=> i = Len(flushCh)
    BY <1>1, <1>4 DEF OneJob, LastJobIsClosers
  <2> QED BY <1>1, <1>2, <1>4, <2>1, TakenJob
<1> QED BY <1>3, <1>4

\* The worker changes no detached batch into an empty one, nor back.
LEMMA WorkerKeepsEmpty ==
  ASSUME TypeOK, Worker
  PROVE  \A c \in Calls : detached'[c] = <<>> <=> detached[c] = <<>>
<1>1. CASE UNCHANGED detached
  BY <1>1
<1>2. CASE Fails
  <2>1. PICK x : detached' = DetachedAfter(x, Len(batch), buf)
    BY <1>2 DEF Fails
  <2>2. buf \in Seq(Rows) /\ Len(batch) \in Nat
    BY SlicesTyped DEF TypeOK
  <2> QED BY <2>1, <2>2, AfterTyped
<1> QED
  BY <1>1, <1>2
  DEF Worker, WorkerTakesBatch, WorkerTakesDrain, WorkerTakesIdle, WorkerFetches,
      WorkerFindsNothing, WorkerAddsColumns, AddColumnsFails, WorkerInserts, InsertFails, WorkerExits,
      callVars

\* The worker leaves what Close relies on, and answers Close when its job is done.
LEMMA WorkerDrain ==
  ASSUME DrainInv, Worker
  PROVE  Quiesced' /\ BatchesPlaced' /\ OneJob'
<1> USE DEF DrainInv, bufferVars, queueVars, tickerVars, callVars, workerVars, closeVars, serverVars
<1>1. /\ UNCHANGED <<closed, chOpen, stop, ticker, closer, closeErr, callPc>>
      /\ \A c \in Calls : detached'[c] = <<>> <=> detached[c] = <<>>
  BY WorkerKeepsEmpty
  DEF Worker, WorkerTakesBatch, WorkerTakesDrain, WorkerTakesIdle, WorkerFetches,
      WorkerFindsNothing, WorkerAddsColumns, AddColumnsFails, WorkerInserts, InsertFails, WorkerExits
<1>2. Quiesced'
  BY <1>1 DEF Quiesced, Draining, InFlight
<1>3. CASE WorkerTakesBatch \/ WorkerTakesDrain
  <2>1. /\ workerPc = "recv" /\ flushCh # <<>> /\ flushCh' = Tail(flushCh)
        /\ workerPc' \in {"columns", "fetch"} /\ waiter' = Head(flushCh).waiter
        /\ UNCHANGED <<buf, result>>
        /\ workerPc' = "fetch" => batch' = batch
    BY <1>3 DEF WorkerTakesBatch, WorkerTakesDrain
  <2>2. BatchesPlaced'
    BY <1>1, <2>1 DEF BatchesPlaced
  <2>3. ASSUME ~closeErr
        PROVE  /\ ~Settled /\ Awaited' = Awaited /\ Settled' = Settled
               /\ ~Awaited => NoCloserJob'
               /\ Awaited => LastJobIsClosers'
    <3>1. Awaited' = Awaited /\ Settled' = Settled
      BY <1>1, <2>1 DEF Awaited, Settled
    <3> QED BY <2>1, <2>3, <3>1, TakenFromQueue DEF NoCloserJob, LastJobIsClosers
  <2>4. OneJob'
    BY <1>1, <2>1, <2>3 DEF OneJob
  <2> QED BY <1>2, <2>2, <2>4
<1>4. CASE WorkerTakesIdle
  <2>1. /\ workerPc = "recv" /\ flushCh # <<>> /\ flushCh' = Tail(flushCh)
        /\ UNCHANGED <<buf, workerPc, batch, waiter>> /\ Answer(Head(flushCh).waiter, "ok")
    BY <1>4 DEF WorkerTakesIdle
  <2>2. BatchesPlaced'
    BY <1>1, <2>1 DEF BatchesPlaced
  <2>3. Head(flushCh).waiter = Closer => result'[Closer] = "ok"
    BY <2>1 DEF Answer, TypeOK, Closer, Nobody
  <2>4. Head(flushCh).waiter # Closer => result'[Closer] = result[Closer]
    BY <2>1 DEF Answer, TypeOK
  <2>5. ASSUME ~closeErr
        PROVE  /\ ~Awaited' => NoCloserJob'
               /\ Awaited' => LastJobIsClosers'
               /\ Settled' => flushCh' = <<>>
    <3>1. CASE Head(flushCh).waiter = Closer
      <4>1. Awaited /\ ~Awaited' /\ Tail(flushCh) = <<>> /\ waiter # Closer
        BY <1>1, <2>1, <2>3, <2>5, <3>1, TakenFromQueue DEF Awaited
      <4> QED BY <2>1, <4>1 DEF NoCloserJob
    <3>2. CASE Head(flushCh).waiter # Closer
      <4>1. Awaited' = Awaited /\ Settled' = Settled
        BY <1>1, <2>4, <3>2 DEF Awaited, Settled
      <4> QED BY <2>1, <2>5, <3>2, <4>1, TakenFromQueue DEF NoCloserJob, LastJobIsClosers
    <3> QED BY <3>1, <3>2
  <2>6. OneJob'
    BY <1>1, <2>1, <2>5 DEF OneJob
  <2> QED BY <1>2, <2>2, <2>6
<1>5. CASE WorkerFetches \/ WorkerAddsColumns
  <2>1. /\ workerPc \notin {"recv", "exit"} /\ workerPc' \in {"columns", "insert"}
        /\ UNCHANGED <<flushCh, result, waiter>> /\ buf' \in {buf, <<>>}
    BY <1>5 DEF WorkerFetches, WorkerAddsColumns
  <2>2. BatchesPlaced'
    BY <1>1, <2>1 DEF BatchesPlaced
  <2>3. Awaited' = Awaited /\ Settled' = Settled /\ NoCloserJob' = NoCloserJob
          /\ LastJobIsClosers' = LastJobIsClosers
    BY <1>1, <2>1 DEF Awaited, Settled, NoCloserJob, LastJobIsClosers
  <2>4. OneJob'
    BY <1>1, <2>1, <2>3 DEF OneJob
  <2> QED BY <1>2, <2>2, <2>4
<1>6. CASE WorkerFindsNothing \/ AddColumnsFails \/ WorkerInserts \/ InsertFails
  <2>1. PICK value \in {"ok", "failed"} : Complete(value)
    BY <1>6 DEF WorkerFindsNothing, AddColumnsFails, WorkerInserts, InsertFails, Fails
  <2>2. workerPc \notin {"recv", "exit"} /\ UNCHANGED flushCh
    BY <1>6 DEF WorkerFindsNothing, AddColumnsFails, WorkerInserts, InsertFails
  <2>3. workerPc' = "recv" /\ batch' = <<>> /\ waiter' = Nobody /\ Answer(waiter, value)
    BY <2>1 DEF Complete
  <2>4. BatchesPlaced'
    BY <1>1, <2>3 DEF BatchesPlaced
  <2>5. waiter = Closer => result'[Closer] = value
    BY <2>3 DEF Answer, TypeOK, Closer, Nobody
  <2>6. waiter # Closer => result'[Closer] = result[Closer]
    BY <2>3 DEF Answer, TypeOK
  <2>7. ASSUME ~closeErr
        PROVE  /\ ~Settled
               /\ ~Awaited' => NoCloserJob'
               /\ Awaited' => LastJobIsClosers'
               /\ Settled' => flushCh' = <<>>
    <3>1. ~Settled
      BY <2>2, <2>7 DEF OneJob
    <3>2. CASE waiter = Closer
      <4>1. Awaited /\ flushCh = <<>> /\ ~Awaited'
        BY <1>1, <2>5, <2>7, <3>2 DEF OneJob, NoCloserJob, LastJobIsClosers, Awaited
      <4> QED BY <2>2, <2>3, <3>1, <4>1 DEF NoCloserJob, Nobody, Closer
    <3>3. CASE waiter # Closer
      <4>1. Awaited' = Awaited /\ Settled' = Settled
        BY <1>1, <2>6, <3>3 DEF Awaited, Settled
      <4> QED
        BY <2>2, <2>3, <2>7, <3>1, <3>3, <4>1
        DEF OneJob, NoCloserJob, LastJobIsClosers, Nobody, Closer
    <3> QED BY <3>2, <3>3
  <2>8. closer \in {"channel", "worker", "done"} => Settled
    BY DEF Settled, Awaited
  <2>9. OneJob'
    BY <1>1, <2>3, <2>7, <2>8 DEF OneJob
  <2> QED BY <1>2, <2>4, <2>9
<1>7. CASE WorkerExits
  <2>1. /\ workerPc = "recv" /\ workerPc' = "exit"
        /\ UNCHANGED <<flushCh, result, waiter, buf, batch>>
    BY <1>7 DEF WorkerExits
  <2>2. BatchesPlaced'
    BY <1>1, <2>1 DEF BatchesPlaced
  <2>3. Awaited' = Awaited /\ Settled' = Settled /\ NoCloserJob' = NoCloserJob
          /\ LastJobIsClosers' = LastJobIsClosers
    BY <1>1, <2>1 DEF Awaited, Settled, NoCloserJob, LastJobIsClosers
  <2>4. OneJob'
    BY <1>1, <2>1, <2>3 DEF OneJob
  <2> QED BY <1>2, <2>2, <2>4
<1> QED BY <1>3, <1>4, <1>5, <1>6, <1>7 DEF Worker

\* Start, the ticker and a send on a closed channel.
LEMMA TickerDrain ==
  ASSUME DrainInv, Start \/ Ticker \/ Panics
  PROVE  Quiesced' /\ BatchesPlaced' /\ OneJob'
<1> USE DEF DrainInv, bufferVars, queueVars, tickerVars, callVars, workerVars, closeVars, serverVars
<1>1. UNCHANGED <<buf, closed, chOpen, callPc, detached, result, workerPc, batch, waiter, closer, closeErr>>
  BY DEF Start, Ticker, TickerFires, TickerSends, TickerSkips, TickerStops, Panics
<1>2. BatchesPlaced'
  BY <1>1 DEF BatchesPlaced
<1>3. Quiesced'
  <2>1. /\ (stop = "nil" => ticker = "off") => (stop' = "nil" => ticker' = "off")
        /\ closed /\ ticker = "off" => ticker' = "off"
    BY DEF Start, Ticker, TickerFires, TickerSends, TickerSkips, TickerStops, Panics
  <2> QED BY <1>1, <2>1 DEF Quiesced, Draining, InFlight
<1>4. CASE UNCHANGED flushCh
  BY <1>1, <1>2, <1>3, <1>4 DEF OneJob, Awaited, Settled, NoCloserJob, LastJobIsClosers
<1>5. CASE TickerSends
  <2>1. Job("drain", <<>>, Nobody) \in Jobs /\ Job("drain", <<>>, Nobody).waiter # Closer
    BY EmptySeq DEF Job, Jobs, Waiters, Nobody, Closer
  <2>2. ~closeErr => closer \in {"new", "ticker"}
    BY <1>5 DEF TickerSends, Quiesced
  <2>3. ~closeErr => ~Awaited /\ ~Settled /\ NoCloserJob
    BY <2>2 DEF OneJob, Awaited, Settled
  <2>4. ~closeErr => NoCloserJob'
    BY <1>1, <1>5, <2>1, <2>3, AppendedJobs DEF TickerSends, NoCloserJob
  <2> QED BY <1>1, <1>2, <1>3, <2>2, <2>4 DEF OneJob, Awaited, Settled
<1> QED
  BY <1>4, <1>5 DEF Start, Ticker, TickerFires, TickerSkips, TickerStops, Panics

\* Close queues its job behind all others and its wait begins (sync, Close).
LEMMA CloseQueues ==
  ASSUME DrainInv, ~closeErr, ~Awaited, NEW j \in Jobs, j.waiter = Closer,
         flushCh' = Append(flushCh, j), waiter' = waiter
  PROVE  LastJobIsClosers'
<1> USE DEF DrainInv
<1>1. NoCloserJob
  BY DEF OneJob
<1> QED BY <1>1, AppendedJobs DEF NoCloserJob, LastJobIsClosers

\* The steps of Close itself.
LEMMA CloseDrain ==
  ASSUME DrainInv, CloseBegin \/ CloseStep \/ CloseSend
  PROVE  Quiesced' /\ BatchesPlaced' /\ OneJob'
<1> USE DEF DrainInv, bufferVars, queueVars, tickerVars, callVars, workerVars, closeVars, serverVars
<1>1. UNCHANGED <<buf, callPc, detached, ticker, workerPc, batch, waiter>>
  BY DEF CloseBegin, CloseStep, CloseTickerDone, CloseGivesUp, CloseWritersDone, CloseSynced,
         CloseDrained, CloseDrainFails, CloseChannel, CloseEnd, CloseSend, CloseSyncs, CloseDrains
<1>2. BatchesPlaced'
  BY <1>1 DEF BatchesPlaced
<1>3. InFlight' = InFlight
  BY <1>1 DEF InFlight
<1>4. CASE CloseBegin \/ CloseTickerDone \/ CloseGivesUp \/ CloseWritersDone
  <2>1. /\ closer \in {"new", "ticker", "writers"} /\ closer' \in {"ticker", "writers", "sync"}
        /\ UNCHANGED <<chOpen, flushCh, result>> /\ (~closeErr' => ~closeErr)
    BY <1>4 DEF CloseBegin, CloseTickerDone, CloseGivesUp, CloseWritersDone
  <2>2. Quiesced'
    BY <1>1, <1>3, <1>4, <2>1
    DEF CloseBegin, CloseTickerDone, CloseGivesUp, CloseWritersDone, Quiesced, Draining, TypeOK
  <2>3. OneJob'
    BY <1>1, <2>1 DEF OneJob, Awaited, Settled, NoCloserJob
  <2> QED BY <1>2, <2>2, <2>3
<1>5. CASE CloseSyncs \/ CloseDrains
  <2>1. PICK j \in Jobs : j.waiter = Closer /\ flushCh' = Append(flushCh, j)
    <3>1. Job("idle", <<>>, Closer) \in Jobs /\ Job("idle", <<>>, Closer).waiter = Closer
      BY EmptySeq DEF Job, Jobs, Waiters
    <3>2. Job("drain", <<>>, Closer) \in Jobs /\ Job("drain", <<>>, Closer).waiter = Closer
      BY EmptySeq DEF Job, Jobs, Waiters
    <3> QED BY <1>5, <3>1, <3>2 DEF CloseSyncs, CloseDrains
  <2>2. /\ closer \in {"sync", "drain"} /\ closer' \in {"syncWait", "drainWait"}
        /\ result'[Closer] = "none"
        /\ UNCHANGED <<closed, chOpen, stop, closeErr>>
    BY <1>5 DEF CloseSyncs, CloseDrains, TypeOK
  <2>3. Quiesced'
    BY <1>1, <1>3, <2>2 DEF Quiesced, Draining
  <2>4. Awaited' /\ ~Awaited /\ ~Settled'
    BY <2>2 DEF Awaited, Settled
  <2>5. ~closeErr => LastJobIsClosers'
    BY <1>1, <2>1, <2>4, CloseQueues
  <2>6. OneJob'
    BY <2>2, <2>4, <2>5 DEF OneJob
  <2> QED BY <1>2, <2>3, <2>6
<1>6. CASE CloseSynced \/ CloseDrained \/ CloseDrainFails \/ CloseChannel \/ CloseEnd
  <2>1. /\ closer \in {"syncWait", "drainWait", "channel", "worker"} /\ ~Awaited
        /\ closer' \in {"sync", "drain", "channel", "worker", "done"}
        /\ UNCHANGED <<closed, stop, flushCh, result>> /\ (~closeErr' => ~closeErr)
        /\ chOpen' = (closer' \notin {"worker", "done"})
    BY <1>6
    DEF CloseSynced, CloseDrained, CloseDrainFails, CloseChannel, CloseEnd, Awaited, Quiesced, TypeOK
  <2>2. Quiesced'
    BY <1>1, <1>3, <2>1 DEF Quiesced, Draining
  <2>3. ~closeErr' /\ closer' \in {"channel", "worker", "done"} => buf' = <<>>
    BY <1>1, <1>6, <2>1
    DEF CloseSynced, CloseDrained, CloseDrainFails, CloseChannel, CloseEnd, OneJob
  <2>4. Settled /\ ~Awaited' /\ (NoCloserJob' <=> NoCloserJob)
    BY <1>1, <2>1 DEF Settled, Awaited, NoCloserJob
  <2>5. OneJob'
    BY <1>1, <2>1, <2>3, <2>4 DEF OneJob
  <2> QED BY <1>2, <2>2, <2>5
<1> QED BY <1>4, <1>5, <1>6 DEF CloseStep, CloseSend

\* The inductive invariant: the types, who may still send on the queue at each
\* point of Close, where batches are, and the one job Close waits for.
THEOREM WriterInvariant == Spec => []DrainInv
<1>1. Init => DrainInv
  BY InitTyped, InitDrain DEF DrainInv
<1>2. ASSUME DrainInv, [Next]_vars
      PROVE  DrainInv'
  <2>1. TypeOK
    BY <1>2 DEF DrainInv
  <2>2. CASE UNCHANGED vars
    <3>1. TypeOK'
      BY <2>1, <2>2
      DEF TypeOK, vars, bufferVars, queueVars, tickerVars, callVars, workerVars, closeVars, serverVars
    <3>2. Quiesced' /\ BatchesPlaced' /\ OneJob'
      BY <1>2, <2>2
      DEF DrainInv, vars, bufferVars, queueVars, tickerVars, callVars, workerVars, closeVars, serverVars,
          Quiesced, Draining, InFlight, BatchesPlaced, OneJob, Awaited, Settled, NoCloserJob,
          LastJobIsClosers
    <3> QED BY <3>1, <3>2 DEF DrainInv
  <2>3. CASE \E c \in Calls : Write(c)
    BY <1>2, <2>1, <2>3, WriteTyped, WriteDrain DEF DrainInv
  <2>4. CASE Worker
    BY <1>2, <2>1, <2>4, WorkerTyped, WorkerDrain DEF DrainInv
  <2>5. CASE Start \/ Ticker \/ Panics
    BY <1>2, <2>1, <2>5, CloseTyped, TickerDrain DEF DrainInv
  <2>6. CASE CloseBegin \/ CloseStep \/ CloseSend
    BY <1>2, <2>1, <2>6, CloseTyped, CloseDrain DEF DrainInv
  <2> QED BY <1>2, <2>2, <2>3, <2>4, <2>5, <2>6 DEF Next, Terminated
<1> QED BY <1>1, <1>2, PTL DEF Spec

\* A Close that returns nil left no row in memory: not in the buffer, the queue
\* or the worker, and not with a Write that was running when it began, whatever
\* failed and was put back meanwhile.
THEOREM NilMeansDrained == Spec => []CloseNilMeansDrained
<1>1. DrainInv => CloseNilMeansDrained
  <2> SUFFICES ASSUME DrainInv, closer = "done", ~closeErr
               PROVE  HeldRows = {}
    BY DEF CloseNilMeansDrained
  <2>1. Settled /\ buf = <<>> /\ flushCh = <<>> /\ workerPc \in {"recv", "exit"}
    BY DEF DrainInv, OneJob, Settled, Awaited
  <2>2. batch = <<>>
    BY <2>1 DEF DrainInv, BatchesPlaced
  <2>3. \A c \in Calls : detached[c] = <<>>
    BY DEF DrainInv, BatchesPlaced, Quiesced, Draining, InFlight
  <2>4. Range(<<>>) = {}
    BY DEF Range
  <2> QED BY <2>1, <2>2, <2>3, <2>4 DEF HeldRows
<1> QED BY <1>1, WriterInvariant, PTL

\* When Close waits for the ticker, and its ctx cannot end that wait, nobody
\* sends on the closed channel, whatever else is cancelled or fails.
THEOREM NothingPanics ==
  ASSUME ~CloseCancellable
  PROVE  Spec => []NeverPanics
<1>1. Init => NeverPanics
  BY DEF Init, NeverPanics
<1>2. ASSUME DrainInv, NeverPanics, [Next]_vars
      PROVE  NeverPanics'
  <2>1. ~Panics
    <3> SUFFICES ASSUME ~chOpen PROVE ticker # "send" /\ InFlight = {}
      BY DEF Panics, InFlight
    <3> QED BY <1>2 DEF DrainInv, Quiesced, Draining
  <2>2. CASE UNCHANGED vars
    BY <1>2, <2>2 DEF NeverPanics, vars
  <2>3. CASE \E c \in Calls : Write(c)
    BY <1>2, <2>3
    DEF NeverPanics, Write, WriteRefused, WriteBegin, WriteStep, WriteBuffers, WriteDetaches,
        WriteRetriesLeftover, RecheckClosed, RecheckFull, EnqueueOpen, EnqueueClosed, GiveBack,
        SendBlocks, SendCancelled, AwaitDone, AwaitCancelled, SendStep, SendBatch, SendLeftover, Cancel
  <2>4. CASE Worker
    BY <1>2, <2>4
    DEF NeverPanics, Worker, WorkerTakesBatch, WorkerTakesDrain, WorkerTakesIdle, WorkerFetches,
        WorkerFindsNothing, WorkerAddsColumns, AddColumnsFails, WorkerInserts, InsertFails, WorkerExits
  <2>5. CASE Start \/ Ticker
    BY <1>2, <2>5 DEF NeverPanics, Start, Ticker, TickerFires, TickerSends, TickerSkips, TickerStops
  <2>6. CASE CloseBegin \/ CloseStep \/ CloseSend
    BY <1>2, <2>6
    DEF NeverPanics, CloseBegin, CloseStep, CloseTickerDone, CloseGivesUp, CloseWritersDone,
        CloseSynced, CloseDrained, CloseDrainFails, CloseChannel, CloseEnd, CloseSend, CloseSyncs,
        CloseDrains
  <2> QED BY <1>2, <2>1, <2>2, <2>3, <2>4, <2>5, <2>6 DEF Next, Terminated
<1> QED BY <1>1, <1>2, WriterInvariant, PTL DEF Spec

-----------------------------------------------------------------------------
\* A call changes the batch of the worker only on a shared array.
LEMMA WriteKeepsOwnBatch ==
  ASSUME TypeOK, NEW c \in Calls, Write(c)
  PROVE  /\ shares'[InWorker] = shares[InWorker]
         /\ shares[InWorker] = Own => batch' = batch
<1>1. CASE UNCHANGED <<shares, batch>>
  BY <1>1
<1>2. ASSUME NEW x, NEW n, NEW rows, NEW y, NEW z,
             batch' = BatchAfter(x, n, rows), shares' = [shares EXCEPT ![Buffer] = y, ![c] = z]
      PROVE  /\ shares'[InWorker] = shares[InWorker]
             /\ shares[InWorker] = Own => batch' = batch
  <2>1. InWorker \in DOMAIN shares /\ InWorker # Buffer /\ InWorker # c
    BY SlicesTyped, NamesAssumption
  <2>2. shares[InWorker] = Own => BatchAfter(x, n, rows) = batch
    BY DEF BatchAfter, Seen
  <2> QED BY <1>2, <2>1, <2>2
<1>3. ASSUME NEW x, NEW n, NEW rows, NEW y,
             batch' = BatchAfter(x, n, rows), shares' = [shares EXCEPT ![Buffer] = y]
      PROVE  /\ shares'[InWorker] = shares[InWorker]
             /\ shares[InWorker] = Own => batch' = batch
  <2>1. InWorker \in DOMAIN shares /\ InWorker # Buffer
    BY SlicesTyped
  <2>2. shares[InWorker] = Own => BatchAfter(x, n, rows) = batch
    BY DEF BatchAfter, Seen
  <2> QED BY <1>3, <2>1, <2>2
<1>4. CASE WriteBuffers(c)
  BY <1>3, <1>4 DEF WriteBuffers
<1>5. CASE WriteDetaches(c)
  <2>1. PICK x : /\ shares' = [shares EXCEPT ![c] = x, ![Buffer] = Own]
                 /\ batch' = BatchAfter(x, Len(buf), RowsOf[c])
    BY <1>5 DEF WriteDetaches
  <2>2. shares' = [shares EXCEPT ![Buffer] = Own, ![c] = x]
    BY <2>1, NamesAssumption
  <2> QED BY <1>2, <2>1, <2>2
<1>6. CASE EnqueueClosed(c)
  <2>1. PICK x : /\ shares' = [shares EXCEPT ![Buffer] = x, ![c] = IF x = Own THEN @ ELSE x]
                 /\ batch' = BatchAfter(x, Len(detached[c]), buf)
    BY <1>6 DEF EnqueueClosed
  <2>2. shares' = [shares EXCEPT ![Buffer] = x, ![c] = IF x = Own THEN shares[c] ELSE x]
    BY <2>1, NamesAssumption
  <2> QED BY <1>2, <2>1, <2>2
<1>7. CASE GiveBack(c)
  BY <1>2, <1>7 DEF GiveBack
<1> QED
  BY <1>1, <1>4, <1>5, <1>6, <1>7
  DEF Write, WriteRefused, WriteBegin, WriteStep, WriteRetriesLeftover, RecheckClosed, RecheckFull,
      EnqueueOpen, SendBlocks, SendCancelled, AwaitDone, AwaitCancelled, SendStep, SendBatch,
      SendLeftover, Cancel, bufferVars, workerVars

\* Only the worker changes the table and what is known of it.
LEMMA ColumnsStep ==
  ASSUME TypeOK, KeysReady, [Next]_vars
  PROVE  KeysReady'
<1> USE DEF bufferVars, queueVars, tickerVars, callVars, workerVars, closeVars, serverVars
<1>1. CASE UNCHANGED <<known, columns, workerPc, batch, shares>>
  BY <1>1 DEF KeysReady
<1>2. CASE /\ UNCHANGED known /\ columns \subseteq columns' /\ workerPc' # "insert"
  BY <1>2 DEF KeysReady
<1>3. CASE WorkerTakesBatch \/ WorkerTakesDrain \/ WorkerFetches \/ WorkerFindsNothing
             \/ AddColumnsFails \/ WorkerInserts \/ InsertFails \/ WorkerExits
  BY <1>2, <1>3
  DEF WorkerTakesBatch, WorkerTakesDrain, WorkerFetches, WorkerFindsNothing, AddColumnsFails,
      WorkerInserts, InsertFails, WorkerExits, Fails, Complete
<1>4. CASE WorkerAddsColumns
  <2>1. /\ columns' = columns \cup newKeys /\ known' = known \cup newKeys
        /\ UNCHANGED batch
    BY <1>4 DEF WorkerAddsColumns
  <2>2. \A r \in Range(batch) : KeysOf[r] \subseteq known'
    <3> SUFFICES ASSUME NEW r \in Range(batch), NEW k \in KeysOf[r] PROVE k \in known'
      OBVIOUS
    <3>1. k \in UNION {KeysOf[q] : q \in Range(batch)}
      OBVIOUS
    <3>2. k \in known \/ k \in newKeys
      BY <3>1 DEF newKeys
    <3> QED BY <2>1, <3>2
  <2> QED BY <2>1, <2>2 DEF KeysReady
<1>5. CASE WorkerTakesIdle
  BY <1>1, <1>5 DEF WorkerTakesIdle
<1>6. ASSUME NEW c \in Calls, Write(c) PROVE KeysReady'
  <2>1. UNCHANGED <<known, columns, workerPc>>
    BY <1>6
    DEF Write, WriteRefused, WriteBegin, WriteStep, WriteBuffers, WriteDetaches,
        WriteRetriesLeftover, RecheckClosed, RecheckFull, EnqueueOpen, EnqueueClosed, GiveBack,
        SendBlocks, SendCancelled, AwaitDone, AwaitCancelled, SendStep, SendBatch, SendLeftover, Cancel
  <2> QED BY <1>6, <2>1, WriteKeepsOwnBatch DEF KeysReady
<1>7. CASE Start \/ Ticker \/ Panics
  BY <1>1, <1>7 DEF Start, Ticker, TickerFires, TickerSends, TickerSkips, TickerStops, Panics
<1>8. CASE CloseBegin \/ CloseStep \/ CloseSend
  BY <1>1, <1>8
  DEF CloseBegin, CloseStep, CloseTickerDone, CloseGivesUp, CloseWritersDone,
      CloseSynced, CloseDrained, CloseDrainFails, CloseChannel, CloseEnd, CloseSend, CloseSyncs,
      CloseDrains
<1>9. CASE UNCHANGED vars
  BY <1>1, <1>9 DEF vars
<1> QED
  BY <1>3, <1>4, <1>5, <1>6, <1>7, <1>8, <1>9 DEF Next, Worker, Terminated

\* Only an insertion changes the table.
LEMMA StoredStep ==
  ASSUME [Next]_vars
  PROVE  UNCHANGED stored \/ (workerPc = "insert" /\ stored' = Inserted /\ (WorkerInserts \/ LosesReplies))
<1> USE DEF serverVars
<1>1. ASSUME NEW c \in Calls, Write(c) PROVE UNCHANGED stored
  BY <1>1
  DEF Write, WriteRefused, WriteBegin, WriteStep, WriteBuffers, WriteDetaches,
      WriteRetriesLeftover, RecheckClosed, RecheckFull, EnqueueOpen, EnqueueClosed, GiveBack,
      SendBlocks, SendCancelled, AwaitDone, AwaitCancelled, SendStep, SendBatch, SendLeftover, Cancel
<1>2. CASE Worker
  BY <1>2
  DEF Worker, WorkerTakesBatch, WorkerTakesDrain, WorkerTakesIdle, WorkerFetches,
      WorkerFindsNothing, WorkerAddsColumns, AddColumnsFails, WorkerInserts, InsertFails, WorkerExits
<1>3. CASE Start \/ Ticker \/ CloseBegin \/ CloseStep \/ CloseSend \/ Panics
  BY <1>3
  DEF Start, Ticker, TickerFires, TickerSends, TickerSkips, TickerStops, Panics,
      CloseBegin, CloseStep, CloseTickerDone, CloseGivesUp, CloseWritersDone, CloseSynced,
      CloseDrained, CloseDrainFails, CloseChannel, CloseEnd, CloseSend, CloseSyncs, CloseDrains
<1>4. CASE UNCHANGED vars
  BY <1>4 DEF vars
<1> QED BY <1>1, <1>2, <1>3, <1>4 DEF Next, Terminated

\* What an insertion adds is in the batch (InsertBatch).
LEMMA InsertedFromBatch ==
  ASSUME TypeOK, NEW r \in Rows, Inserted[r] > stored[r]
  PROVE  r \in Range(batch)
<1> SUFFICES ASSUME r \notin Range(batch) PROVE FALSE
  OBVIOUS
<1>1. {i \in DOMAIN batch : batch[i] = r} = {}
  BY DEF Range
<1>2. Cardinality({i \in DOMAIN batch : batch[i] = r}) = 0
  BY <1>1, FS_EmptySet
<1>3. stored[r] \in Nat /\ Inserted[r] = stored[r] + 0
  BY <1>2 DEF Inserted, TypeOK
<1> QED BY <1>3

\* A row is inserted only after the column of each of its keys exists, through
\* any failure and retry, unless its batch is on an array that is shared.
THEOREM ColumnsFirst == Spec => ColumnsBeforeRows
<1>1. Init => KeysReady
  BY DEF Init, KeysReady
<1>2. TypeOK /\ KeysReady /\ [Next]_vars => KeysReady'
  BY ColumnsStep
<1>3. ASSUME TypeOK, KeysReady, [Next]_vars, NEW r \in Rows, stored'[r] > stored[r], shares[InWorker] = Own
      PROVE  KeysOf[r] \subseteq columns
  <2>1. stored[r] \in Nat
    BY <1>3 DEF TypeOK
  <2>2. workerPc = "insert" /\ stored' = Inserted
    BY <1>3, <2>1, StoredStep
  <2>3. r \in Range(batch)
    BY <1>3, <2>2, InsertedFromBatch
  <2> QED BY <1>3, <2>2, <2>3 DEF KeysReady
<1>4. TypeOK /\ KeysReady /\ [Next]_vars
        => [ \A r \in Rows :
               stored'[r] > stored[r] /\ shares[InWorker] = Own => KeysOf[r] \subseteq columns ]_vars
  BY <1>3
<1> QED BY <1>1, <1>2, <1>4, TypeCorrect, PTL DEF Spec, ColumnsBeforeRows

(***************************************************************************)
(* What an append writes over.                                             *)
(***************************************************************************)

\* An array has the name of a call whose batch enqueueFlush gave back.
Named == \A h \in Holders, c \in Calls : shares[h] = c => callPc[c] \in {"giveBack", "done"}

\* Whoever is on an array after a step was on one before, or is the call that
\* gives its batch back for the first time.
LEMMA SharesStep ==
  ASSUME TypeOK, [Next]_vars, NEW h \in Holders, shares'[h] # Own
  PROVE  \/ \E g \in Holders : shares'[h] = shares[g]
         \/ shares'[h] \in Calls /\ EnqueueClosed(shares'[h])
<1> USE DEF bufferVars
<1>1. CASE UNCHANGED shares
  BY <1>1
<1>2. ASSUME NEW g \in Holders, NEW rows, NEW x \in AppendsTo(shares[g], rows),
             NEW k \in Holders,
             \/ shares' = [shares EXCEPT ![Buffer] = x]
             \/ shares' = [shares EXCEPT ![k] = x, ![Buffer] = Own]
             \/ shares' = [shares EXCEPT ![Buffer] = x, ![k] = Own]
      PROVE  \E f \in Holders : shares'[h] = shares[f]
  <2>1. DOMAIN shares = Holders /\ Buffer \in Holders /\ x \in {shares[g], Own}
    BY <1>2, SlicesTyped DEF AppendsTo
  <2>2. shares'[h] \in {x, Own, shares[h]}
    BY <1>2, <2>1
  <2> QED BY <2>1, <2>2
<1>3. ASSUME NEW c \in Calls, WriteBuffers(c) \/ WriteDetaches(c) \/ GiveBack(c)
      PROVE  \E g \in Holders : shares'[h] = shares[g]
  <2>1. c \in Holders /\ Buffer \in Holders
    BY SlicesTyped
  <2>2. CASE WriteBuffers(c)
    BY <1>2, <2>1, <2>2 DEF WriteBuffers
  <2>3. CASE WriteDetaches(c)
    BY <1>2, <2>1, <2>3 DEF WriteDetaches
  <2>4. CASE GiveBack(c)
    BY <1>2, <2>1, <2>4 DEF GiveBack
  <2> QED BY <1>3, <2>2, <2>3, <2>4
<1>4. ASSUME NEW c \in Calls, EnqueueClosed(c)
      PROVE  shares'[h] = c \/ \E g \in Holders : shares'[h] = shares[g]
  <2>1. PICK x \in AppendsTo(IF shares[c] = Own THEN c ELSE shares[c], buf) :
          shares' = [shares EXCEPT ![Buffer] = x, ![c] = IF x = Own THEN @ ELSE x]
    BY <1>4 DEF EnqueueClosed
  <2>2. DOMAIN shares = Holders /\ c \in Holders /\ x \in {c, shares[c], Own}
    BY <2>1, SlicesTyped DEF AppendsTo
  <2>3. shares'[h] \in {x, shares[c], shares[h]}
    BY <2>1, <2>2, NamesAssumption
  <2> QED BY <2>2, <2>3
<1>5. ASSUME Fails PROVE \E g \in Holders : shares'[h] = shares[g]
  BY <1>2, <1>5, SlicesTyped DEF Fails
<1>6. CASE WorkerFetches \/ WorkerInserts
  BY <1>6, SlicesTyped DEF WorkerFetches, WorkerInserts
<1>7. ASSUME NEW c \in Calls, Write(c)
      PROVE  \/ \E g \in Holders : shares'[h] = shares[g]
             \/ shares'[h] = c /\ EnqueueClosed(c)
  BY <1>1, <1>3, <1>4, <1>7
  DEF Write, WriteRefused, WriteBegin, WriteStep, WriteRetriesLeftover, RecheckClosed, RecheckFull,
      EnqueueOpen, SendBlocks, SendCancelled, AwaitDone, AwaitCancelled, SendStep, SendBatch,
      SendLeftover, Cancel
<1>8. CASE Worker
  BY <1>1, <1>5, <1>6, <1>8
  DEF Worker, WorkerTakesBatch, WorkerTakesDrain, WorkerTakesIdle, WorkerFindsNothing, WorkerAddsColumns,
      AddColumnsFails, InsertFails, WorkerExits
<1>9. CASE Start \/ Ticker \/ CloseBegin \/ CloseStep \/ CloseSend \/ Panics
  BY <1>1, <1>9
  DEF Start, Ticker, TickerFires, TickerSends, TickerSkips, TickerStops, Panics,
      CloseBegin, CloseStep, CloseTickerDone, CloseGivesUp, CloseWritersDone, CloseSynced,
      CloseDrained, CloseDrainFails, CloseChannel, CloseEnd, CloseSend, CloseSyncs, CloseDrains
<1>10. CASE UNCHANGED vars
  BY <1>1, <1>10 DEF vars
<1> QED BY <1>7, <1>8, <1>9, <1>10 DEF Next, Terminated

\* A call that gives its batch back only does so again, and is done.
LEMMA GivenBackStays ==
  ASSUME TypeOK, [Next]_vars, NEW c \in Calls, callPc[c] \in {"giveBack", "done"}
  PROVE  /\ callPc'[c] \in {"giveBack", "done"}
         /\ callPc[c] = "done" => callPc'[c] = "done" /\ outcome'[c] = outcome[c]
<1> USE DEF Goto, Return, callVars
<1>1. DOMAIN callPc = Calls /\ DOMAIN outcome = Calls
  BY DEF TypeOK
<1>2. CASE UNCHANGED <<callPc, outcome>>
  BY <1>2
<1>3. ASSUME NEW d \in Calls, Write(d)
      PROVE  /\ callPc'[c] \in {"giveBack", "done"}
             /\ callPc[c] = "done" => callPc'[c] = "done" /\ outcome'[c] = outcome[c]
  <2>1. CASE GiveBack(d)
    BY <1>1, <2>1 DEF GiveBack
  <2>2. CASE Cancel(d)
    BY <2>2 DEF Cancel
  <2>3. CASE ~GiveBack(d) /\ ~Cancel(d)
    <3>1. callPc[d] \notin {"giveBack", "done"}
      BY <1>3, <2>3
      DEF Write, WriteRefused, WriteBegin, WriteStep, WriteBuffers, WriteDetaches, MayAppend,
          WriteRetriesLeftover, RecheckClosed, RecheckFull, EnqueueOpen, EnqueueClosed,
          SendBlocks, SendCancelled, AwaitDone, AwaitCancelled, SendStep, SendBatch, SendLeftover
    <3>2. /\ callPc' = [callPc EXCEPT ![d] = callPc'[d]]
          /\ outcome' = outcome \/ outcome' = [outcome EXCEPT ![d] = outcome'[d]]
      BY <1>1, <1>3, <2>3
      DEF Write, WriteRefused, WriteBegin, WriteStep, WriteBuffers, WriteDetaches,
          WriteRetriesLeftover, RecheckClosed, RecheckFull, EnqueueOpen, EnqueueClosed,
          SendBlocks, SendCancelled, AwaitDone, AwaitCancelled, SendStep, SendBatch, SendLeftover
    <3> QED BY <1>1, <3>1, <3>2
  <2> QED BY <2>1, <2>2, <2>3
<1>4. CASE Worker
  BY <1>2, <1>4
  DEF Worker, WorkerTakesBatch, WorkerTakesDrain, WorkerTakesIdle, WorkerFetches,
      WorkerFindsNothing, WorkerAddsColumns, AddColumnsFails, WorkerInserts, InsertFails, WorkerExits
<1>5. CASE Start \/ Ticker \/ CloseBegin \/ CloseStep \/ CloseSend \/ Panics
  BY <1>2, <1>5
  DEF Start, Ticker, TickerFires, TickerSends, TickerSkips, TickerStops, Panics,
      CloseBegin, CloseStep, CloseTickerDone, CloseGivesUp, CloseWritersDone, CloseSynced,
      CloseDrained, CloseDrainFails, CloseChannel, CloseEnd, CloseSend, CloseSyncs, CloseDrains
<1>6. CASE UNCHANGED vars
  BY <1>2, <1>6 DEF vars
<1> QED BY <1>3, <1>4, <1>5, <1>6 DEF Next, Terminated

LEMMA NamedStep ==
  ASSUME TypeOK, Named, [Next]_vars
  PROVE  Named'
<1> SUFFICES ASSUME NEW h \in Holders, NEW c \in Calls, shares'[h] = c
             PROVE  callPc'[c] \in {"giveBack", "done"}
  BY DEF Named
<1>1. shares'[h] # Own
  BY NamesAssumption
<1>2. CASE \E g \in Holders : shares'[h] = shares[g]
  BY <1>2, GivenBackStays DEF Named
<1>3. CASE EnqueueClosed(c)
  BY <1>3 DEF EnqueueClosed, Goto, TypeOK
<1> QED BY <1>1, <1>2, <1>3, SharesStep

\* Nobody sees what append writes behind its slice if nobody else is on the array.
LEMMA AppendsUnseen ==
  ASSUME TypeOK, NEW g \in Holders, NEW x, x = Own \/ \A h \in Holders \ {g} : shares[h] # x,
         NEW n \in Nat, NEW rows \in Seq(Rows),
         \A c \in Calls : g = c => n = Len(detached[c])
  PROVE  /\ DetachedAfter(x, n, rows) = detached
         /\ g # InWorker => BatchAfter(x, n, rows) = batch
<1>1. ASSUME NEW c \in Calls PROVE Seen(detached[c], shares[c], x, n, rows) = detached[c]
  <2>1. CASE x = Own \/ shares[c] # x
    BY <2>1 DEF Seen
  <2>2. CASE x # Own /\ shares[c] = x
    <3>1. g = c /\ n = Len(detached[c])
      BY <2>2, SlicesTyped
    <3>2. detached[c] \in Seq(Rows) /\ Len(rows) \in Nat
      BY LenProperties DEF TypeOK
    <3> DEFINE s == detached[c]
    <3>3. s \in Seq(Rows) /\ DOMAIN s = 1..Len(s) /\ Len(s) \in Nat
      BY <3>2, LenProperties
    <3>4. \A i \in DOMAIN s : i \notin Len(s)+1..Len(s)+Len(rows)
      BY <3>2, <3>3
    <3>5. s = [i \in DOMAIN s |-> s[i]]
      BY <3>3
    <3>6. Seen(s, shares[c], x, Len(s), rows) = [i \in DOMAIN s |-> s[i]]
      BY <2>2, <3>4 DEF Seen
    <3> QED BY <3>1, <3>5, <3>6
  <2> QED BY <2>1, <2>2
<1>2. DetachedAfter(x, n, rows) = [c \in Calls |-> detached[c]]
  BY <1>1 DEF DetachedAfter
<1>3. detached = [c \in Calls |-> detached[c]]
  BY DEF TypeOK
<1>4. g # InWorker => BatchAfter(x, n, rows) = batch
  BY SlicesTyped DEF BatchAfter, Seen
<1> QED BY <1>2, <1>3, <1>4

LEMMA AppendsAlone ==
  ASSUME TypeOK, ~Sharing, NEW g \in Holders, NEW rows, NEW x \in AppendsTo(shares[g], rows)
  PROVE  x = Own \/ \A h \in Holders \ {g} : shares[h] # x
BY DEF AppendsTo, Sharing

\* So the appends of a step change what they return, and no other slice.
LEMMA AppendsElsewhere ==
  ASSUME TypeOK, ~Sharing
  PROVE  /\ \A c \in Calls :
              /\ WriteBuffers(c) => UNCHANGED <<detached, batch>>
              /\ WriteDetaches(c) => detached' = [detached EXCEPT ![c] = buf \o RowsOf[c]] /\ UNCHANGED batch
              /\ GiveBack(c) => detached' = [detached EXCEPT ![c] = <<>>] /\ UNCHANGED batch
         /\ Fails => UNCHANGED detached
<1>1. /\ buf \in Seq(Rows) /\ Len(buf) \in Nat /\ Len(batch) \in Nat
      /\ Buffer \in Holders /\ InWorker \in Holders /\ Buffer # InWorker
      /\ \A c \in Calls : c \in Holders /\ c # Buffer /\ c # InWorker
      /\ \A c \in Calls : RowsOf[c] \in Seq(Rows) /\ Len(detached[c]) \in Nat
  BY SlicesTyped, RowsAssumption, NamesAssumption DEF TypeOK
<1>2. ASSUME NEW c \in Calls, NEW x \in AppendsTo(shares[Buffer], RowsOf[c])
      PROVE  /\ DetachedAfter(x, Len(buf), RowsOf[c]) = detached
             /\ BatchAfter(x, Len(buf), RowsOf[c]) = batch
  <2>1. x = Own \/ \A h \in Holders \ {Buffer} : shares[h] # x
    BY <1>1, <1>2, AppendsAlone
  <2> QED BY <1>1, <2>1, AppendsUnseen
<1>3. ASSUME NEW c \in Calls, NEW x \in AppendsTo(shares[c], buf)
      PROVE  /\ DetachedAfter(x, Len(detached[c]), buf) = detached
             /\ BatchAfter(x, Len(detached[c]), buf) = batch
  <2>1. x = Own \/ \A h \in Holders \ {c} : shares[h] # x
    BY <1>1, <1>3, AppendsAlone
  <2> QED BY <1>1, <2>1, AppendsUnseen
<1>4. ASSUME NEW x \in AppendsTo(shares[InWorker], buf)
      PROVE  DetachedAfter(x, Len(batch), buf) = detached
  <2>1. x = Own \/ \A h \in Holders \ {InWorker} : shares[h] # x
    BY <1>1, <1>4, AppendsAlone
  <2> QED BY <1>1, <2>1, AppendsUnseen
<1>5. ASSUME NEW c \in Calls PROVE WriteBuffers(c) => UNCHANGED <<detached, batch>>
  BY <1>2, <1>5 DEF WriteBuffers
<1>6. ASSUME NEW c \in Calls
      PROVE  WriteDetaches(c) => detached' = [detached EXCEPT ![c] = buf \o RowsOf[c]] /\ UNCHANGED batch
  BY <1>2, <1>6 DEF WriteDetaches
<1>7. ASSUME NEW c \in Calls
      PROVE  GiveBack(c) => detached' = [detached EXCEPT ![c] = <<>>] /\ UNCHANGED batch
  BY <1>3, <1>7 DEF GiveBack
<1>8. Fails => UNCHANGED detached
  BY <1>4 DEF Fails
<1> QED BY <1>5, <1>6, <1>7, <1>8

(***************************************************************************)
(* Where rows are.                                                         *)
(***************************************************************************)

DetachedRows == UNION {Range(detached[c]) : c \in Calls}
QueuedRows == UNION {Range(flushCh[i].rows) : i \in DOMAIN flushCh}

\* The rows of one sequence put behind those of another.
LEMMA ConcatRange ==
  ASSUME NEW S, NEW s \in Seq(S), NEW t \in Seq(S)
  PROVE  Range(s \o t) = Range(s) \cup Range(t)
<1>1. /\ DOMAIN s = 1..Len(s) /\ DOMAIN t = 1..Len(t) /\ Len(s) \in Nat /\ Len(t) \in Nat
      /\ DOMAIN (s \o t) = 1..(Len(s) + Len(t))
      /\ \A i \in 1..(Len(s) + Len(t)) : (s \o t)[i] = IF i <= Len(s) THEN s[i] ELSE t[i - Len(s)]
  BY ConcatProperties, LenProperties
<1> DEFINE st == s \o t
<1> HIDE DEF st
<1>2. ASSUME NEW i \in DOMAIN st PROVE st[i] \in Range(s) \cup Range(t)
  <2>1. CASE i <= Len(s)
    BY <1>1, <1>2, <2>1 DEF Range, st
  <2>2. CASE ~(i <= Len(s))
    <3>1. i - Len(s) \in DOMAIN t /\ st[i] = t[i - Len(s)]
      BY <1>1, <1>2, <2>2 DEF st
    <3> QED BY <3>1 DEF Range
  <2> QED BY <2>1, <2>2
<1>3. ASSUME NEW i \in DOMAIN s PROVE s[i] \in Range(st)
  <2>1. i \in DOMAIN st /\ st[i] = s[i]
    BY <1>1, <1>3 DEF st
  <2> QED BY <2>1 DEF Range
<1>4. ASSUME NEW i \in DOMAIN t PROVE t[i] \in Range(st)
  <2>1. i + Len(s) \in DOMAIN st /\ st[i + Len(s)] = t[i]
    BY <1>1, <1>4 DEF st
  <2> QED BY <2>1 DEF Range
<1>5. Range(st) \subseteq Range(s) \cup Range(t) /\ Range(s) \subseteq Range(st) /\ Range(t) \subseteq Range(st)
  BY <1>2, <1>3, <1>4 DEF Range
<1> QED BY <1>5 DEF st

\* Nothing is in an empty sequence.
LEMMA EmptyRange == Range(<<>>) = {}
BY DEF Range

\* A job that is queued brings its rows along (enqueueFlush).
LEMMA QueuedMore ==
  ASSUME TypeOK, NEW j \in Jobs, flushCh' = Append(flushCh, j)
  PROVE  QueuedRows' = QueuedRows \cup Range(j.rows)
<1>1. /\ DOMAIN flushCh = 1..Len(flushCh) /\ Len(flushCh) \in Nat
      /\ DOMAIN flushCh' = 1..(Len(flushCh) + 1)
      /\ \A i \in DOMAIN flushCh : flushCh'[i] = flushCh[i]
      /\ flushCh'[Len(flushCh) + 1] = j
  BY AppendedJobs
<1>2. DOMAIN flushCh' = DOMAIN flushCh \cup {Len(flushCh) + 1}
  BY <1>1
<1> QED BY <1>1, <1>2 DEF QueuedRows

\* The job the worker takes leaves with its rows (runWorker).
LEMMA QueuedLess ==
  ASSUME TypeOK, flushCh # <<>>, flushCh' = Tail(flushCh)
  PROVE  QueuedRows = QueuedRows' \cup Range(Head(flushCh).rows)
<1> DEFINE n == Len(flushCh)
<1>1. /\ DOMAIN flushCh = 1..n /\ n \in Nat \ {0} /\ Head(flushCh) = flushCh[1]
      /\ DOMAIN flushCh' = 1..(n - 1)
      /\ \A i \in DOMAIN flushCh' : flushCh'[i] = flushCh[i + 1]
  BY TakenJob
<1> HIDE DEF n
<1>2. ASSUME NEW r, NEW i \in DOMAIN flushCh, r \in Range(flushCh[i].rows)
      PROVE  r \in QueuedRows' \cup Range(Head(flushCh).rows)
  <2>1. CASE i = 1
    BY <1>1, <1>2, <2>1
  <2>2. CASE i # 1
    <3>1. i - 1 \in DOMAIN flushCh' /\ flushCh'[i - 1] = flushCh[i]
      BY <1>1, <1>2, <2>2
    <3> QED BY <1>2, <3>1 DEF QueuedRows
  <2> QED BY <2>1, <2>2
<1>3. ASSUME NEW r, NEW i \in DOMAIN flushCh', r \in Range(flushCh'[i].rows)
      PROVE  r \in QueuedRows
  <2>1. i + 1 \in DOMAIN flushCh /\ flushCh'[i] = flushCh[i + 1]
    BY <1>1, <1>3
  <2> QED BY <1>3, <2>1 DEF QueuedRows
<1>4. ASSUME NEW r \in Range(Head(flushCh).rows) PROVE r \in QueuedRows
  <2>1. 1 \in DOMAIN flushCh
    BY <1>1
  <2> QED BY <1>1, <1>4, <2>1 DEF QueuedRows
<1> QED BY <1>2, <1>3, <1>4 DEF QueuedRows

\* A call takes a batch, or is rid of it (Write).
LEMMA DetachedOne ==
  ASSUME TypeOK, NEW c \in Calls, NEW s, detached' = [detached EXCEPT ![c] = s]
  PROVE  /\ detached[c] = <<>> => DetachedRows' = DetachedRows \cup Range(s)
         /\ s = <<>> => DetachedRows = DetachedRows' \cup Range(detached[c])
<1>1. DOMAIN detached = Calls /\ detached'[c] = s /\ \A d \in Calls \ {c} : detached'[d] = detached[d]
  BY DEF TypeOK
<1>2. Range(<<>>) = {}
  BY EmptyRange
<1> QED BY <1>1, <1>2 DEF DetachedRows

\* The rows of a writer, by where they are.
LEMMA HeldParts ==
  /\ HeldRows = Range(buf) \cup Range(batch) \cup DetachedRows \cup QueuedRows
  /\ HeldRows' = Range(buf') \cup Range(batch') \cup DetachedRows' \cup QueuedRows'
  /\ UNCHANGED detached => DetachedRows' = DetachedRows
  /\ UNCHANGED flushCh => QueuedRows' = QueuedRows
  /\ UNCHANGED stored => StoredRows' = StoredRows
<1>1. HeldRows = Range(buf) \cup Range(batch) \cup DetachedRows \cup QueuedRows
  BY DEF HeldRows, DetachedRows, QueuedRows
<1>2. HeldRows' = Range(buf') \cup Range(batch') \cup DetachedRows' \cup QueuedRows'
  BY DEF HeldRows, DetachedRows, QueuedRows
<1>3. UNCHANGED detached => DetachedRows' = DetachedRows
  BY DEF DetachedRows
<1>4. UNCHANGED flushCh => QueuedRows' = QueuedRows
  BY DEF QueuedRows
<1>5. UNCHANGED stored => StoredRows' = StoredRows
  BY DEF StoredRows
<1> QED BY <1>1, <1>2, <1>3, <1>4, <1>5

\* Only a batch job brings rows; a call that is about to enqueue has some.
JobsPlaced ==
  /\ \A i \in DOMAIN flushCh : flushCh[i].kind # "batch" => flushCh[i].rows = <<>>
  /\ \A c \in Calls : callPc[c] = "enqueue" => detached[c] # <<>>

\* The calls that brought no row into the writer yet, and may still do so.
Unaccepted(c) ==
  \/ callPc[c] \in {"new", "check", "recheck", "await"}
  \/ callPc[c] \in {"send", "blocked"} /\ detached[c] = <<>>

NotYetHeld == \A c \in Calls : Unaccepted(c) => Left(c)

\* What an append writes over may hide rows, but shows none besides its own.
LEMMA AppendBound ==
  ASSUME TypeOK, NEW x, NEW n \in Nat, NEW rows \in Seq(Rows), NEW after,
         after = DetachedAfter(x, n, rows)
  PROVE  /\ Range(BatchAfter(x, n, rows)) \subseteq Range(batch) \cup Range(rows)
         /\ \A c \in Calls : Range(after[c]) \subseteq DetachedRows \cup Range(rows)
         /\ DOMAIN after = Calls
<1>1. batch \in Seq(Rows) /\ \A c \in Calls : detached[c] \in Seq(Rows)
  BY DEF TypeOK
<1>2. Range(BatchAfter(x, n, rows)) \subseteq Range(batch) \cup Range(rows)
  BY <1>1, SeenTyped DEF BatchAfter
<1>3. ASSUME NEW c \in Calls PROVE Range(after[c]) \subseteq DetachedRows \cup Range(rows)
  <2> DEFINE slice == detached[c]
  <2>1. slice \in Seq(Rows) /\ after[c] = Seen(slice, shares[c], x, n, rows)
    BY <1>1 DEF DetachedAfter
  <2>2. Range(slice) \subseteq DetachedRows
    BY DEF DetachedRows
  <2> HIDE DEF slice
  <2>3. Range(Seen(slice, shares[c], x, n, rows)) \subseteq Range(slice) \cup Range(rows)
    BY <2>1, SeenTyped
  <2> QED BY <2>1, <2>2, <2>3
<1> QED BY <1>2, <1>3 DEF DetachedAfter

\* The three things that happen to rows: they stay with the writer, a call
\* brings its own, or the worker inserts its batch.
RowsStay == HeldRows' = HeldRows /\ StoredRows' = StoredRows

Brings(c) == MayAppend(c) /\ ~Unaccepted(c)' /\ (callPc'[c] = "done" => outcome'[c] = "nil")

RowsJoin(c) ==
  /\ Brings(c)
  /\ HeldRows' = HeldRows \cup Range(RowsOf[c]) /\ StoredRows' = StoredRows

RowsInserted ==
  /\ StoredRows' = StoredRows \cup Range(batch)
  /\ HeldRows' \subseteq HeldRows /\ HeldRows \subseteq HeldRows' \cup Range(batch)

\* What holds of them also when rows are written over.
RowsFewer == HeldRows' \cup StoredRows' \subseteq HeldRows \cup StoredRows

RowsMore(c) ==
  /\ Brings(c)
  /\ HeldRows' \cup StoredRows' \subseteq HeldRows \cup StoredRows \cup Range(RowsOf[c])

Appends(c) == WriteBuffers(c) \/ WriteDetaches(c)

\* A call that appends brings exactly its rows, on an array of its own (Write).
LEMMA AppendRows ==
  ASSUME DrainInv, NEW c \in Calls, Appends(c)
  PROVE  RowsMore(c) /\ (~Sharing => RowsJoin(c))
<1> USE DEF DrainInv, bufferVars, queueVars, tickerVars, callVars, workerVars, closeVars, serverVars, Goto,
            Return
<1>1. /\ RowsOf[c] \in Seq(Rows) /\ RowsOf[c] # <<>> /\ detached[c] \in Seq(Rows) /\ buf \in Seq(Rows)
      /\ DOMAIN callPc = Calls /\ DOMAIN outcome = Calls /\ DOMAIN detached = Calls
      /\ detached[c] # <<>> => callPc[c] \in {"enqueue", "send", "blocked", "giveBack"}
      /\ Range(<<>>) = {} /\ Len(buf) \in Nat /\ Len(detached[c]) \in Nat
      /\ Range(detached[c]) \subseteq DetachedRows
  BY RowsAssumption, EmptyRange, SlicesTyped DEF TypeOK, BatchesPlaced, DetachedRows
<1>2. CASE WriteBuffers(c)
  <2>1. PICK x \in AppendsTo(shares[Buffer], RowsOf[c]) :
          /\ detached' = DetachedAfter(x, Len(buf), RowsOf[c])
          /\ batch' = BatchAfter(x, Len(buf), RowsOf[c])
    BY <1>2 DEF WriteBuffers
  <2>2. Range(buf') = Range(buf) \cup Range(RowsOf[c])
    BY <1>1, <1>2, ConcatRange DEF WriteBuffers
  <2>3. UNCHANGED <<flushCh, stored>> /\ Brings(c)
    BY <1>1, <1>2 DEF WriteBuffers, Brings, Unaccepted
  <2>4. /\ Range(batch') \subseteq Range(batch) \cup Range(RowsOf[c])
        /\ DetachedRows' \subseteq DetachedRows \cup Range(RowsOf[c])
    <3>1. /\ Range(batch') \subseteq Range(batch) \cup Range(RowsOf[c])
          /\ \A d \in Calls : Range(detached'[d]) \subseteq DetachedRows \cup Range(RowsOf[c])
      BY <1>1, <2>1, AppendBound
    <3> QED BY <3>1 DEF DetachedRows
  <2>5. RowsMore(c)
    BY <2>2, <2>3, <2>4, HeldParts DEF RowsMore
  <2>6. ASSUME ~Sharing PROVE RowsJoin(c)
    <3>1. UNCHANGED <<detached, batch>>
      BY <1>2, <2>6, AppendsElsewhere
    <3> QED BY <2>2, <2>3, <3>1, HeldParts DEF RowsJoin
  <2> QED BY <2>5, <2>6
<1>3. CASE WriteDetaches(c)
  <2>1. PICK x \in AppendsTo(shares[Buffer], RowsOf[c]) :
          /\ detached' = [DetachedAfter(x, Len(buf), RowsOf[c]) EXCEPT ![c] = buf \o RowsOf[c]]
          /\ batch' = BatchAfter(x, Len(buf), RowsOf[c])
    BY <1>3 DEF WriteDetaches
  <2>2. Range(buf \o RowsOf[c]) = Range(buf) \cup Range(RowsOf[c]) /\ Range(buf') = {}
    BY <1>1, <1>3, ConcatRange DEF WriteDetaches
  <2>3. UNCHANGED <<flushCh, stored>> /\ callPc'[c] = "enqueue" /\ detached[c] = <<>> /\ Brings(c)
    BY <1>1, <1>3 DEF WriteDetaches, MayAppend, Brings, Unaccepted
  <2>4. /\ Range(batch') \subseteq Range(batch) \cup Range(RowsOf[c])
        /\ DetachedRows' \subseteq DetachedRows \cup Range(buf) \cup Range(RowsOf[c])
    <3> DEFINE after == DetachedAfter(x, Len(buf), RowsOf[c])
    <3>1. /\ Range(batch') \subseteq Range(batch) \cup Range(RowsOf[c])
          /\ \A d \in Calls : Range(after[d]) \subseteq DetachedRows \cup Range(RowsOf[c])
          /\ DOMAIN after = Calls
      BY <1>1, <2>1, AppendBound
    <3>2. detached' = [after EXCEPT ![c] = buf \o RowsOf[c]]
      BY <2>1
    <3> HIDE DEF after
    <3>3. detached'[c] = buf \o RowsOf[c] /\ \A d \in Calls \ {c} : detached'[d] = after[d]
      BY <3>1, <3>2
    <3>4. \A d \in Calls : Range(detached'[d]) \subseteq DetachedRows \cup Range(buf) \cup Range(RowsOf[c])
      BY <2>2, <3>1, <3>3
    <3> QED BY <3>1, <3>4 DEF DetachedRows
  <2>5. RowsMore(c)
    BY <2>2, <2>3, <2>4, HeldParts DEF RowsMore
  <2>6. ASSUME ~Sharing PROVE RowsJoin(c)
    <3>1. detached' = [detached EXCEPT ![c] = buf \o RowsOf[c]] /\ UNCHANGED batch
      BY <1>3, <2>6, AppendsElsewhere
    <3>2. DetachedRows' = DetachedRows \cup Range(buf \o RowsOf[c])
      BY <2>3, <3>1, DetachedOne
    <3> QED BY <2>2, <2>3, <3>1, <3>2, HeldParts DEF RowsJoin
  <2> QED BY <2>5, <2>6
<1> QED BY <1>2, <1>3 DEF Appends

\* Where the rows of a call are after each of its steps (Write, enqueueFlush).
LEMMA WriteRows ==
  ASSUME DrainInv, JobsPlaced, NEW c \in Calls, Write(c)
  PROVE  /\ RowsFewer \/ RowsMore(c)
         /\ ~Sharing /\ Named => RowsStay \/ RowsJoin(c)
<1> USE DEF DrainInv, bufferVars, queueVars, tickerVars, callVars, workerVars, closeVars, serverVars, Goto,
            Return
<1>1. /\ RowsOf[c] \in Seq(Rows) /\ RowsOf[c] # <<>> /\ detached[c] \in Seq(Rows) /\ buf \in Seq(Rows)
      /\ DOMAIN callPc = Calls /\ DOMAIN outcome = Calls /\ DOMAIN detached = Calls
      /\ detached[c] # <<>> => callPc[c] \in {"enqueue", "send", "blocked", "giveBack"}
      /\ Range(<<>>) = {} /\ Len(buf) \in Nat /\ Len(detached[c]) \in Nat
      /\ Range(detached[c]) \subseteq DetachedRows
  BY RowsAssumption, EmptyRange, SlicesTyped DEF TypeOK, BatchesPlaced, DetachedRows
<1>2. RowsStay => RowsFewer
  BY DEF RowsStay, RowsFewer
<1>3. CASE EnqueueClosed(c)
  <2>1. PICK x \in AppendsTo(IF shares[c] = Own THEN c ELSE shares[c], buf) :
          /\ detached' = DetachedAfter(x, Len(detached[c]), buf)
          /\ batch' = BatchAfter(x, Len(detached[c]), buf)
    BY <1>3 DEF EnqueueClosed
  <2>2. Range(buf') = Range(detached[c]) \cup Range(buf)
    BY <1>1, <1>3, ConcatRange DEF EnqueueClosed, Rebuffered
  <2>3. UNCHANGED <<flushCh, stored>>
    BY <1>3 DEF EnqueueClosed
  <2>4. Range(batch') \subseteq Range(batch) \cup Range(buf) /\ DetachedRows' \subseteq DetachedRows \cup Range(buf)
    <3>1. /\ Range(batch') \subseteq Range(batch) \cup Range(buf)
          /\ \A d \in Calls : Range(detached'[d]) \subseteq DetachedRows \cup Range(buf)
      BY <1>1, <2>1, AppendBound
    <3> QED BY <3>1 DEF DetachedRows
  <2>5. RowsFewer
    BY <1>1, <2>2, <2>3, <2>4, HeldParts DEF RowsFewer
  <2>6. ASSUME ~Sharing, Named PROVE RowsStay
    <3>1. x = Own \/ \A h \in Holders \ {c} : shares[h] # x
      <4>1. CASE shares[c] = Own
        <5>1. \A h \in Holders : shares[h] # c
          BY <1>3, <2>6 DEF Named, EnqueueClosed
        <5> QED BY <2>1, <4>1, <5>1 DEF AppendsTo
      <4>2. CASE shares[c] # Own
        BY <2>1, <2>6, <4>2, SlicesTyped, AppendsAlone
      <4> QED BY <4>1, <4>2
    <3>2. c \in Holders /\ c # InWorker
      BY SlicesTyped, NamesAssumption
    <3>3. UNCHANGED <<detached, batch>>
      BY <1>1, <2>1, <3>1, <3>2, AppendsUnseen
    <3> QED BY <1>1, <2>2, <2>3, <3>3, HeldParts DEF RowsStay
  <2> QED BY <2>5, <2>6
<1>4. CASE GiveBack(c)
  <2>1. PICK x \in AppendsTo(shares[c], buf) :
          /\ detached' = [DetachedAfter(x, Len(detached[c]), buf) EXCEPT ![c] = <<>>]
          /\ batch' = BatchAfter(x, Len(detached[c]), buf)
    BY <1>4 DEF GiveBack
  <2>2. Range(buf') = Range(detached[c]) \cup Range(buf)
    BY <1>1, <1>4, ConcatRange DEF GiveBack, Rebuffered
  <2>3. UNCHANGED <<flushCh, stored>>
    BY <1>4 DEF GiveBack
  <2>4. Range(batch') \subseteq Range(batch) \cup Range(buf) /\ DetachedRows' \subseteq DetachedRows \cup Range(buf)
    <3> DEFINE after == DetachedAfter(x, Len(detached[c]), buf)
    <3>1. /\ Range(batch') \subseteq Range(batch) \cup Range(buf)
          /\ \A d \in Calls : Range(after[d]) \subseteq DetachedRows \cup Range(buf)
          /\ DOMAIN after = Calls
      BY <1>1, <2>1, AppendBound
    <3>2. detached' = [after EXCEPT ![c] = <<>>]
      BY <2>1
    <3> HIDE DEF after
    <3>3. detached'[c] = <<>> /\ \A d \in Calls \ {c} : detached'[d] = after[d]
      BY <3>1, <3>2
    <3>4. \A d \in Calls : Range(detached'[d]) \subseteq DetachedRows \cup Range(buf)
      BY <1>1, <3>1, <3>3
    <3> QED BY <3>1, <3>4 DEF DetachedRows
  <2>5. RowsFewer
    BY <1>1, <2>2, <2>3, <2>4, HeldParts DEF RowsFewer
  <2>6. ASSUME ~Sharing PROVE RowsStay
    <3>1. detached' = [detached EXCEPT ![c] = <<>>] /\ UNCHANGED batch
      BY <1>4, <2>6, AppendsElsewhere
    <3>2. DetachedRows = DetachedRows' \cup Range(detached[c])
      BY <3>1, DetachedOne
    <3> QED BY <2>2, <2>3, <3>1, <3>2, HeldParts DEF RowsStay
  <2> QED BY <2>5, <2>6
<1>5. CASE SendBatch(c)
  <2>1. Job("batch", detached[c], Nobody) \in Jobs /\ Job("batch", detached[c], Nobody).rows = detached[c]
    BY <1>1 DEF Job, Jobs, Waiters
  <2>2. UNCHANGED <<buf, batch, stored>>
    BY <1>5 DEF SendBatch
  <2>3. DetachedRows = DetachedRows' \cup Range(detached[c])
    BY <1>5, DetachedOne DEF SendBatch
  <2>4. QueuedRows' = QueuedRows \cup Range(detached[c])
    BY <1>5, <2>1, QueuedMore DEF SendBatch
  <2>5. RowsStay
    BY <2>2, <2>3, <2>4, HeldParts DEF RowsStay
  <2> QED BY <1>2, <2>5
<1>6. CASE SendLeftover(c)
  <2>1. Job("drain", <<>>, c) \in Jobs /\ Job("drain", <<>>, c).rows = <<>>
    BY EmptySeq DEF Job, Jobs, Waiters
  <2>2. UNCHANGED <<buf, batch, stored, detached>>
    BY <1>6 DEF SendLeftover
  <2>3. QueuedRows' = QueuedRows
    BY <1>1, <1>6, <2>1, QueuedMore DEF SendLeftover
  <2>4. RowsStay
    BY <2>2, <2>3, HeldParts DEF RowsStay
  <2> QED BY <1>2, <2>4
<1>7. CASE UNCHANGED <<buf, detached, flushCh, batch, stored>>
  BY <1>2, <1>7, HeldParts DEF RowsStay
<1>8. CASE Appends(c)
  BY <1>8, AppendRows
<1> QED
  BY <1>3, <1>4, <1>5, <1>6, <1>7, <1>8
  DEF Write, WriteStep, SendStep, WriteRefused, WriteBegin, WriteRetriesLeftover, RecheckClosed, RecheckFull,
      EnqueueOpen, SendBlocks, SendCancelled, AwaitDone, AwaitCancelled, Cancel, Appends

\* An insertion stores exactly the rows of the batch besides (InsertBatch).
LEMMA InsertedRows ==
  ASSUME TypeOK, stored' = Inserted
  PROVE  StoredRows' = StoredRows \cup Range(batch)
<1>1. ASSUME NEW r \in Rows
      PROVE  /\ stored[r] \in Nat
             /\ r \in Range(batch) => Inserted[r] > 0
             /\ r \notin Range(batch) => Inserted[r] = stored[r]
  <2> DEFINE I == {i \in DOMAIN batch : batch[i] = r}
  <2>1. IsFiniteSet(I)
    <3>1. DOMAIN batch = 1..Len(batch) /\ Len(batch) \in Nat
      BY LenProperties DEF TypeOK
    <3>2. IsFiniteSet(DOMAIN batch)
      BY <3>1, FS_Interval
    <3>3. I \subseteq DOMAIN batch
      OBVIOUS
    <3> HIDE DEF I
    <3> QED BY <3>2, <3>3, FS_Subset
  <2>2. Cardinality(I) \in Nat /\ (Cardinality(I) = 0 <=> I = {})
    BY <2>1, FS_CardinalityType, FS_EmptySet
  <2>3. r \in Range(batch) <=> I # {}
    BY DEF Range
  <2>4. stored[r] \in Nat /\ Inserted[r] = stored[r] + Cardinality(I)
    BY DEF Inserted, TypeOK
  <2> HIDE DEF I
  <2> QED BY <2>2, <2>3, <2>4
<1>2. Range(batch) \subseteq Rows
  BY RangeOfSeq DEF TypeOK
<1> QED BY <1>1, <1>2 DEF StoredRows

\* Where the rows are after each step of the worker.
LEMMA WorkerRows ==
  ASSUME DrainInv, JobsPlaced, Worker
  PROVE  RowsFewer /\ (~Sharing => RowsStay \/ RowsInserted)
<1> USE DEF DrainInv, bufferVars, queueVars, tickerVars, workerVars, closeVars, serverVars
<1>1. /\ batch \in Seq(Rows) /\ buf \in Seq(Rows) /\ Range(<<>>) = {}
      /\ workerPc \in {"recv", "fetch", "exit"} => batch = <<>>
  BY EmptyRange DEF TypeOK, BatchesPlaced
<1>2. RowsStay \/ RowsInserted => RowsFewer
  BY HeldParts DEF RowsStay, RowsInserted, RowsFewer
<1>3. UNCHANGED callVars => DetachedRows' = DetachedRows
  BY DEF DetachedRows, callVars
<1>4. CASE WorkerTakesBatch
  <2>1. /\ flushCh # <<>> /\ flushCh' = Tail(flushCh) /\ batch = <<>> /\ batch' = Head(flushCh).rows
        /\ UNCHANGED <<buf, stored>> /\ UNCHANGED callVars
    BY <1>1, <1>4 DEF WorkerTakesBatch
  <2>2. QueuedRows = QueuedRows' \cup Range(batch')
    BY <2>1, QueuedLess
  <2> QED BY <1>1, <1>3, <2>1, <2>2, <1>2, HeldParts DEF RowsStay
<1>5. CASE WorkerTakesDrain \/ WorkerTakesIdle
  <2>1. /\ flushCh # <<>> /\ flushCh' = Tail(flushCh) /\ Head(flushCh).kind # "batch"
        /\ UNCHANGED <<buf, stored, batch>> /\ UNCHANGED callVars
    BY <1>5 DEF WorkerTakesDrain, WorkerTakesIdle
  <2>2. Head(flushCh).rows = <<>>
    BY <2>1, TakenJob DEF JobsPlaced
  <2>3. QueuedRows = QueuedRows'
    BY <1>1, <2>1, <2>2, QueuedLess
  <2> QED BY <1>2, <1>3, <2>1, <2>3, HeldParts DEF RowsStay
<1>6. CASE WorkerFetches
  BY <1>1, <1>2, <1>3, <1>6, HeldParts DEF WorkerFetches, RowsStay
<1>7. CASE WorkerFindsNothing
  BY <1>1, <1>2, <1>3, <1>7, HeldParts DEF WorkerFindsNothing, Complete, RowsStay
<1>8. CASE WorkerAddsColumns \/ WorkerExits
  BY <1>2, <1>3, <1>8, HeldParts DEF WorkerAddsColumns, WorkerExits, RowsStay
<1>9. ASSUME Fails, UNCHANGED flushCh
      PROVE  /\ HeldRows' \subseteq HeldRows
             /\ ~Sharing => HeldRows' = HeldRows
  <2>1. PICK x \in AppendsTo(shares[InWorker], buf) : detached' = DetachedAfter(x, Len(batch), buf)
    BY <1>9 DEF Fails
  <2>2. Range(buf') = Range(batch) \cup Range(buf) /\ Range(batch') = {} /\ Len(batch) \in Nat
    BY <1>1, <1>9, ConcatRange, SlicesTyped DEF Fails, Complete, Rebuffered
  <2>3. DetachedRows' \subseteq DetachedRows \cup Range(buf)
    <3>1. \A c \in Calls : Range(detached'[c]) \subseteq DetachedRows \cup Range(buf)
      BY <1>1, <2>1, <2>2, AppendBound
    <3> QED BY <3>1 DEF DetachedRows
  <2>4. ~Sharing => UNCHANGED detached
    BY <1>9, AppendsElsewhere
  <2> QED BY <1>9, <2>2, <2>3, <2>4, HeldParts
<1>10. CASE AddColumnsFails
  <2>1. UNCHANGED <<stored, flushCh>> /\ Fails
    BY <1>10 DEF AddColumnsFails
  <2> QED BY <1>9, <2>1, HeldParts DEF RowsStay, RowsFewer
<1>11. CASE WorkerInserts
  <2>1. stored' = Inserted /\ batch' = <<>> /\ UNCHANGED <<buf, flushCh>> /\ UNCHANGED callVars
    BY <1>11 DEF WorkerInserts, Complete
  <2>2. StoredRows' = StoredRows \cup Range(batch)
    BY <2>1, InsertedRows
  <2> QED BY <1>1, <1>2, <1>3, <2>1, <2>2, HeldParts DEF RowsInserted
<1>12. CASE InsertFails
  <2>1. HeldRows' \subseteq HeldRows /\ (~Sharing => HeldRows' = HeldRows) /\ stored' \in {stored, Inserted}
    BY <1>9, <1>12 DEF InsertFails
  <2>2. StoredRows' = StoredRows \/ StoredRows' = StoredRows \cup Range(batch)
    BY <2>1, InsertedRows, HeldParts
  <2>3. Range(batch) \subseteq HeldRows
    BY HeldParts
  <2>4. RowsFewer
    BY <2>1, <2>2, <2>3 DEF RowsFewer
  <2>5. ~Sharing => RowsStay \/ RowsInserted
    BY <2>1, <2>2 DEF RowsStay, RowsInserted
  <2> QED BY <2>4, <2>5
<1> QED
  BY <1>4, <1>5, <1>6, <1>7, <1>8, <1>10, <1>11, <1>12 DEF Worker

\* Start, the ticker, Close and a panic move no row.
LEMMA OthersMoveNothing ==
  ASSUME DrainInv, Start \/ Ticker \/ CloseBegin \/ CloseStep \/ CloseSend \/ Panics
  PROVE  RowsStay /\ UNCHANGED callVars
<1> USE DEF DrainInv, bufferVars, queueVars, tickerVars, workerVars, closeVars, serverVars
<1>1. UNCHANGED <<buf, batch, stored>> /\ UNCHANGED callVars
  BY DEF Start, Ticker, TickerFires, TickerSends, TickerSkips, TickerStops, Panics,
         CloseBegin, CloseStep, CloseTickerDone, CloseGivesUp, CloseWritersDone, CloseSynced,
         CloseDrained, CloseDrainFails, CloseChannel, CloseEnd, CloseSend, CloseSyncs, CloseDrains
<1>2. DetachedRows' = DetachedRows
  BY <1>1 DEF DetachedRows, callVars
<1>3. QueuedRows' = QueuedRows
  <2>1. CASE UNCHANGED flushCh
    BY <2>1 DEF QueuedRows
  <2>2. ASSUME NEW who \in Waiters, NEW kind \in {"drain", "idle"}, flushCh' = Append(flushCh, Job(kind, <<>>, who))
        PROVE  QueuedRows' = QueuedRows
    <3>1. Job(kind, <<>>, who) \in Jobs /\ Job(kind, <<>>, who).rows = <<>>
      BY EmptySeq DEF Job, Jobs
    <3> QED BY <2>2, <3>1, QueuedMore, EmptyRange
  <2>3. Nobody \in Waiters /\ Closer \in Waiters
    BY DEF Waiters
  <2> QED
    BY <2>1, <2>2, <2>3
    DEF Start, Ticker, TickerFires, TickerSends, TickerSkips, TickerStops, Panics,
        CloseBegin, CloseStep, CloseTickerDone, CloseGivesUp, CloseWritersDone, CloseSynced,
        CloseDrained, CloseDrainFails, CloseChannel, CloseEnd, CloseSend, CloseSyncs, CloseDrains
<1> QED BY <1>1, <1>2, <1>3, HeldParts DEF RowsStay

\* A call only leaves the states in which it brought no row.
LEMMA UnacceptedStep ==
  ASSUME DrainInv, JobsPlaced, [Next]_vars, NEW c \in Calls, Unaccepted(c)'
  PROVE  Unaccepted(c)
<1> USE DEF DrainInv, Goto, Return
<1>1. CASE UNCHANGED callVars
  BY <1>1 DEF Unaccepted, callVars
<1>2. ASSUME NEW d \in Calls \ {c}, Write(d) PROVE Unaccepted(c)
  <2>1. callPc'[c] = callPc[c] /\ (detached'[c] = <<>> <=> detached[c] = <<>>)
    BY <1>2, WriteFrames DEF WriteFrame
  <2> QED BY <2>1 DEF Unaccepted
<1>3. CASE Write(c)
  <2>0. DOMAIN callPc = Calls /\ DOMAIN detached = Calls
    BY DEF TypeOK
  <2>1. CASE WriteRefused(c) \/ WriteBegin(c) \/ WriteRetriesLeftover(c) \/ RecheckClosed(c) \/ RecheckFull(c)
             \/ AwaitDone(c) \/ AwaitCancelled(c)
    BY <2>1 DEF WriteRefused, WriteBegin, WriteRetriesLeftover, RecheckClosed, RecheckFull, AwaitDone,
                AwaitCancelled, Unaccepted
  <2>2. CASE WriteBuffers(c) \/ WriteDetaches(c)
    BY <2>0, <2>2 DEF WriteBuffers, WriteDetaches, Unaccepted
  <2>3. CASE EnqueueOpen(c) \/ EnqueueClosed(c) \/ GiveBack(c)
    BY <2>0, <2>3 DEF EnqueueOpen, EnqueueClosed, GiveBack, JobsPlaced, Unaccepted
  <2>4. CASE SendBatch(c) \/ SendCancelled(c)
    BY <2>0, <2>4 DEF SendBatch, SendCancelled, Unaccepted
  <2>5. CASE SendLeftover(c) \/ SendBlocks(c)
    BY <2>0, <2>5 DEF SendLeftover, SendBlocks, Unaccepted
  <2>6. CASE Cancel(c)
    BY <1>1, <2>6 DEF Cancel
  <2> QED BY <1>3, <2>1, <2>2, <2>3, <2>4, <2>5, <2>6 DEF Write, WriteStep, SendStep
<1>4. CASE Worker
  <2>1. UNCHANGED callPc /\ (detached'[c] = <<>> <=> detached[c] = <<>>)
    BY <1>4, WorkerKeepsEmpty
    DEF Worker, WorkerTakesBatch, WorkerTakesDrain, WorkerTakesIdle, WorkerFetches, WorkerFindsNothing,
        WorkerAddsColumns, AddColumnsFails, WorkerInserts, InsertFails, WorkerExits, callVars
  <2> QED BY <2>1 DEF Unaccepted
<1>5. CASE Start \/ Ticker \/ CloseBegin \/ CloseStep \/ CloseSend \/ Panics
  BY <1>1, <1>5, OthersMoveNothing
<1>6. CASE UNCHANGED vars
  BY <1>1, <1>6 DEF vars
<1> QED BY <1>2, <1>3, <1>4, <1>5, <1>6 DEF Next, Terminated

\* Every step queues rows only with a batch job, and a call enqueues what it has.
LEMMA JobsPlacedStep ==
  ASSUME DrainInv, JobsPlaced, [Next]_vars
  PROVE  JobsPlaced'
<1> USE DEF DrainInv, Goto, Return, bufferVars, queueVars, tickerVars, callVars, workerVars, closeVars,
            serverVars
<1>1. CASE UNCHANGED <<flushCh, callPc, detached>>
  BY <1>1 DEF JobsPlaced
<1>2. ASSUME NEW j \in Jobs, j.kind # "batch" => j.rows = <<>>, flushCh' = Append(flushCh, j)
      PROVE  \A i \in DOMAIN flushCh' : flushCh'[i].kind # "batch" => flushCh'[i].rows = <<>>
  BY <1>2, AppendedJobs DEF JobsPlaced
<1>3. ASSUME NEW c \in Calls, Write(c) PROVE JobsPlaced'
  <2>0. /\ RowsOf[c] \in Seq(Rows) /\ RowsOf[c] # <<>> /\ buf \in Seq(Rows) /\ detached[c] \in Seq(Rows)
        /\ DOMAIN callPc = Calls /\ DOMAIN detached = Calls
    BY RowsAssumption DEF TypeOK
  <2>1. \A d \in Calls \ {c} : callPc'[d] = callPc[d] /\ (detached'[d] = <<>> <=> detached[d] = <<>>)
    BY <1>3, WriteFrames DEF WriteFrame
  <2>2. CASE WriteDetaches(c)
    <3>1. buf \o RowsOf[c] # <<>>
      <4>1. Len(RowsOf[c]) \in Nat \ {0} /\ Len(buf) \in Nat
        BY <2>0, EmptySeq, LenProperties
      <4>2. Len(buf \o RowsOf[c]) # 0
        BY <2>0, <4>1, ConcatProperties
      <4> QED BY <4>2, EmptySeq
    <3>2. detached'[c] # <<>>
      <4>1. PICK x : detached' = [DetachedAfter(x, Len(buf), RowsOf[c]) EXCEPT ![c] = buf \o RowsOf[c]]
        BY <2>2 DEF WriteDetaches
      <4>2. detached'[c] = buf \o RowsOf[c]
        BY <4>1 DEF DetachedAfter
      <4> QED BY <3>1, <4>2
    <3>3. UNCHANGED flushCh
      BY <2>2 DEF WriteDetaches
    <3> QED BY <2>1, <3>2, <3>3 DEF JobsPlaced
  <2>3. CASE SendBatch(c)
    <3>1. Job("batch", detached[c], Nobody) \in Jobs /\ Job("batch", detached[c], Nobody).kind = "batch"
      BY <2>0 DEF Job, Jobs, Waiters
    <3>2. callPc'[c] # "enqueue"
      BY <2>0, <2>3 DEF SendBatch
    <3> QED BY <1>2, <2>1, <2>3, <3>1, <3>2 DEF SendBatch, JobsPlaced
  <2>4. CASE SendLeftover(c)
    <3>1. Job("drain", <<>>, c) \in Jobs /\ Job("drain", <<>>, c).rows = <<>>
      BY EmptySeq DEF Job, Jobs, Waiters
    <3>2. callPc'[c] # "enqueue"
      BY <2>0, <2>4 DEF SendLeftover
    <3> QED BY <1>2, <2>1, <2>4, <3>1, <3>2 DEF SendLeftover, JobsPlaced
  <2>5. CASE UNCHANGED flushCh /\ callPc'[c] # "enqueue"
    BY <2>1, <2>5 DEF JobsPlaced
  <2>6. CASE Cancel(c)
    BY <1>1, <2>6 DEF Cancel
  <2> QED
    BY <1>3, <2>0, <2>2, <2>3, <2>4, <2>5, <2>6
    DEF Write, WriteStep, SendStep, WriteRefused, WriteBegin, WriteBuffers, WriteRetriesLeftover,
        RecheckClosed, RecheckFull, EnqueueOpen, EnqueueClosed, GiveBack, SendBlocks, SendCancelled,
        AwaitDone, AwaitCancelled
<1>4. CASE Worker
  <2>1. UNCHANGED callPc /\ \A c \in Calls : detached'[c] = <<>> <=> detached[c] = <<>>
    BY <1>4, WorkerKeepsEmpty
    DEF Worker, WorkerTakesBatch, WorkerTakesDrain, WorkerTakesIdle, WorkerFetches, WorkerFindsNothing,
        WorkerAddsColumns, AddColumnsFails, WorkerInserts, InsertFails, WorkerExits
  <2>2. UNCHANGED flushCh \/ (flushCh # <<>> /\ flushCh' = Tail(flushCh))
    BY <1>4
    DEF Worker, WorkerTakesBatch, WorkerTakesDrain, WorkerTakesIdle, WorkerFetches,
        WorkerFindsNothing, WorkerAddsColumns, AddColumnsFails, WorkerInserts, InsertFails, WorkerExits
  <2>3. CASE flushCh # <<>> /\ flushCh' = Tail(flushCh)
    BY <2>1, <2>3, TakenJob DEF JobsPlaced
  <2> QED BY <2>1, <2>2, <2>3 DEF JobsPlaced
<1>5. CASE Start \/ Ticker \/ CloseBegin \/ CloseStep \/ CloseSend \/ Panics
  <2>1. UNCHANGED <<callPc, detached>>
    BY <1>5, OthersMoveNothing
  <2>2. ASSUME NEW who \in Waiters, NEW kind \in {"drain", "idle"}, flushCh' = Append(flushCh, Job(kind, <<>>, who))
        PROVE  JobsPlaced'
    <3>1. Job(kind, <<>>, who) \in Jobs /\ Job(kind, <<>>, who).rows = <<>>
      BY EmptySeq DEF Job, Jobs
    <3> QED BY <1>2, <2>1, <2>2, <3>1 DEF JobsPlaced
  <2>3. Nobody \in Waiters /\ Closer \in Waiters
    BY DEF Waiters
  <2> QED
    BY <1>1, <1>5, <2>1, <2>2, <2>3
    DEF Start, Ticker, TickerFires, TickerSends, TickerSkips, TickerStops, Panics,
        CloseBegin, CloseStep, CloseTickerDone, CloseGivesUp, CloseWritersDone, CloseSynced,
        CloseDrained, CloseDrainFails, CloseChannel, CloseEnd, CloseSend, CloseSyncs, CloseDrains
<1>6. CASE UNCHANGED vars
  BY <1>1, <1>6 DEF vars
<1> QED BY <1>3, <1>4, <1>5, <1>6 DEF Next, Terminated

\* Every step is one of the three, and bounded by them on a shared array.
LEMMA RowsStep ==
  ASSUME DrainInv, JobsPlaced, [Next]_vars
  PROVE  /\ RowsFewer \/ \E c \in Calls : RowsMore(c)
         /\ ~Sharing /\ Named => RowsStay \/ RowsInserted \/ \E c \in Calls : RowsJoin(c)
<1>1. RowsStay => RowsFewer
  BY DEF RowsStay, RowsFewer
<1>2. CASE UNCHANGED vars
  BY <1>1, <1>2, HeldParts DEF vars, bufferVars, queueVars, callVars, workerVars, serverVars, RowsStay
<1>3. CASE \E c \in Calls : Write(c)
  BY <1>3, WriteRows
<1>4. CASE Worker
  BY <1>4, WorkerRows
<1>5. CASE Start \/ Ticker \/ CloseBegin \/ CloseStep \/ CloseSend \/ Panics
  BY <1>1, <1>5, OthersMoveNothing
<1> QED
  BY <1>2, <1>3, <1>4, <1>5 DEF Next, Terminated

\* The rows of a call that does not append stay where they are not.
LEMMA LeftStays ==
  ASSUME DrainInv, JobsPlaced, [Next]_vars, NEW c \in Calls, Left(c),
         Unaccepted(c)' \/ callPc[c] = "done" \/ (Done(c)' /\ outcome'[c] # "nil")
  PROVE  Left(c)'
<1>1. CASE RowsFewer
  BY <1>1 DEF RowsFewer, Left
<1>2. ASSUME NEW d \in Calls, RowsMore(d) PROVE Left(c)'
  <2>1. c # d
    BY <1>2 DEF RowsMore, Brings, MayAppend, Done
  <2>2. Range(RowsOf[c]) \cap Range(RowsOf[d]) = {}
    BY <2>1, OccurrencesAssumption
  <2> QED BY <1>2, <2>2 DEF RowsMore, Left
<1> QED BY <1>1, <1>2, RowsStep

LEMMA NotYetHeldStep ==
  ASSUME DrainInv, JobsPlaced, NotYetHeld, [Next]_vars
  PROVE  NotYetHeld'
BY UnacceptedStep, LeftStays DEF NotYetHeld, Left

\* The rows of a call are with the writer only once it appended them, after one
\* of the looks it takes at the cap.
LEMMA RowsPlaced == Spec => [](DrainInv /\ JobsPlaced /\ NotYetHeld /\ Named)
<1>1. Init => JobsPlaced /\ NotYetHeld /\ Named
  <2> SUFFICES ASSUME Init PROVE JobsPlaced /\ NotYetHeld /\ Named
    OBVIOUS
  <2>1. JobsPlaced /\ Named
    BY NamesAssumption DEF Init, JobsPlaced, Named
  <2>2. /\ Range(buf) = {} /\ Range(batch) = {} /\ DetachedRows = {} /\ QueuedRows = {}
        /\ StoredRows = {}
    BY EmptyRange DEF Init, DetachedRows, QueuedRows, StoredRows
  <2> QED BY <2>1, <2>2, HeldParts DEF NotYetHeld, Left
<1>2. ASSUME DrainInv, JobsPlaced, NotYetHeld, Named, [Next]_vars
      PROVE  JobsPlaced' /\ NotYetHeld' /\ Named'
  BY <1>2, JobsPlacedStep, NotYetHeldStep, NamedStep DEF DrainInv
<1> QED BY <1>1, <1>2, WriterInvariant, PTL DEF Spec

\* A step that does not begin on a shared array is one the abstract store takes.
LEMMA StoreStep ==
  ASSUME DrainInv, JobsPlaced, NotYetHeld, Named, ~Sharing, [Next]_vars
  PROVE  [Abstract!Next]_<<HeldRows, StoredRows>>
<1>1. CASE RowsStay
  BY <1>1 DEF RowsStay
<1>2. CASE RowsInserted
  <2>1. Range(batch) \in SUBSET HeldRows /\ Range(batch) \cap HeldRows' \in SUBSET Range(batch)
    BY DEF HeldRows
  <2>2. Abstract!Store(Range(batch), Range(batch) \cap HeldRows')
    BY <1>2 DEF RowsInserted, Abstract!Store
  <2> QED BY <2>1, <2>2 DEF Abstract!Next
<1>3. ASSUME NEW c \in Calls, RowsJoin(c) PROVE Abstract!Next
  <2>1. Unaccepted(c)
    BY <1>3 DEF RowsJoin, Brings, MayAppend, Unaccepted
  <2>2. Abstract!Accept(Range(RowsOf[c]))
    BY <1>3 DEF RowsJoin, Abstract!Accept
  <2>3. Range(RowsOf[c]) \subseteq Rows
    BY RowsAssumption, RangeOfSeq
  <2>4. Range(RowsOf[c]) \cap (HeldRows \cup StoredRows) = {}
    BY <2>1 DEF NotYetHeld, Left
  <2>5. Range(RowsOf[c]) \in SUBSET (Rows \ (HeldRows \cup StoredRows))
    BY <2>3, <2>4
  <2> QED BY <2>2, <2>5 DEF Abstract!Next
<1> QED BY <1>1, <1>2, <1>3, RowsStep

\* Whatever fails, is cancelled or overlaps with Close, rows enter the writer
\* only with their call and leave it only into the table, at every step that
\* does not begin with two slices on one array.
THEOREM RowsKeptUnlessShared == Spec => KeptUnlessShared
<1>1. DrainInv /\ JobsPlaced /\ NotYetHeld /\ Named /\ [Next]_vars
        => [~Sharing => [Abstract!Next]_<<HeldRows, StoredRows>>]_vars
  BY StoreStep
<1> QED BY <1>1, RowsPlaced, PTL DEF Spec, KeptUnlessShared

(***************************************************************************)
(* When Close waits for the calls.                                         *)
(***************************************************************************)

\* None is running once closed is set, and no slice shares its array.
Calm == closed => InFlight = {}

Unshared == \A h \in Holders : shares[h] = Own

LEMMA CalmStep ==
  ASSUME ~CloseOverlaps, DrainInv, Calm, [Next]_vars
  PROVE  Calm'
<1> USE DEF DrainInv
<1>1. CASE UNCHANGED <<closed, callPc>>
  BY <1>1 DEF Calm, InFlight
<1>2. ASSUME NEW c \in Calls, Write(c) PROVE Calm'
  <2>1. WriteFrame(c)
    BY <1>2, WriteFrames
  <2> SUFFICES ASSUME closed PROVE InFlight' = {}
    BY <2>1 DEF Calm, WriteFrame
  <2>2. \A d \in Calls : callPc[d] \in {"new", "done"}
    BY DEF Calm, InFlight
  <2>3. \A d \in Calls : callPc'[d] \in {"new", "done"}
    BY <2>1, <2>2 DEF WriteFrame
  <2> QED BY <2>3 DEF InFlight
<1>3. CASE CloseBegin
  BY <1>3 DEF CloseBegin, Calm, InFlight, callVars
<1>4. CASE Worker
  BY <1>1, <1>4
  DEF Worker, WorkerTakesBatch, WorkerTakesDrain, WorkerTakesIdle, WorkerFetches, WorkerFindsNothing,
      WorkerAddsColumns, AddColumnsFails, WorkerInserts, InsertFails, WorkerExits, bufferVars, callVars
<1>5. CASE Start \/ Ticker \/ CloseStep \/ CloseSend \/ Panics
  BY <1>1, <1>5
  DEF Start, Ticker, TickerFires, TickerSends, TickerSkips, TickerStops, Panics,
      CloseStep, CloseTickerDone, CloseGivesUp, CloseWritersDone, CloseSynced, CloseDrained,
      CloseDrainFails, CloseChannel, CloseEnd, CloseSend, CloseSyncs, CloseDrains, bufferVars, callVars
<1>6. CASE UNCHANGED vars
  BY <1>1, <1>6 DEF vars, bufferVars, callVars
<1> QED BY <1>2, <1>3, <1>4, <1>5, <1>6 DEF Next, Terminated

LEMMA UnsharedStep ==
  ASSUME TypeOK, Calm, Unshared, [Next]_vars
  PROVE  Unshared'
<1> SUFFICES ASSUME NEW h \in Holders, shares'[h] # Own PROVE FALSE
  BY DEF Unshared
<1>1. ASSUME NEW c \in Calls PROVE ~EnqueueClosed(c)
  BY DEF EnqueueClosed, Calm, InFlight
<1> QED BY <1>1, SharesStep DEF Unshared

LEMMA ClosesCalmly ==
  ASSUME ~CloseOverlaps
  PROVE  Spec => [](DrainInv /\ JobsPlaced /\ NotYetHeld /\ Named /\ Calm /\ Unshared)
<1>1. Init => Calm /\ Unshared
  BY DEF Init, Calm, Unshared
<1>2. ASSUME DrainInv, Calm, Unshared, [Next]_vars PROVE Calm' /\ Unshared'
  BY <1>2, CalmStep, UnsharedStep DEF DrainInv
<1> QED BY <1>1, <1>2, RowsPlaced, PTL DEF Spec

\* When Close does not overlap with a Write the writer implements at-least-once
\* delivery: rows leave it only into the table, whatever fails or is cancelled,
\* and a row that was inserted and reported as failed is inserted again.
THEOREM WriterImplementsRowStore ==
  ASSUME ~CloseOverlaps
  PROVE  Spec => ImplementsRowStore
<1>1. Init => Abstract!Init
  <2> SUFFICES ASSUME Init PROVE HeldRows = {} /\ StoredRows = {}
    BY DEF Abstract!Init
  <2>1. /\ Range(buf) = {} /\ Range(batch) = {} /\ DetachedRows = {} /\ QueuedRows = {}
        /\ StoredRows = {}
    BY EmptyRange DEF Init, DetachedRows, QueuedRows, StoredRows
  <2> QED BY <2>1, HeldParts
<1>2. DrainInv /\ JobsPlaced /\ NotYetHeld /\ Named /\ Unshared /\ [Next]_vars
        => [Abstract!Next]_<<HeldRows, StoredRows>>
  BY StoreStep DEF Unshared, Sharing
<1> QED BY <1>1, <1>2, ClosesCalmly, PTL DEF Spec, ImplementsRowStore, Abstract!Spec

(***************************************************************************)
(* All or nothing.                                                         *)
(***************************************************************************)

\* What a call that brought no row does next: bring them all, go on, or return
\* an error (Write, enqueueFlush).
LEMMA UnacceptedEnds ==
  ASSUME DrainInv, NEW c \in Calls, Write(c), Unaccepted(c)
  PROVE  \/ Appends(c) \/ Unaccepted(c)'
         \/ callPc'[c] = "done" /\ outcome'[c] # "nil"
<1> USE DEF DrainInv, Goto, Return
<1>1. /\ DOMAIN callPc = Calls /\ DOMAIN outcome = Calls
      /\ detached[c] # <<>> => callPc[c] \in {"enqueue", "send", "blocked", "giveBack"}
  BY DEF TypeOK, BatchesPlaced
<1>2. detached[c] = <<>> /\ callPc[c] \notin {"enqueue", "giveBack", "done"}
  BY <1>1 DEF Unaccepted
<1>3. CASE WriteRefused(c) \/ RecheckClosed(c) \/ RecheckFull(c) \/ AwaitCancelled(c) \/ SendCancelled(c)
  BY <1>1, <1>2, <1>3 DEF WriteRefused, RecheckClosed, RecheckFull, AwaitCancelled, SendCancelled
<1>4. CASE WriteBegin(c) \/ WriteRetriesLeftover(c) \/ SendLeftover(c) \/ SendBlocks(c) \/ AwaitDone(c)
  BY <1>1, <1>2, <1>4
  DEF WriteBegin, WriteRetriesLeftover, SendLeftover, SendBlocks, AwaitDone, Unaccepted
<1>5. ~EnqueueOpen(c) /\ ~EnqueueClosed(c) /\ ~GiveBack(c) /\ ~SendBatch(c)
  BY <1>2 DEF EnqueueOpen, EnqueueClosed, GiveBack, SendBatch
<1>6. CASE Cancel(c)
  BY <1>6 DEF Cancel, Unaccepted, callVars
<1> QED BY <1>3, <1>4, <1>5, <1>6 DEF Write, WriteStep, SendStep, Appends

\* A step of anyone else leaves a call where it is.
LEMMA OnlyItsSteps ==
  ASSUME DrainInv, [Next]_vars, NEW c \in Calls, ~Write(c)
  PROVE  /\ callPc'[c] = callPc[c] /\ outcome'[c] = outcome[c]
         /\ Unaccepted(c)' <=> Unaccepted(c)
<1> USE DEF DrainInv
<1>1. CASE UNCHANGED callVars
  BY <1>1 DEF callVars, Unaccepted
<1>2. ASSUME NEW d \in Calls \ {c}, Write(d)
      PROVE  /\ callPc'[c] = callPc[c] /\ outcome'[c] = outcome[c]
             /\ detached'[c] = <<>> <=> detached[c] = <<>>
  <2>1. callPc'[c] = callPc[c] /\ (detached'[c] = <<>> <=> detached[c] = <<>>)
    BY <1>2, WriteFrames DEF WriteFrame
  <2>2. outcome' = outcome \/ outcome' = [outcome EXCEPT ![d] = outcome'[d]]
    BY <1>2
    DEF Write, WriteRefused, WriteBegin, WriteStep, WriteBuffers, WriteDetaches,
        WriteRetriesLeftover, RecheckClosed, RecheckFull, EnqueueOpen, EnqueueClosed, GiveBack,
        SendBlocks, SendCancelled, AwaitDone, AwaitCancelled, SendStep, SendBatch, SendLeftover, Cancel,
        Return, callVars, TypeOK
  <2> QED BY <2>1, <2>2 DEF TypeOK
<1>3. CASE Worker
  <2>1. UNCHANGED <<callPc, outcome>> /\ (detached'[c] = <<>> <=> detached[c] = <<>>)
    BY <1>3, WorkerKeepsEmpty
    DEF Worker, WorkerTakesBatch, WorkerTakesDrain, WorkerTakesIdle, WorkerFetches, WorkerFindsNothing,
        WorkerAddsColumns, AddColumnsFails, WorkerInserts, InsertFails, WorkerExits, callVars
  <2> QED BY <2>1 DEF Unaccepted
<1>4. CASE Start \/ Ticker \/ CloseBegin \/ CloseStep \/ CloseSend \/ Panics
  BY <1>1, <1>4, OthersMoveNothing
<1>5. CASE UNCHANGED vars
  BY <1>1, <1>5 DEF vars
<1> QED BY <1>2, <1>3, <1>4, <1>5 DEF Next, Terminated, Unaccepted

\* Only a call that looked at the cap again is refused for a full buffer (Write).
LEMMA FullAtRecheck ==
  ASSUME DrainInv, [Next]_vars, NEW c \in Calls, outcome'[c] = "full", outcome[c] # "full"
  PROVE  RecheckFull(c)
<1> USE DEF Return, callVars
<1>1. DOMAIN outcome = Calls
  BY DEF DrainInv, TypeOK
<1>2. Write(c)
  BY OnlyItsSteps
<1> QED
  BY <1>1, <1>2
  DEF Write, WriteRefused, WriteBegin, WriteStep, WriteBuffers, WriteDetaches,
      WriteRetriesLeftover, RecheckClosed, EnqueueOpen, EnqueueClosed, GiveBack,
      SendBlocks, SendCancelled, AwaitDone, AwaitCancelled, SendStep, SendBatch, SendLeftover, Cancel

FullIsDone == \A c \in Calls : outcome[c] = "full" => Done(c) /\ Left(c)

\* A Write that is refused for a full buffer had not brought its rows, neither
\* before it waited for the leftover nor after: its caller may bring them again.
THEOREM RefusedLeavesNothing == Spec => []FullMeansRefused
<1>1. Init => FullIsDone
  BY DEF Init, FullIsDone
<1>2. ASSUME DrainInv, JobsPlaced, NotYetHeld, FullIsDone, [Next]_vars
      PROVE  FullIsDone'
  <2> SUFFICES ASSUME NEW c \in Calls, outcome'[c] = "full"
               PROVE  Done(c)' /\ Left(c)'
    BY DEF FullIsDone
  <2>1. CASE outcome[c] = "full"
    <3>1. callPc[c] = "done" /\ Left(c)
      BY <1>2, <2>1 DEF FullIsDone, Done
    <3> QED BY <1>2, <3>1, GivenBackStays, LeftStays DEF DrainInv, Done
  <2>2. CASE outcome[c] # "full"
    <3>1. RecheckFull(c)
      BY <1>2, <2>2, FullAtRecheck
    <3>2. Unaccepted(c) /\ Done(c)'
      BY <1>2, <3>1 DEF RecheckFull, Return, Goto, Unaccepted, Done, DrainInv, TypeOK
    <3> QED BY <1>2, <3>2, LeftStays DEF NotYetHeld
  <2> QED BY <2>1, <2>2
<1>3. FullIsDone => FullMeansRefused
  BY DEF FullIsDone, FullMeansRefused
<1> QED BY <1>1, <1>2, <1>3, RowsPlaced, PTL DEF Spec

\* Where the rows of each call are: not brought, all of them, or none any more.
Settles ==
  \A c \in Calls : Unaccepted(c) \/ Kept(c) \/ (Done(c) /\ outcome[c] # "nil" /\ Left(c))

LEMMA SettlesStep ==
  ASSUME DrainInv, JobsPlaced, NotYetHeld, Named, ~Sharing, Settles, [Next]_vars
  PROVE  Settles'
<1> SUFFICES ASSUME NEW c \in Calls
             PROVE  Unaccepted(c)' \/ Kept(c)' \/ (Done(c)' /\ outcome'[c] # "nil" /\ Left(c)')
  BY DEF Settles
<1>1. CASE Kept(c)
  BY <1>1, RowsStep DEF Kept, RowsStay, RowsInserted, RowsJoin
<1>2. CASE Done(c) /\ outcome[c] # "nil" /\ Left(c)
  <2>1. callPc[c] = "done"
    BY <1>2 DEF Done
  <2>2. callPc'[c] = "done" /\ outcome'[c] = outcome[c]
    BY <2>1, GivenBackStays DEF DrainInv
  <2> QED BY <1>2, <2>1, <2>2, LeftStays DEF Done
<1>3. CASE Unaccepted(c)
  <2>1. CASE ~Write(c)
    BY <1>3, <2>1, OnlyItsSteps
  <2>2. CASE Write(c) /\ Appends(c)
    <3>1. RowsJoin(c)
      BY <2>2, AppendRows
    <3> QED BY <3>1 DEF RowsJoin, Kept
  <2>3. CASE Write(c) /\ callPc'[c] = "done" /\ outcome'[c] # "nil"
    BY <1>3, <2>3, LeftStays DEF NotYetHeld, Done
  <2> QED BY <1>3, <2>1, <2>2, <2>3, UnacceptedEnds
<1> QED BY <1>1, <1>2, <1>3 DEF Settles

\* When Close does not overlap with it, a Write is all or nothing, whichever
\* call's ctx ends and whatever fails: its rows are in memory or stored when it
\* returns nil, and all of them or none when it returns an error.
THEOREM WriteIsAllOrNothing ==
  ASSUME ~CloseOverlaps
  PROVE  Spec => []AllOrNothing
<1>1. Init => Settles
  BY DEF Init, Settles, Unaccepted
<1>2. ASSUME DrainInv, JobsPlaced, NotYetHeld, Named, Unshared, Settles, [Next]_vars
      PROVE  Settles'
  BY <1>2, SettlesStep DEF Unshared, Sharing
<1>3. Settles => AllOrNothing
  BY DEF Settles, AllOrNothing, Unaccepted, Done
<1> QED BY <1>1, <1>2, <1>3, ClosesCalmly, PTL DEF Spec

(***************************************************************************)
(* One place for each row.                                                 *)
(***************************************************************************)

Apart(s, t) == Range(s) \cap Range(t) = {}

LEMMA ApartFacts ==
  /\ \A s, t : Apart(s, t) <=> Apart(t, s)
  /\ \A s : Apart(<<>>, s) /\ Apart(s, <<>>)
  /\ IsInjective(<<>>)
<1>1. \A s, t : Apart(s, t) <=> Apart(t, s)
  BY DEF Apart
<1>2. \A s : Apart(<<>>, s) /\ Apart(s, <<>>)
  BY EmptyRange DEF Apart
<1>3. IsInjective(<<>>)
  BY DEF IsInjective
<1> QED BY <1>1, <1>2, <1>3

\* Two batches put together are apart from a third if each of them is.
LEMMA ApartConcat ==
  ASSUME NEW s \in Seq(Rows), NEW t \in Seq(Rows), NEW u
  PROVE  Apart(s \o t, u) <=> Apart(s, u) /\ Apart(t, u)
BY ConcatRange DEF Apart

\* They bring no row twice if neither does and they are apart.
LEMMA InjectiveConcat ==
  ASSUME NEW s \in Seq(Rows), NEW t \in Seq(Rows), IsInjective(s), IsInjective(t), Apart(s, t)
  PROVE  IsInjective(s \o t)
<1>1. /\ DOMAIN s = 1..Len(s) /\ DOMAIN t = 1..Len(t) /\ Len(s) \in Nat /\ Len(t) \in Nat
      /\ DOMAIN (s \o t) = 1..(Len(s) + Len(t))
      /\ \A i \in 1..(Len(s) + Len(t)) : (s \o t)[i] = IF i <= Len(s) THEN s[i] ELSE t[i - Len(s)]
  BY ConcatProperties, LenProperties
<1> DEFINE st == s \o t
<1> HIDE DEF st
<1>2. /\ \A i \in DOMAIN st : i \in Int
      /\ \A i \in DOMAIN st : i <= Len(s) => i \in DOMAIN s /\ st[i] = s[i]
      /\ \A i \in DOMAIN st : ~(i <= Len(s)) => i - Len(s) \in DOMAIN t /\ st[i] = t[i - Len(s)]
  BY <1>1 DEF st
<1>3. /\ \A i, j \in DOMAIN s : s[i] = s[j] => i = j
      /\ \A i, j \in DOMAIN t : t[i] = t[j] => i = j
      /\ \A i \in DOMAIN s, j \in DOMAIN t : s[i] # t[j]
  BY DEF IsInjective, Apart, Range
<1>4. ASSUME NEW i \in DOMAIN st, NEW j \in DOMAIN st, st[i] = st[j]
      PROVE  i = j
  <2>1. CASE i <= Len(s) /\ j <= Len(s)
    BY <1>2, <1>3, <1>4, <2>1
  <2>2. CASE ~(i <= Len(s)) /\ ~(j <= Len(s))
    <3>1. i - Len(s) = j - Len(s)
      BY <1>2, <1>3, <1>4, <2>2
    <3> QED BY <1>1, <1>2, <3>1
  <2> QED BY <1>2, <1>3, <1>4, <2>1, <2>2
<1> QED BY <1>4 DEF IsInjective, st

\* A row is in one place at a time: in the buffer, the worker's batch, the batch
\* of a call or a job, and once in each.
OncePlaced ==
  /\ IsInjective(buf) /\ IsInjective(batch) /\ Apart(buf, batch)
  /\ \A c \in Calls :
       /\ IsInjective(detached[c]) /\ Apart(detached[c], buf) /\ Apart(detached[c], batch)
       /\ \A d \in Calls \ {c} : Apart(detached[c], detached[d])
       /\ \A i \in DOMAIN flushCh : Apart(detached[c], flushCh[i].rows)
  /\ \A i \in DOMAIN flushCh :
       /\ IsInjective(flushCh[i].rows) /\ Apart(flushCh[i].rows, buf) /\ Apart(flushCh[i].rows, batch)
       /\ \A j \in DOMAIN flushCh \ {i} : Apart(flushCh[i].rows, flushCh[j].rows)

\* The rows of a call that has not brought them are apart from all others.
LEMMA FreshApart ==
  ASSUME NotYetHeld, NEW c \in Calls, Unaccepted(c)
  PROVE  /\ IsInjective(RowsOf[c])
         /\ Apart(RowsOf[c], buf) /\ Apart(RowsOf[c], batch)
         /\ \A d \in Calls : Apart(RowsOf[c], detached[d])
         /\ \A i \in DOMAIN flushCh : Apart(RowsOf[c], flushCh[i].rows)
<1>1. Range(RowsOf[c]) \cap HeldRows = {}
  BY DEF NotYetHeld, Left
<1>2. /\ Range(buf) \subseteq HeldRows /\ Range(batch) \subseteq HeldRows
      /\ DetachedRows \subseteq HeldRows /\ QueuedRows \subseteq HeldRows
  BY HeldParts
<1>3. /\ \A d \in Calls : Range(detached[d]) \subseteq DetachedRows
      /\ \A i \in DOMAIN flushCh : Range(flushCh[i].rows) \subseteq QueuedRows
  BY DEF DetachedRows, QueuedRows
<1> QED BY <1>1, <1>2, <1>3, OccurrencesAssumption DEF Apart

\* A job joins the queue: its rows were apart from all others, or are none.
LEMMA AppendOnce ==
  ASSUME TypeOK, OncePlaced, NEW j \in Jobs, flushCh' = Append(flushCh, j), UNCHANGED <<buf, batch>>,
         NEW c \in Calls, detached[c] = j.rows, detached' = [detached EXCEPT ![c] = <<>>]
  PROVE  OncePlaced'
<1>1. /\ DOMAIN flushCh = 1..Len(flushCh) /\ Len(flushCh) \in Nat
      /\ DOMAIN flushCh' = 1..(Len(flushCh) + 1)
      /\ \A i \in DOMAIN flushCh : flushCh'[i] = flushCh[i]
      /\ flushCh'[Len(flushCh) + 1] = j
  BY AppendedJobs
<1>2. /\ DOMAIN flushCh' = DOMAIN flushCh \cup {Len(flushCh) + 1}
      /\ Len(flushCh) + 1 \notin DOMAIN flushCh
  BY <1>1
<1>3. DOMAIN detached = Calls /\ detached'[c] = <<>> /\ \A d \in Calls \ {c} : detached'[d] = detached[d]
  BY DEF TypeOK
<1> DEFINE n == Len(flushCh) + 1
<1> HIDE DEF n
<1>4. /\ \A i \in DOMAIN flushCh : flushCh'[i].rows = flushCh[i].rows
      /\ flushCh'[n].rows = detached[c] /\ n \notin DOMAIN flushCh
      /\ DOMAIN flushCh' = DOMAIN flushCh \cup {n}
  BY <1>1, <1>2 DEF n
<1>5. ASSUME NEW d \in Calls
      PROVE  /\ IsInjective(detached'[d]) /\ Apart(detached'[d], buf') /\ Apart(detached'[d], batch')
             /\ \A e \in Calls \ {d} : Apart(detached'[d], detached'[e])
             /\ \A i \in DOMAIN flushCh' : Apart(detached'[d], flushCh'[i].rows)
  BY <1>3, <1>4, ApartFacts DEF OncePlaced
<1>6. ASSUME NEW i \in DOMAIN flushCh'
      PROVE  /\ IsInjective(flushCh'[i].rows) /\ Apart(flushCh'[i].rows, buf')
             /\ Apart(flushCh'[i].rows, batch')
             /\ \A k \in DOMAIN flushCh' \ {i} : Apart(flushCh'[i].rows, flushCh'[k].rows)
  BY <1>4, ApartFacts DEF OncePlaced
<1>7. IsInjective(buf') /\ IsInjective(batch') /\ Apart(buf', batch')
  BY DEF OncePlaced
<1> QED BY <1>5, <1>6, <1>7 DEF OncePlaced

\* A job without rows joins the queue.
LEMMA AppendNone ==
  ASSUME TypeOK, OncePlaced, NEW j \in Jobs, j.rows = <<>>, flushCh' = Append(flushCh, j),
         UNCHANGED <<buf, batch, detached>>
  PROVE  OncePlaced'
<1>1. /\ DOMAIN flushCh = 1..Len(flushCh) /\ Len(flushCh) \in Nat
      /\ DOMAIN flushCh' = 1..(Len(flushCh) + 1)
      /\ \A i \in DOMAIN flushCh : flushCh'[i] = flushCh[i]
      /\ flushCh'[Len(flushCh) + 1] = j
  BY AppendedJobs
<1>2. \A i \in DOMAIN flushCh' : i \in DOMAIN flushCh \/ i = Len(flushCh) + 1
  BY <1>1
<1>3. \A i \in DOMAIN flushCh' :
        \/ i \in DOMAIN flushCh /\ flushCh'[i].rows = flushCh[i].rows
        \/ flushCh'[i].rows = <<>>
  BY <1>1, <1>2
<1>4. ASSUME NEW i \in DOMAIN flushCh'
      PROVE  /\ IsInjective(flushCh'[i].rows) /\ Apart(flushCh'[i].rows, buf')
             /\ Apart(flushCh'[i].rows, batch')
             /\ \A k \in DOMAIN flushCh' \ {i} : Apart(flushCh'[i].rows, flushCh'[k].rows)
  BY <1>3, ApartFacts DEF OncePlaced
<1>5. ASSUME NEW d \in Calls
      PROVE  /\ IsInjective(detached'[d]) /\ Apart(detached'[d], buf') /\ Apart(detached'[d], batch')
             /\ \A e \in Calls \ {d} : Apart(detached'[d], detached'[e])
             /\ \A i \in DOMAIN flushCh' : Apart(detached'[d], flushCh'[i].rows)
  BY <1>3, ApartFacts DEF OncePlaced
<1>6. IsInjective(buf') /\ IsInjective(batch') /\ Apart(buf', batch')
  BY DEF OncePlaced
<1> QED BY <1>4, <1>5, <1>6 DEF OncePlaced

\* The worker takes the first job, and its rows if it has any.
LEMMA TakeOnce ==
  ASSUME TypeOK, OncePlaced, flushCh # <<>>, flushCh' = Tail(flushCh), UNCHANGED <<buf, detached>>,
         batch = <<>>, batch' \in {<<>>, Head(flushCh).rows}
  PROVE  OncePlaced'
<1>1. /\ DOMAIN flushCh = 1..Len(flushCh) /\ Len(flushCh) \in Nat \ {0} /\ Head(flushCh) = flushCh[1]
      /\ DOMAIN flushCh' = 1..(Len(flushCh) - 1)
      /\ \A i \in DOMAIN flushCh' : flushCh'[i] = flushCh[i + 1]
  BY TakenJob
<1>2. /\ 1 \in DOMAIN flushCh
      /\ \A i \in DOMAIN flushCh' : i + 1 \in DOMAIN flushCh /\ i + 1 # 1
      /\ \A i, k \in DOMAIN flushCh' : i # k => i + 1 # k + 1
  BY <1>1
<1>3. ASSUME NEW i \in DOMAIN flushCh'
      PROVE  /\ IsInjective(flushCh'[i].rows) /\ Apart(flushCh'[i].rows, buf')
             /\ Apart(flushCh'[i].rows, Head(flushCh).rows)
             /\ \A k \in DOMAIN flushCh' \ {i} : Apart(flushCh'[i].rows, flushCh'[k].rows)
  <2>1. i + 1 \in DOMAIN flushCh /\ flushCh'[i] = flushCh[i + 1]
    BY <1>1, <1>2
  <2>2. \A k \in DOMAIN flushCh' \ {i} : k + 1 \in DOMAIN flushCh \ {i + 1} /\ flushCh'[k] = flushCh[k + 1]
    BY <1>1, <1>2
  <2>3. 1 \in DOMAIN flushCh \ {i + 1}
    BY <1>2
  <2> QED BY <1>1, <2>1, <2>2, <2>3 DEF OncePlaced
<1>4. /\ IsInjective(Head(flushCh).rows) /\ Apart(Head(flushCh).rows, buf)
      /\ \A c \in Calls : Apart(detached[c], Head(flushCh).rows)
  BY <1>1, <1>2 DEF OncePlaced
<1>5. /\ IsInjective(batch') /\ Apart(buf', batch')
      /\ \A c \in Calls : Apart(detached'[c], batch')
      /\ \A i \in DOMAIN flushCh' : Apart(flushCh'[i].rows, batch')
  BY <1>3, <1>4, ApartFacts
<1>6. ASSUME NEW d \in Calls
      PROVE  /\ IsInjective(detached'[d]) /\ Apart(detached'[d], buf')
             /\ \A e \in Calls \ {d} : Apart(detached'[d], detached'[e])
             /\ \A i \in DOMAIN flushCh' : Apart(detached'[d], flushCh'[i].rows)
  BY <1>1, <1>2 DEF OncePlaced
<1>7. IsInjective(buf')
  BY DEF OncePlaced
<1> QED BY <1>3, <1>5, <1>6, <1>7 DEF OncePlaced

\* Moves that leave the queue alone: some rows t join s in front of the buffer
\* or behind it, and s, t are with nobody else afterwards.
LEMMA MoveOnce ==
  ASSUME TypeOK, OncePlaced, UNCHANGED flushCh,
         IsInjective(buf'), IsInjective(batch'), Apart(buf', batch'),
         DOMAIN detached' = Calls,
         \A c \in Calls :
           /\ IsInjective(detached'[c]) /\ Apart(detached'[c], buf') /\ Apart(detached'[c], batch')
           /\ \A d \in Calls \ {c} : Apart(detached'[c], detached'[d])
           /\ \A i \in DOMAIN flushCh : Apart(detached'[c], flushCh[i].rows),
         \A i \in DOMAIN flushCh : Apart(flushCh[i].rows, buf') /\ Apart(flushCh[i].rows, batch')
  PROVE  OncePlaced'
BY DEF OncePlaced

\* The steps of a call keep every row in one place.
LEMMA WriteOnce ==
  ASSUME DrainInv, NotYetHeld, Calm, ~Sharing, OncePlaced, NEW c \in Calls, Write(c)
  PROVE  OncePlaced'
<1> USE DEF DrainInv, bufferVars, queueVars, tickerVars, callVars, workerVars, closeVars, serverVars
<1>1. /\ RowsOf[c] \in Seq(Rows) /\ buf \in Seq(Rows) /\ detached[c] \in Seq(Rows)
      /\ DOMAIN detached = Calls
      /\ detached[c] # <<>> => callPc[c] \in {"enqueue", "send", "blocked", "giveBack"}
      /\ flushCh \in Seq(Jobs) /\ \A i \in DOMAIN flushCh : flushCh[i].rows \in Seq(Rows)
  <2>1. flushCh \in Seq(Jobs)
    BY DEF TypeOK
  <2>2. \A i \in DOMAIN flushCh : flushCh[i] \in Jobs
    BY <2>1
  <2> QED BY <2>1, <2>2, RowsAssumption DEF TypeOK, BatchesPlaced, Jobs
<1>2. CASE UNCHANGED <<buf, detached, flushCh, batch>>
  BY <1>2 DEF OncePlaced
<1>3. ASSUME MayAppend(c), NEW b, b = buf \o RowsOf[c]
      PROVE  /\ IsInjective(b) /\ Apart(b, batch)
             /\ \A d \in Calls : Apart(detached[d], b)
             /\ \A i \in DOMAIN flushCh : Apart(flushCh[i].rows, b)
  <2>1. Unaccepted(c)
    BY <1>3 DEF MayAppend, Unaccepted
  <2>2. /\ IsInjective(RowsOf[c])
        /\ Apart(RowsOf[c], buf) /\ Apart(RowsOf[c], batch)
        /\ \A d \in Calls : Apart(RowsOf[c], detached[d])
        /\ \A i \in DOMAIN flushCh : Apart(RowsOf[c], flushCh[i].rows)
    BY <2>1, FreshApart
  <2>3. IsInjective(b)
    BY <1>1, <1>3, <2>2, InjectiveConcat, ApartFacts DEF OncePlaced
  <2>4. \A u : Apart(b, u) <=> Apart(buf, u) /\ Apart(RowsOf[c], u)
    BY <1>1, <1>3, ApartConcat
  <2> QED BY <2>2, <2>3, <2>4, ApartFacts DEF OncePlaced
<1>4. CASE WriteBuffers(c)
  <2>1. MayAppend(c) /\ buf' = buf \o RowsOf[c] /\ UNCHANGED <<detached, flushCh, batch>>
    BY <1>4, AppendsElsewhere DEF WriteBuffers
  <2>2. /\ IsInjective(buf') /\ Apart(buf', batch)
        /\ \A d \in Calls : Apart(detached[d], buf')
        /\ \A i \in DOMAIN flushCh : Apart(flushCh[i].rows, buf')
    BY <1>3, <2>1
  <2> QED BY <2>1, <2>2 DEF OncePlaced
<1>5. CASE WriteDetaches(c)
  <2> DEFINE b == buf \o RowsOf[c]
  <2>1. /\ MayAppend(c) /\ buf' = <<>> /\ detached' = [detached EXCEPT ![c] = b]
        /\ UNCHANGED <<flushCh, batch>>
    BY <1>5, AppendsElsewhere DEF WriteDetaches
  <2>2. /\ IsInjective(b) /\ Apart(b, batch)
        /\ \A d \in Calls : Apart(detached[d], b)
        /\ \A i \in DOMAIN flushCh : Apart(flushCh[i].rows, b)
    BY <1>3, <2>1
  <2> HIDE DEF b
  <2>3. DOMAIN detached' = Calls /\ detached'[c] = b /\ \A d \in Calls \ {c} : detached'[d] = detached[d]
    BY <1>1, <2>1
  <2>4. ASSUME NEW d \in Calls
        PROVE  /\ IsInjective(detached'[d]) /\ Apart(detached'[d], buf') /\ Apart(detached'[d], batch')
               /\ \A e \in Calls \ {d} : Apart(detached'[d], detached'[e])
               /\ \A i \in DOMAIN flushCh : Apart(detached'[d], flushCh[i].rows)
    BY <2>1, <2>2, <2>3, ApartFacts DEF OncePlaced
  <2>5. /\ IsInjective(buf') /\ IsInjective(batch') /\ Apart(buf', batch')
        /\ \A i \in DOMAIN flushCh : Apart(flushCh[i].rows, buf') /\ Apart(flushCh[i].rows, batch')
    BY <2>1, ApartFacts DEF OncePlaced
  <2> QED BY <2>1, <2>3, <2>4, <2>5, MoveOnce
<1>6. CASE GiveBack(c)
  <2>1. /\ buf' = detached[c] \o buf /\ detached' = [detached EXCEPT ![c] = <<>>]
        /\ UNCHANGED <<flushCh, batch>>
    BY <1>6, AppendsElsewhere DEF GiveBack, Rebuffered
  <2>2. DOMAIN detached' = Calls /\ detached'[c] = <<>> /\ \A d \in Calls \ {c} : detached'[d] = detached[d]
    BY <1>1, <2>1
  <2>3. IsInjective(buf')
    BY <1>1, <2>1, InjectiveConcat DEF OncePlaced
  <2>4. \A u : Apart(buf', u) <=> Apart(detached[c], u) /\ Apart(buf, u)
    BY <1>1, <2>1, ApartConcat
  <2>5. ASSUME NEW d \in Calls
        PROVE  /\ IsInjective(detached'[d]) /\ Apart(detached'[d], buf') /\ Apart(detached'[d], batch')
               /\ \A e \in Calls \ {d} : Apart(detached'[d], detached'[e])
               /\ \A i \in DOMAIN flushCh : Apart(detached'[d], flushCh[i].rows)
    BY <2>1, <2>2, <2>4, ApartFacts DEF OncePlaced
  <2>6. /\ IsInjective(batch') /\ Apart(buf', batch')
        /\ \A i \in DOMAIN flushCh : Apart(flushCh[i].rows, buf') /\ Apart(flushCh[i].rows, batch')
    BY <2>1, <2>4, ApartFacts DEF OncePlaced
  <2> QED BY <2>1, <2>2, <2>3, <2>5, <2>6, MoveOnce
<1>7. CASE SendBatch(c)
  <2>1. Job("batch", detached[c], Nobody) \in Jobs /\ Job("batch", detached[c], Nobody).rows = detached[c]
    BY <1>1 DEF Job, Jobs, Waiters
  <2>2. /\ flushCh' = Append(flushCh, Job("batch", detached[c], Nobody))
        /\ detached' = [detached EXCEPT ![c] = <<>>] /\ UNCHANGED <<buf, batch>>
    BY <1>7 DEF SendBatch
  <2> QED BY <2>1, <2>2, AppendOnce
<1>8. CASE SendLeftover(c)
  <2>1. Job("drain", <<>>, c) \in Jobs /\ Job("drain", <<>>, c).rows = <<>>
    BY EmptySeq DEF Job, Jobs, Waiters
  <2>2. flushCh' = Append(flushCh, Job("drain", <<>>, c)) /\ UNCHANGED <<buf, batch, detached>>
    BY <1>8 DEF SendLeftover
  <2> QED BY <2>1, <2>2, AppendNone
<1>9. ~EnqueueClosed(c)
  BY DEF EnqueueClosed, Calm, InFlight
<1> QED
  BY <1>2, <1>4, <1>5, <1>6, <1>7, <1>8, <1>9
  DEF Write, WriteStep, SendStep, WriteRefused, WriteBegin, WriteRetriesLeftover, RecheckClosed, RecheckFull,
      EnqueueOpen, SendBlocks, SendCancelled, AwaitDone, AwaitCancelled, Cancel

\* The steps of the worker keep every row in one place, or insert it.
LEMMA WorkerOnce ==
  ASSUME DrainInv, ~Sharing, OncePlaced, Worker
  PROVE  OncePlaced'
<1> USE DEF DrainInv, bufferVars, queueVars, tickerVars, callVars, workerVars, closeVars, serverVars
<1>1. /\ batch \in Seq(Rows) /\ buf \in Seq(Rows) /\ DOMAIN detached = Calls
      /\ workerPc \in {"recv", "fetch", "exit"} => batch = <<>>
  BY DEF TypeOK, BatchesPlaced
<1>2. CASE UNCHANGED <<buf, detached, flushCh, batch>>
  BY <1>2 DEF OncePlaced
<1>3. CASE WorkerTakesBatch \/ WorkerTakesDrain \/ WorkerTakesIdle
  <2>1. /\ flushCh # <<>> /\ flushCh' = Tail(flushCh) /\ UNCHANGED <<buf, detached>>
        /\ batch = <<>> /\ batch' \in {<<>>, Head(flushCh).rows}
    BY <1>1, <1>3 DEF WorkerTakesBatch, WorkerTakesDrain, WorkerTakesIdle
  <2> QED BY <2>1, TakeOnce
<1>4. CASE WorkerFetches
  <2>1. batch' = buf /\ buf' = <<>> /\ UNCHANGED <<detached, flushCh>>
    BY <1>4 DEF WorkerFetches
  <2> QED BY <2>1, ApartFacts DEF OncePlaced
<1>5. CASE WorkerFindsNothing \/ WorkerInserts
  <2>1. batch' = <<>> /\ UNCHANGED <<buf, detached, flushCh>>
    BY <1>5 DEF WorkerFindsNothing, WorkerInserts, Complete
  <2> QED BY <2>1, ApartFacts DEF OncePlaced
<1>6. CASE AddColumnsFails \/ InsertFails
  <2>1. batch' = <<>> /\ buf' = batch \o buf /\ UNCHANGED <<detached, flushCh>>
    BY <1>6, AppendsElsewhere DEF AddColumnsFails, InsertFails, Fails, Complete, Rebuffered
  <2>2. IsInjective(buf')
    BY <1>1, <2>1, InjectiveConcat, ApartFacts DEF OncePlaced
  <2>3. \A u : Apart(buf', u) <=> Apart(batch, u) /\ Apart(buf, u)
    BY <1>1, <2>1, ApartConcat
  <2> QED BY <2>1, <2>2, <2>3, ApartFacts DEF OncePlaced
<1> QED
  BY <1>2, <1>3, <1>4, <1>5, <1>6 DEF Worker, WorkerAddsColumns, WorkerExits

\* So do the others.
LEMMA OthersOnce ==
  ASSUME DrainInv, OncePlaced, Start \/ Ticker \/ CloseBegin \/ CloseStep \/ CloseSend \/ Panics
  PROVE  OncePlaced'
<1> USE DEF DrainInv, bufferVars, queueVars, tickerVars, callVars, workerVars, closeVars, serverVars
<1>1. UNCHANGED <<buf, batch, detached>>
  BY DEF Start, Ticker, TickerFires, TickerSends, TickerSkips, TickerStops, Panics,
         CloseBegin, CloseStep, CloseTickerDone, CloseGivesUp, CloseWritersDone, CloseSynced,
         CloseDrained, CloseDrainFails, CloseChannel, CloseEnd, CloseSend, CloseSyncs, CloseDrains
<1>2. CASE UNCHANGED flushCh
  BY <1>1, <1>2 DEF OncePlaced
<1>3. ASSUME NEW who \in Waiters, NEW kind \in {"drain", "idle"}, flushCh' = Append(flushCh, Job(kind, <<>>, who))
      PROVE  OncePlaced'
  <2>1. Job(kind, <<>>, who) \in Jobs /\ Job(kind, <<>>, who).rows = <<>>
    BY EmptySeq DEF Job, Jobs
  <2> QED BY <1>1, <1>3, <2>1, AppendNone
<1>4. Nobody \in Waiters /\ Closer \in Waiters
  BY DEF Waiters
<1> QED
  BY <1>2, <1>3, <1>4
  DEF Start, Ticker, TickerFires, TickerSends, TickerSkips, TickerStops, Panics,
      CloseBegin, CloseStep, CloseTickerDone, CloseGivesUp, CloseWritersDone, CloseSynced,
      CloseDrained, CloseDrainFails, CloseChannel, CloseEnd, CloseSend, CloseSyncs, CloseDrains

\* What was inserted is with nobody any more.
StoredApart == HeldRows \cap StoredRows = {}

\* An insertion stores no row for the second time.
LEMMA StoredOnceStep ==
  ASSUME ~LosesReplies, DrainInv, JobsPlaced, NotYetHeld, Named, ~Sharing, OncePlaced, StoredApart, StoredOnce, [Next]_vars
  PROVE  StoredApart' /\ StoredOnce'
<1> USE DEF DrainInv
<1>1. CASE UNCHANGED stored
  <2>1. StoredRows' = StoredRows
    BY <1>1, HeldParts
  <2>2. CASE HeldRows' \subseteq HeldRows
    BY <1>1, <2>1, <2>2 DEF StoredApart, StoredOnce
  <2>3. ASSUME NEW c \in Calls, RowsJoin(c) PROVE StoredApart' /\ StoredOnce'
    <3>1. Range(RowsOf[c]) \cap StoredRows = {}
      BY <2>3 DEF NotYetHeld, Left, RowsJoin, Brings, MayAppend, Unaccepted
    <3> QED BY <1>1, <2>1, <2>3, <3>1 DEF RowsJoin, StoredApart, StoredOnce
  <2> QED BY <2>2, <2>3, RowsStep DEF RowsStay, RowsInserted
<1>2. CASE WorkerInserts
  <2>1. /\ stored' = Inserted /\ batch' = <<>> /\ UNCHANGED <<buf, flushCh, detached>>
    BY <1>2 DEF WorkerInserts, Complete, bufferVars, queueVars, callVars
  <2>2. StoredRows' = StoredRows \cup Range(batch)
    BY <2>1, InsertedRows
  <2>3. HeldRows' = Range(buf) \cup DetachedRows \cup QueuedRows /\ HeldRows' \subseteq HeldRows
    BY <2>1, HeldParts, EmptyRange
  <2>4. Range(batch) \cap HeldRows' = {}
    <3>1. Range(batch) \cap Range(buf) = {}
      BY DEF OncePlaced, Apart
    <3>2. Range(batch) \cap DetachedRows = {}
      BY DEF OncePlaced, Apart, DetachedRows
    <3>3. Range(batch) \cap QueuedRows = {}
      BY DEF OncePlaced, Apart, QueuedRows
    <3> QED BY <2>3, <3>1, <3>2, <3>3
  <2>5. StoredApart'
    BY <2>2, <2>3, <2>4 DEF StoredApart
  <2>6. ASSUME NEW r \in Rows PROVE stored'[r] <= 1
    <3> DEFINE I == {i \in DOMAIN batch : batch[i] = r}
    <3>1. stored[r] \in Nat /\ stored[r] <= 1 /\ stored'[r] = stored[r] + Cardinality(I)
      BY <2>1 DEF StoredOnce, TypeOK, Inserted
    <3>2. CASE I = {}
      BY <3>1, <3>2, FS_EmptySet
    <3>3. CASE I # {}
      <4>1. PICK i \in I : TRUE
        BY <3>3
      <4>2. I = {i}
        BY <4>1 DEF OncePlaced, IsInjective
      <4>3. Cardinality(I) = 1
        BY <4>2, FS_Singleton
      <4>4. r \in Range(batch)
        BY <4>1 DEF Range
      <4>5. r \notin StoredRows
        BY <4>4, HeldParts DEF StoredApart
      <4> QED BY <3>1, <4>3, <4>5 DEF StoredRows
    <3> QED BY <3>2, <3>3
  <2> QED BY <2>5, <2>6 DEF StoredOnce
<1> QED BY <1>1, <1>2, StoredStep

\* No row is inserted twice, when Close does not overlap with a Write and the
\* Inserter reports a failure only when nothing was inserted: a batch is moved,
\* never copied, between the buffer, its call, the queue and the worker.
THEOREM RowsStoredOnce ==
  ASSUME ~CloseOverlaps, ~LosesReplies
  PROVE  Spec => []StoredOnce
<1>1. Init => OncePlaced /\ StoredApart /\ StoredOnce
  <2> SUFFICES ASSUME Init PROVE OncePlaced /\ StoredApart /\ StoredOnce
    OBVIOUS
  <2>1. OncePlaced
    BY ApartFacts DEF Init, OncePlaced
  <2>2. StoredApart /\ StoredOnce
    BY DEF Init, StoredApart, StoredOnce, StoredRows
  <2> QED BY <2>1, <2>2
<1>2. ASSUME DrainInv, JobsPlaced, NotYetHeld, Named, Calm, Unshared, OncePlaced, StoredApart, StoredOnce,
             [Next]_vars
      PROVE  OncePlaced' /\ StoredApart' /\ StoredOnce'
  <2>1. ~Sharing
    BY <1>2 DEF Unshared, Sharing
  <2>2. OncePlaced'
    <3>1. CASE UNCHANGED vars
      BY <1>2, <3>1 DEF OncePlaced, vars, bufferVars, queueVars, callVars, workerVars
    <3> QED BY <1>2, <2>1, <3>1, WriteOnce, WorkerOnce, OthersOnce DEF Next, Terminated
  <2> QED BY <1>2, <2>1, <2>2, StoredOnceStep
<1> QED BY <1>1, <1>2, ClosesCalmly, PTL DEF Spec

=============================================================================
