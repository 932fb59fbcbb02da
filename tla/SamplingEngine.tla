--------------------------- MODULE SamplingEngine ---------------------------
(***************************************************************************)
(* The tail-sampling engine of internal/sampling/engine.go: it buffers     *)
(* spans by trace id, forwards the traces a policy keeps to a sink and     *)
(* drops the others when DecisionWait elapses or MaxTraces is reached.     *)
(*                                                                         *)
(* Three goroutines work on the buffer: a caller of Consume, the           *)
(* background expiry ticker and a caller of Start/Shutdown.  Whoever holds *)
(* ingestMu owns the buffer; `pc` says which part of whose critical        *)
(* section is running, and one action is one iteration of one of its       *)
(* loops.  The clock, the ticker and the stop/done handshake move at any   *)
(* time, also during a sink call.                                          *)
(*                                                                         *)
(* A *Trace is a position in `heap`, which keeps the traces that left the  *)
(* buffer too, so that a stale pointer in `touched` stays observable.  Two *)
(* ghost parts only record: the dead entries of heap and sinkLog.          *)
(***************************************************************************)
EXTENDS PointerLists

CONSTANTS
  TraceIDs,          \* trace ids
  SpanIDs,           \* span ids, NoSpanID among them
  NoSpanID,          \* the zero SpanID, which is never a duplicate
  Kinds,             \* what the policies tell apart in a span
  KeepKinds,         \* the kinds for which some policy answers Sampled
  Raws,              \* what a span may carry in Raw, opaque here
  Batches,           \* the batches Consume is called with
  DecisionWait,      \* 0 stands for every value <= 0: time-based expiry is off
  MaxTraces,         \* 0 stands for every value <= 0: no cap
  MaxSpansPerTrace,  \* 0 stands for every value <= 0: no cap
  MaxGen,            \* bound: how many times Consume is called
  MaxTime            \* bound: how far the clock runs

Spans == [tid : TraceIDs, sid : SpanIDs, kind : Kinds, raw : Raws]

ASSUME CapsAssumption == DecisionWait \in Nat /\ MaxTraces \in Nat /\ MaxSpansPerTrace \in Nat
ASSUME BoundsAssumption == MaxGen \in Nat /\ MaxTime \in Nat
ASSUME KindsAssumption == KeepKinds \subseteq Kinds
ASSUME BatchesAssumption == Batches \subseteq Seq(Spans)

VARIABLES
  heap,          \* every Trace allocated so far, in order of allocation
  index,         \* stripes[*].traces: the trace buffered for each id, or Nil
  order,         \* buffered traces in arrival order
  pendingOrder,  \* the Pending ones among them, in arrival order
  gen,           \* number of Consume calls that started a generation
  touched,       \* traces this Consume added spans to and has not decided yet
  stats,         \* the four monotonic counters
  clock,         \* what now() returns
  pc,            \* the running part of the critical section of ingestMu
  now,           \* the reading of the clock the section works with
  rest,          \* spans of the batch still to ingest
  cursor,        \* position of the expiry walk in order
  draining,      \* traces Shutdown still has to give a final policy pass
  failed,        \* the section saw a sink error
  stop,          \* e.stop: "nil", "open", or "closed" (then e.stopped holds)
  ticker,        \* the ticker goroutine: "off", "select" or "due"
  closer,        \* the Shutdown caller: "idle", "wait" (for done) or "lock"
  sinkLog        \* the traces the sink accepted, in order

buffer   == <<heap, index, order, pendingOrder>>
batchVars == <<gen, touched, rest>>
sectionVars == <<pc, now, cursor, draining, failed>>
lifecycle == <<stop, ticker, closer>>
vars == <<buffer, batchVars, sectionVars, lifecycle, stats, clock, sinkLog>>

Nil == 0
Decisions == {"Pending", "Sampled", "NotSampled"}
Traces == [id : TraceIDs, spans : Seq(Spans), arrived : Nat,
           decision : Decisions, touchedGen : Nat]
Refs == DOMAIN heap
CounterNames == {"droppedMaxTraces", "droppedMaxSpansPerTrace", "notSampled", "sampledSpans"}
Sections == {"free", "preExpire", "ingest", "decide", "postExpire", "tick", "drain", "force"}

TypeOK ==
  /\ heap \in Seq(Traces)
  /\ index \in [TraceIDs -> Refs \cup {Nil}]
  /\ order \in Seq(Refs) /\ pendingOrder \in Seq(Refs) /\ touched \in Seq(Refs)
  /\ sinkLog \in Seq(Refs)
  /\ draining \subseteq Refs
  /\ gen \in 0..MaxGen
  /\ stats \in [CounterNames -> Nat]
  /\ clock \in 0..MaxTime /\ now \in 0..clock
  /\ pc \in Sections
  /\ rest \in Seq(Spans)
  /\ cursor \in 1..(Len(order) + 1)
  /\ failed \in BOOLEAN
  /\ stop \in {"nil", "open", "closed"}
  /\ ticker \in {"off", "select", "due"}
  /\ closer \in {"idle", "wait", "lock"}

Init ==
  /\ heap = <<>> /\ index = [id \in TraceIDs |-> Nil]
  /\ order = <<>> /\ pendingOrder = <<>> /\ touched = <<>> /\ sinkLog = <<>>
  /\ gen = 0 /\ stats = [c \in CounterNames |-> 0]
  /\ clock = 0 /\ now = 0
  /\ pc = "free" /\ rest = <<>> /\ cursor = 1 /\ draining = {} /\ failed = FALSE
  /\ stop = "nil" /\ ticker = "off" /\ closer = "idle"

-----------------------------------------------------------------------------
(* The guards and the list operations the actions share.                   *)

Pending(r) == heap[r].decision = "Pending"
Buffered(r) == index[heap[r].id] = r
Held(r) == Buffered(r) /\ heap[r].decision = "Sampled"

\* The policies are pure in the spans: a trace is kept iff one span matches.
KeepWorthy(r) == \E i \in DOMAIN heap[r].spans : heap[r].spans[i].kind \in KeepKinds

\* MaxTraces is checked before a trace is added; the mutant checks too late.
AtCapacityLate == MaxTraces > 0 /\ Len(order) > MaxTraces
AtCapacity == MaxTraces > 0 /\ Len(order) >= MaxTraces

\* Mutant: the check lets one span too many in.
SpanCapReachedLate(t) == MaxSpansPerTrace > 0 /\ Len(t.spans) > MaxSpansPerTrace
SpanCapReached(t) == MaxSpansPerTrace > 0 /\ Len(t.spans) >= MaxSpansPerTrace

IsDuplicate(t, s) ==
  s.sid # NoSpanID /\ \E i \in DOMAIN t.spans : t.spans[i].sid = s.sid

Due(t) == now >= t.arrived + DecisionWait

\* Mutant: the newest pending trace is the victim.
NewestPending == Last(pendingOrder)
OldestPending == Head(pendingOrder)

\* Mutant: the pending list keeps the trace.
RemoveFromOrderOnly(r) ==
  /\ index' = [index EXCEPT ![heap[r].id] = Nil]
  /\ order' = Unlink(order, r)
  /\ UNCHANGED pendingOrder

\* Delete by id, whatever the id maps to, and unlink from both lists.
RemoveLocked(r) ==
  /\ index' = [index EXCEPT ![heap[r].id] = Nil]
  /\ order' = Unlink(order, r)
  /\ pendingOrder' = Unlink(pendingOrder, r)

\* Mutant: a drop is not counted.
DropUncounted == stats
DropCounted == [stats EXCEPT !.notSampled = @ + 1]

-----------------------------------------------------------------------------
(* Time-based expiry: one pass over order from the front, used by Consume  *)
(* before and after it ingests, by the ticker and, forced, by Shutdown.    *)

Expiring == pc \in {"preExpire", "postExpire", "tick", "force"}
Forced == pc = "force"
Incoming == {rest[i].tid : i \in DOMAIN rest}
AtCursor == order[cursor]

\* Mutant: the walk stops at a held trace as if it were not due.
WalkOverAtHeld ==
  \/ DecisionWait = 0 /\ ~Forced
  \/ cursor > Len(order)
  \/ cursor \in DOMAIN order /\ ~(Pending(AtCursor) /\ (Forced \/ Due(heap[AtCursor])))

WalkOver ==
  \/ DecisionWait = 0 /\ ~Forced
  \/ cursor > Len(order)
  \/ /\ cursor \in DOMAIN order /\ ~Forced
     /\ Pending(AtCursor) /\ ~Due(heap[AtCursor])

\* Mutant: nothing is skipped.
SkippedNever(r) == FALSE

\* A batch's own traces survive the pass that precedes its ingestion.
Skipped(r) == pc = "preExpire" /\ heap[r].id \in Incoming

ExpireKeep ==
  /\ Expiring /\ ~WalkOver
  /\ ~Pending(AtCursor) \/ Skipped(AtCursor)
  /\ cursor' = cursor + 1
  /\ UNCHANGED <<buffer, batchVars, pc, now, draining, failed, lifecycle, stats, clock, sinkLog>>

\* Mutant: the walk advances past the element after the one it removed.
ExpireDropAdvancing ==
  /\ Expiring /\ ~WalkOver
  /\ Pending(AtCursor) /\ ~Skipped(AtCursor)
  /\ heap' = [heap EXCEPT ![AtCursor].decision = "NotSampled"]
  /\ RemoveLocked(AtCursor)
  /\ stats' = DropCounted
  /\ cursor' = cursor + 1
  /\ UNCHANGED <<batchVars, pc, now, draining, failed, lifecycle, clock, sinkLog>>

ExpireDrop ==
  /\ Expiring /\ ~WalkOver
  /\ Pending(AtCursor) /\ ~Skipped(AtCursor)
  /\ heap' = [heap EXCEPT ![AtCursor].decision = "NotSampled"]
  /\ RemoveLocked(AtCursor)
  /\ stats' = DropCounted
  /\ UNCHANGED <<batchVars, sectionVars, lifecycle, clock, sinkLog>>

-----------------------------------------------------------------------------
(* Deciding one trace.  The sink may accept the spans or return an error.  *)

\* Mutant: the decision a trace already has is not looked at.
WantsForwardAgain(r) == KeepWorthy(r)
WantsForward(r) ==
  heap[r].decision = "Sampled" \/ (Pending(r) /\ KeepWorthy(r))

\* Mutant: a later success hides an earlier error of the batch.
ForwardHidingError(r) ==
  /\ WantsForward(r)
  /\ heap' = [heap EXCEPT ![r].decision = "Sampled"]
  /\ RemoveLocked(r)
  /\ stats' = [stats EXCEPT !.sampledSpans = @ + Len(heap[r].spans)]
  /\ sinkLog' = Append(sinkLog, r)
  /\ failed' = FALSE

Forward(r) ==
  /\ WantsForward(r)
  /\ heap' = [heap EXCEPT ![r].decision = "Sampled"]
  /\ RemoveLocked(r)
  /\ stats' = [stats EXCEPT !.sampledSpans = @ + Len(heap[r].spans)]
  /\ sinkLog' = Append(sinkLog, r)
  /\ UNCHANGED failed

\* After a sink error the trace stays buffered, Sampled, for a retry.
Hold(r) ==
  /\ WantsForward(r)
  /\ heap' = [heap EXCEPT ![r].decision = "Sampled"]
  /\ pendingOrder' = Unlink(pendingOrder, r)
  /\ failed' = TRUE
  /\ UNCHANGED <<index, order, stats, sinkLog>>

LeaveUndecided(r) ==
  /\ ~WantsForward(r)
  /\ UNCHANGED <<buffer, stats, sinkLog, failed>>

DecideLocked(r) == Forward(r) \/ Hold(r) \/ LeaveUndecided(r)

-----------------------------------------------------------------------------
(* Consume.                                                                *)

\* Bound: MaxGen calls, early enough for every deadline to be reached.
BeginConsume(b) ==
  /\ pc = "free" /\ gen < MaxGen /\ clock + DecisionWait <= MaxTime
  /\ rest' = b
  /\ pc' = "preExpire" /\ now' = clock /\ cursor' = 1
  /\ UNCHANGED <<buffer, gen, touched, draining, failed, lifecycle, stats, clock, sinkLog>>

ConsumeBegin == \E b \in Batches : BeginConsume(b)

BeginGeneration ==
  /\ pc = "preExpire" /\ WalkOver
  /\ pc' = "ingest" /\ gen' = gen + 1 /\ cursor' = 1
  /\ UNCHANGED <<buffer, touched, rest, now, draining, failed, lifecycle,
                 stats, clock, sinkLog>>

WithSpan(t, s) ==
  [t EXCEPT !.spans = IF SpanCapReached(t) \/ IsDuplicate(t, s) THEN @ ELSE Append(@, s),
            !.touchedGen = gen]

MarkTouched(r) == IF heap[r].touchedGen = gen THEN touched ELSE Append(touched, r)

NewTrace(s) ==
  [id |-> s.tid, spans |-> <<s>>, arrived |-> now, decision |-> "Pending", touchedGen |-> gen]

IngestKnown ==
  LET s == Head(rest)
      r == index[s.tid]
  IN /\ r # Nil
     /\ heap' = [heap EXCEPT ![r] = WithSpan(@, s)]
     /\ touched' = MarkTouched(r)
     /\ stats' = IF SpanCapReached(heap[r])
                 THEN [stats EXCEPT !.droppedMaxSpansPerTrace = @ + 1]
                 ELSE stats
     /\ UNCHANGED <<index, order, pendingOrder>>

IngestNew ==
  LET s == Head(rest)
      r == Len(heap) + 1
  IN /\ index[s.tid] = Nil /\ ~AtCapacity
     /\ heap' = Append(heap, NewTrace(s))
     /\ index' = [index EXCEPT ![s.tid] = r]
     /\ order' = Append(order, r)
     /\ pendingOrder' = Append(pendingOrder, r)
     /\ touched' = Append(touched, r)
     /\ UNCHANGED stats

\* At the cap the oldest Pending trace makes room for the new one.
IngestEvicting ==
  LET s == Head(rest)
      r == Len(heap) + 1
      victim == OldestPending
  IN /\ index[s.tid] = Nil /\ AtCapacity /\ pendingOrder # <<>>
     /\ heap' = Append([heap EXCEPT ![victim].decision = "NotSampled"], NewTrace(s))
     /\ index' = [index EXCEPT ![heap[victim].id] = Nil, ![s.tid] = r]
     /\ order' = Append(Unlink(order, victim), r)
     /\ pendingOrder' = Append(Unlink(pendingOrder, victim), r)
     /\ touched' = Append(touched, r)
     /\ stats' = DropCounted

\* At the cap with nothing but held traces the new span is lost.
IngestDropping ==
  /\ index[Head(rest).tid] = Nil /\ AtCapacity /\ pendingOrder = <<>>
  /\ stats' = [stats EXCEPT !.droppedMaxTraces = @ + 1]
  /\ UNCHANGED <<buffer, touched>>

IngestSpan ==
  /\ pc = "ingest" /\ rest # <<>>
  /\ IngestKnown \/ IngestNew \/ IngestEvicting \/ IngestDropping
  /\ rest' = Tail(rest)
  /\ UNCHANGED <<gen, sectionVars, lifecycle, clock, sinkLog>>

EndIngest ==
  /\ pc = "ingest" /\ rest = <<>>
  /\ pc' = "decide"
  /\ UNCHANGED <<buffer, batchVars, now, cursor, draining, failed, lifecycle, stats, clock, sinkLog>>

DecideTouched ==
  /\ pc = "decide" /\ touched # <<>>
  /\ DecideLocked(Head(touched))
  /\ touched' = Tail(touched)
  /\ UNCHANGED <<gen, rest, pc, now, cursor, draining, lifecycle, clock>>

\* Mutant: the loop returns at the first sink error.
EndDecideAtFirstError ==
  /\ pc = "decide" /\ (touched = <<>> \/ failed)
  /\ pc' = "postExpire" /\ cursor' = 1 /\ touched' = <<>>
  /\ UNCHANGED <<buffer, gen, rest, now, draining, failed, lifecycle, stats, clock, sinkLog>>

EndDecide ==
  /\ pc = "decide" /\ touched = <<>>
  /\ pc' = "postExpire" /\ cursor' = 1
  /\ UNCHANGED <<buffer, batchVars, now, draining, failed, lifecycle, stats, clock, sinkLog>>

ConsumeEnd ==
  /\ pc = "postExpire" /\ WalkOver
  /\ pc' = "free" /\ cursor' = 1 /\ failed' = FALSE
  /\ UNCHANGED <<buffer, batchVars, now, draining, lifecycle, stats, clock, sinkLog>>

-----------------------------------------------------------------------------
(* Start and the background ticker.                                        *)

\* orderMu, which guards stop, is held through every section but the ingest
\* loop, which takes it span by span.
OrderMuFree == pc \in {"free", "ingest"}

\* The collector does not start a component it is shutting down.
Start ==
  /\ OrderMuFree /\ closer = "idle" /\ DecisionWait > 0 /\ stop = "nil"
  /\ stop' = "open" /\ ticker' = "select"
  /\ UNCHANGED <<buffer, batchVars, sectionVars, closer, stats, clock, sinkLog>>

TickerFires ==
  /\ ticker = "select"
  /\ ticker' = "due"
  /\ UNCHANGED <<buffer, batchVars, sectionVars, stop, closer, stats, clock, sinkLog>>

TickerStops ==
  /\ ticker = "select" /\ stop = "closed"
  /\ ticker' = "off"
  /\ UNCHANGED <<buffer, batchVars, sectionVars, stop, closer, stats, clock, sinkLog>>

TickBegin ==
  /\ ticker = "due" /\ pc = "free"
  /\ pc' = "tick" /\ now' = clock /\ cursor' = 1
  /\ UNCHANGED <<buffer, batchVars, draining, failed, lifecycle, stats, clock, sinkLog>>

TickEnd ==
  /\ pc = "tick" /\ WalkOver
  /\ pc' = "free" /\ ticker' = "select" /\ cursor' = 1
  /\ UNCHANGED <<buffer, batchVars, now, draining, failed, stop, closer, stats, clock, sinkLog>>

-----------------------------------------------------------------------------
(* Shutdown: stop the ticker, wait for it unless ctx is cancelled, drain.  *)

\* Mutant: stop is not closed, the ticker is never told.
ShutdownBeginSilently ==
  /\ OrderMuFree /\ closer = "idle"
  /\ closer' = IF stop = "nil" THEN "lock" ELSE "wait"
  /\ UNCHANGED <<buffer, batchVars, sectionVars, stop, ticker, stats, clock, sinkLog>>

ShutdownBegin ==
  /\ OrderMuFree /\ closer = "idle"
  /\ stop' = IF stop = "open" THEN "closed" ELSE stop
  /\ closer' = IF stop = "nil" THEN "lock" ELSE "wait"
  /\ UNCHANGED <<buffer, batchVars, sectionVars, ticker, stats, clock, sinkLog>>

ShutdownTickerDone ==
  /\ OrderMuFree /\ closer = "wait" /\ ticker = "off"
  /\ stop' = "nil" /\ closer' = "lock"
  /\ UNCHANGED <<buffer, batchVars, sectionVars, ticker, stats, clock, sinkLog>>

\* ctx is cancelled before the ticker acknowledges: stop stays set.
ShutdownCancelled ==
  /\ closer = "wait"
  /\ closer' = "lock"
  /\ UNCHANGED <<buffer, batchVars, sectionVars, stop, ticker, stats, clock, sinkLog>>

DrainBegin ==
  /\ closer = "lock" /\ pc = "free"
  /\ pc' = "drain"
  /\ draining' = {index[id] : id \in TraceIDs} \ {Nil}
  /\ UNCHANGED <<buffer, batchVars, now, cursor, failed, lifecycle, stats, clock, sinkLog>>

\* Map iteration order is random: any remaining trace is next.
DrainDecide ==
  /\ pc = "drain"
  /\ \E r \in draining :
       /\ DecideLocked(r)
       /\ draining' = draining \ {r}
  /\ UNCHANGED <<batchVars, pc, now, cursor, lifecycle, clock>>

\* Mutant: the rest is dropped although evaluation failed.
DrainForceAnyway ==
  /\ pc = "drain" /\ draining = {}
  /\ pc' = "force" /\ now' = clock /\ cursor' = 1
  /\ UNCHANGED <<buffer, batchVars, draining, failed, lifecycle, stats, clock, sinkLog>>

\* Everything was evaluated without a sink error: drop what stays Pending.
DrainForce ==
  /\ pc = "drain" /\ draining = {} /\ ~failed
  /\ pc' = "force" /\ now' = clock /\ cursor' = 1
  /\ UNCHANGED <<buffer, batchVars, draining, failed, lifecycle, stats, clock, sinkLog>>

ShutdownFails ==
  /\ pc = "drain" /\ draining = {} /\ failed
  /\ pc' = "free" /\ closer' = "idle" /\ failed' = FALSE
  /\ UNCHANGED <<buffer, batchVars, now, cursor, draining, stop, ticker, stats, clock, sinkLog>>

ShutdownEnd ==
  /\ pc = "force" /\ WalkOver
  /\ pc' = "free" /\ closer' = "idle" /\ cursor' = 1
  /\ UNCHANGED <<buffer, batchVars, now, draining, failed, stop, ticker, stats, clock, sinkLog>>

-----------------------------------------------------------------------------
ClockAdvances ==
  /\ clock < MaxTime
  /\ clock' = clock + 1
  /\ UNCHANGED <<buffer, batchVars, sectionVars, lifecycle, stats, sinkLog>>

Consume ==
  \/ ConsumeBegin \/ BeginGeneration \/ IngestSpan \/ EndIngest
  \/ DecideTouched \/ EndDecide \/ ConsumeEnd

Ticker == TickerFires \/ TickerStops \/ TickBegin \/ TickEnd

Shutdown ==
  \/ ShutdownBegin \/ ShutdownTickerDone \/ ShutdownCancelled
  \/ DrainBegin \/ DrainDecide \/ DrainForce \/ ShutdownFails \/ ShutdownEnd

Next == ExpireKeep \/ ExpireDrop \/ Consume \/ Start \/ Ticker \/ Shutdown \/ ClockAdvances

Spec == Init /\ [][Next]_vars

\* The goroutine that holds ingestMu runs on, and a sink call returns.
SectionStep ==
  \/ ExpireKeep \/ ExpireDrop
  \/ BeginGeneration \/ IngestSpan \/ EndIngest \/ DecideTouched \/ EndDecide \/ ConsumeEnd
  \/ TickEnd \/ DrainDecide \/ DrainForce \/ ShutdownFails \/ ShutdownEnd

\* A select takes every ready case again and again (SF on TickerStops); a
\* sync.Mutex does not starve a waiter (SF on the steps that lock one).
Fairness ==
  /\ WF_vars(SectionStep)
  /\ WF_vars(TickerFires) /\ SF_vars(TickerStops) /\ SF_vars(TickBegin)
  /\ SF_vars(ShutdownTickerDone) /\ SF_vars(DrainBegin)
  /\ WF_vars(ClockAdvances)

FairSpec == Spec /\ Fairness

\* The sink is up again: offered traces again and again, it takes them.
SinkRecovers == SF_vars((DecideTouched \/ DrainDecide) /\ sinkLog' # sinkLog)
RetrySpec == FairSpec /\ SinkRecovers

-----------------------------------------------------------------------------
(* Safety.                                                                 *)

\* The id index, the arrival list and the pending list describe one buffer at
\* every step, mid-batch and mid-pass included: each list is in order of
\* allocation without repetition, order holds exactly the indexed traces,
\* pendingOrder exactly the Pending ones, and no Pending trace is outside the
\* buffer, where nothing would ever decide it (removeLocked,
\* unlinkPendingLocked, ingestSpan, evictOldestPendingLocked).
BufferConsistent ==
  /\ Increasing(order) /\ Increasing(pendingOrder)
  /\ Range(order) = {index[id] : id \in TraceIDs} \ {Nil}
  /\ \A id \in TraceIDs : index[id] # Nil => heap[index[id]].id = id
  /\ Range(pendingOrder) = {r \in Refs : Pending(r)}
  /\ Range(pendingOrder) \subseteq Range(order)

\* MaxTraces is a hard bound on the buffered traces, held ones included, and
\* MaxSpansPerTrace on the spans of each (Engine's doc comment; Config).
HardCaps ==
  /\ MaxTraces > 0 => Len(order) <= MaxTraces
  /\ MaxSpansPerTrace > 0 => \A r \in Refs : Len(heap[r].spans) <= MaxSpansPerTrace

\* A trace the engine decided to keep is still buffered for a retry or was
\* accepted by the sink, never both, and the sink accepts a trace object only
\* once, although a stale pointer to it may wait in touched (decideLocked).
SampledForwardedOnce ==
  /\ \A r \in Refs : heap[r].decision = "Sampled"
                       => (Buffered(r) <=> r \notin Range(sinkLog))
  /\ IsInjective(sinkLog)
  /\ \A r \in Range(sinkLog) : heap[r].decision = "Sampled"

\* Between critical sections no trace waits with a span that a policy keeps:
\* re-deciding only the touched traces misses nothing, also when the sink
\* failed earlier in the batch (Consume's decide-all loop).
PendingIsCold ==
  pc = "free" => \A r \in Refs : Pending(r) => ~KeepWorthy(r)

\* No trace whose buffered spans match a policy is ever dropped.  It holds
\* without MaxTraces; with a cap, eviction looks at age only.
KeepWorthyNeverDropped ==
  \A r \in Refs : heap[r].decision = "NotSampled" => ~KeepWorthy(r)

\* Every allocated trace is accounted for once: buffered, forwarded or counted
\* by notSampled, and sampledSpans is what the sink accepted (Stats).
CountersAgree ==
  /\ Len(heap) = Len(order) + Len(sinkLog) + stats.notSampled
  /\ stats.sampledSpans =
       FoldSeq(LAMBDA r, n : Len(heap[r].spans) + n, 0, sinkLog)

\* What the code relies on between its loops: outside the loop that fills or
\* empties it, touched is empty and no set of traces waits to be drained; a
\* walk starts at the front; a touched trace is listed once and only if this
\* generation marked it; a trace waiting for a decision is not already
\* forwarded; and no dropped trace is in the buffer.
LoopInvariant ==
  /\ pc \notin {"ingest", "decide"} => touched = <<>>
  /\ pc # "drain" => draining = {}
  /\ ~Expiring => cursor = 1
  /\ pc = "preExpire" => gen < MaxGen
  /\ \A r \in Range(touched) : heap[r].touchedGen = gen
  /\ IsInjective(touched)
  /\ \A r \in Range(touched) : heap[r].decision = "Sampled" => Buffered(r)
  /\ draining \subseteq Range(order)
  /\ \A r \in Range(order) : heap[r].decision # "NotSampled"

\* A trace that waits with a span to be kept is about to be decided.
HotPendingIsTouched ==
  \A r \in Refs : Pending(r) /\ KeepWorthy(r) => r \in Range(touched)

-----------------------------------------------------------------------------
(* What a step may do.                                                     *)

\* Stopping the walk at the first trace that is not due misses none: when a
\* pass of Consume or of the ticker ends, no Pending trace is overdue at the
\* section's reading of the clock (expireLockedSkip's early return).
ExpiryComplete ==
  [][ (pc \in {"postExpire", "tick"} /\ pc' = "free" /\ DecisionWait > 0)
      => \A r \in Refs : Pending(r) => ~Due(heap[r]) ]_vars

\* Consume returns nil only if no trace it touched is left held for a retry.
ConsumeReportsHeld ==
  [][ (pc = "postExpire" /\ pc' = "free" /\ ~failed)
      => \A r \in Refs : heap[r].touchedGen = gen => ~Held(r) ]_vars

\* Without MaxTraces, a trace buffered when a batch arrives stays buffered until
\* the batch's spans for it are ingested, however overdue it is: a late error
\* span joins the trace and its first arrival time (the skip set of Consume).
LateSpanFindsTrace ==
  [][ (pc \in {"preExpire", "ingest"} /\ MaxTraces = 0)
      => \A id \in Incoming : index[id] # Nil => index'[id] = index[id] ]_vars

\* A Shutdown that evaluated every trace without a sink error leaves an empty
\* buffer; one that did not drops nothing (Shutdown).
ShutdownDrains ==
  [][ /\ (pc = "force" /\ pc' = "free") => order' = <<>>
      /\ pc = "drain" => stats'.notSampled = stats.notSampled ]_vars

\* The engine implements the abstract sampler: a trace is held while a
\* Sampled one is buffered and forwarded once it left the buffer.
FateOf(r) ==
  CASE Pending(r) -> "pending"
    [] heap[r].decision = "NotSampled" -> "dropped"
    [] Held(r) -> "held"
    [] OTHER -> "forwarded"

Abstract == INSTANCE TailSampling WITH Capacity <- MaxTraces,
                                       fate <- [r \in Refs |-> FateOf(r)]
ImplementsTailSampling == Abstract!Spec

-----------------------------------------------------------------------------
(* Liveness.                                                               *)

LongestBatch == CHOOSE n \in {Len(b) : b \in Batches} : \A b \in Batches : Len(b) <= n
Allocations == 1..(MaxGen * LongestBatch)
IsPending(r) == r \in Refs /\ Pending(r)
IsHeld(r) == r \in Refs /\ Held(r)

\* While the ticker runs, no trace stays undecided, even when ingest goes
\* quiet (the background ticker of Start).
PendingEventuallyDecided ==
  \A r \in Allocations : IsPending(r) ~> (~IsPending(r) \/ stop # "open")

\* Shutdown returns: the ticker, which may be waiting for ingestMu or in the
\* middle of a pass, acknowledges stop, and the drain ends.
ShutdownReturns == (closer # "idle") ~> (closer = "idle")

\* A trace held after a sink failure is retried until the sink takes it.
HeldEventuallyForwarded ==
  \A r \in Allocations : IsHeld(r) ~> ~IsHeld(r)
=============================================================================
