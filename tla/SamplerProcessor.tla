-------------------------- MODULE SamplerProcessor --------------------------
(***************************************************************************)
(* The processor of components/astrienasampler/processor.go around its     *)
(* engine.  Receivers call ConsumeTraces, possibly several at a time.  A   *)
(* call asks the engine how many spans it buffers of each trace, copies    *)
(* the spans that fit into snapshots, and only then queues for the         *)
(* engine's ingestMu in Consume: other calls, the ticker and Shutdown run  *)
(* in between.  The snapshots travel in the Raw of engine spans, and       *)
(* consumerSink emits those of the spans the engine hands it.              *)
(***************************************************************************)
EXTENDS SamplingEngine, SpanTranslation

CONSTANTS
  Calls,        \* calls of ConsumeTraces
  Deliveries,   \* the pdata they may bring
  Overlapping   \* whether receivers call concurrently

ASSUME OverlappingAssumption == Overlapping \in BOOLEAN
ASSUME DeliveriesAssumption ==
  \A td \in Deliveries : td \in Seq(Range(td)) /\ UniqueTraceIDs(td) \in Seq(TraceIDs)
ASSUME ConversionsAssumption ==
  \A td \in Deliveries : \A held \in [TraceIDs -> 0..MaxSpansPerTrace] :
    ToEngineSpans(td, MaxSpansPerTrace, held) \in Batches

VARIABLES
  callPc,     \* where each call is: "new", "count", "in" Consume or "done"
  delivery,   \* what it brought
  unread,     \* the ids whose span count it has yet to read
  counts,     \* held: the counts it has read
  outcome     \* what it returned: "none", "nil" or "error"

adapter == <<callPc, delivery, unread, counts, outcome>>
processorVars == <<vars, adapter>>

NoneHeld == [id \in TraceIDs |-> 0]

AdapterTypeOK ==
  /\ callPc \in [Calls -> {"new", "count", "in", "done"}]
  /\ delivery \in [Calls -> Deliveries \cup {<<>>}]
  /\ unread \in [Calls -> Seq(TraceIDs)]
  /\ counts \in [Calls -> [TraceIDs -> 0..MaxSpansPerTrace]]
  /\ outcome \in [Calls -> {"none", "nil", "error"}]

ProcessorInit ==
  /\ Init
  /\ callPc = [c \in Calls |-> "new"]
  /\ delivery = [c \in Calls |-> <<>>]
  /\ unread = [c \in Calls |-> <<>>]
  /\ counts = [c \in Calls |-> NoneHeld]
  /\ outcome = [c \in Calls |-> "none"]

-----------------------------------------------------------------------------
(* ConsumeTraces.                                                          *)

Idle == \A c \in Calls : callPc[c] \in {"new", "done"}

\* Without a span cap the counts are not read.
Receive(c) ==
  /\ callPc[c] = "new" /\ (Overlapping \/ Idle)
  /\ \E td \in Deliveries :
       /\ delivery' = [delivery EXCEPT ![c] = td]
       /\ unread' = [unread EXCEPT ![c] = IF MaxSpansPerTrace > 0 THEN UniqueTraceIDs(td) ELSE <<>>]
  /\ callPc' = [callPc EXCEPT ![c] = "count"]
  /\ UNCHANGED <<vars, counts, outcome>>

BufferedSpanCount(id) == IF index[id] = Nil THEN 0 ELSE Len(heap[index[id]].spans)

\* BufferedSpanCounts takes the lock of one stripe at a time, not ingestMu.
ReadCount(c) ==
  /\ callPc[c] = "count" /\ unread[c] # <<>>
  /\ counts' = [counts EXCEPT ![c][Head(unread[c])] = BufferedSpanCount(Head(unread[c]))]
  /\ unread' = [unread EXCEPT ![c] = Tail(@)]
  /\ UNCHANGED <<vars, callPc, delivery, outcome>>

Enter(c) ==
  /\ callPc[c] = "count" /\ unread[c] = <<>>
  /\ BeginConsume(ToEngineSpans(delivery[c], MaxSpansPerTrace, counts[c]))
  /\ callPc' = [callPc EXCEPT ![c] = "in"]
  /\ UNCHANGED <<delivery, unread, counts, outcome>>

Leave(c) ==
  /\ callPc[c] = "in" /\ ConsumeEnd
  /\ callPc' = [callPc EXCEPT ![c] = "done"]
  /\ outcome' = [outcome EXCEPT ![c] = IF failed THEN "error" ELSE "nil"]
  /\ UNCHANGED <<delivery, unread, counts>>

-----------------------------------------------------------------------------
(* consumerSink, and the steps the engine takes by itself.                 *)

\* Mutant: only the first span is taken for a carrier.
EmissionOfFirst(r) == heap[r].spans[1].raw

\* What ConsumeSampled makes of the spans of a trace.
Emission(r) == FromEngineSpans(heap[r].spans)

\* With no span to emit, ConsumeSampled returns nil without calling next.
SinkMayRefuse(r) == SpansOf(Emission(r)) # <<>>

Decide ==
  \/ DecideTouched /\ (SinkMayRefuse(Head(touched)) \/ ~Hold(Head(touched)))
  \/ DrainDecide /\ \A r \in draining \ draining' : SinkMayRefuse(r) \/ ~Hold(r)

EngineStep ==
  /\ \/ ExpireKeep \/ ExpireDrop \/ BeginGeneration \/ IngestSpan \/ EndIngest \/ EndDecide
     \/ Decide
     \/ Start \/ Ticker
     \/ ShutdownBegin \/ ShutdownTickerDone \/ ShutdownCancelled
     \/ DrainBegin \/ DrainForce \/ ShutdownFails \/ ShutdownEnd
     \/ ClockAdvances
  /\ UNCHANGED adapter

ProcessorNext ==
  \/ \E c \in Calls : Receive(c) \/ ReadCount(c) \/ Enter(c) \/ Leave(c)
  \/ EngineStep

ProcessorSpec == ProcessorInit /\ [][ProcessorNext]_processorVars

-----------------------------------------------------------------------------
(* Properties.                                                             *)

\* The spans of a trace that the sink took are the spans the engine buffered
\* and counted in sampledSpans: no snapshot was lost with a span the engine
\* dropped, and none brought a span the engine does not have (the carrier rule
\* of toEngineSpans and fromEngineSpans; the metric spans_forwarded).
ForwardedAsCounted ==
  \A r \in Range(sinkLog) :
    /\ Len(SpansOf(Emission(r))) = Len(heap[r].spans)
    /\ SpanIDsOf(SpansOf(Emission(r))) = SpanIDsOf(heap[r].spans)

\* No trace leaves with more spans than MaxSpansPerTrace, whatever happened in
\* the engine since its spans were counted (Config.MaxSpansPerTrace: the adapter
\* enforces the same bound when copying).
EmissionWithinCap ==
  \A r \in Range(sinkLog) : Len(SpansOf(Emission(r))) <= MaxSpansPerTrace

\* Calls that overlap may each count before the others ingest, and copy up to
\* the cap. Still no trace leaves with twice as many spans, as a call whose
\* copies the engine did not all take leaves the trace full, and a full trace
\* takes no further snapshot (BufferedSpanCounts, toEngineSpans, ingestSpan).
EmissionWithinTwice ==
  \A r \in Range(sinkLog) : Len(SpansOf(Emission(r))) < 2 * MaxSpansPerTrace

\* When ConsumeTraces returned nil, every trace of its delivery with a span that
\* a policy keeps was emitted with all its spans of the delivery, although the
\* sink may have refused it before, other calls ran between the copies and
\* Consume, and the delivery may be a repetition (no error span is lost, uncapped).
NilMeansKeptWereEmitted ==
  \A c \in Calls : outcome[c] = "nil" =>
    \A i, j \in DOMAIN delivery[c] :
      KindOf(delivery[c][i]) \in KeepKinds /\ delivery[c][j].tid = delivery[c][i].tid
        => \E r \in Range(sinkLog) :
             /\ heap[r].id = delivery[c][i].tid
             /\ delivery[c][j].sid \in SpanIDsOf(SpansOf(Emission(r)))

\* The spans a delivery brings of a trace.
GroupOf(td, id) == {td[k] : k \in {j \in DOMAIN td : td[j].tid = id}}

\* What the theorems about emissions suppose of the receivers: spans have ids,
\* no two of a trace the same in one delivery, and deliveries that share a span
\* bring the same spans of its trace (a retry repeats the request). Without it
\* the snapshots overlap: see the run processor_carrier.
RepeatedWhole(deliveries) ==
  /\ \A td \in deliveries : \A i, j \in DOMAIN td :
       td[i].sid # NoSpanID /\ (td[i].tid = td[j].tid /\ td[i].sid = td[j].sid => i = j)
  /\ \A td, ud \in deliveries : \A i \in DOMAIN td, j \in DOMAIN ud :
       td[i].tid = ud[j].tid /\ td[i].sid = ud[j].sid
         => GroupOf(td, td[i].tid) = GroupOf(ud, td[i].tid)
=============================================================================
