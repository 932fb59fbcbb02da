----------------------- MODULE SamplerProcessorProofs -----------------------
(***************************************************************************)
(* The processor implements its engine: whatever the calls read and        *)
(* whenever they enter, the engine sees callers of Consume that bring      *)
(* batches. That the batch of a call is one depends on the counts it read, *)
(* which are bounded because the engine's cap is hard; so the two are      *)
(* proved together, by induction over the steps of the composition.        *)
(*                                                                         *)
(* Without caps, what leaves is what came: toEngineSpans puts every span   *)
(* of a delivery into one snapshot, carried by the first of its trace      *)
(* (Conversion); a buffered trace carries the spans it has and those still *)
(* to come from the call that is ingesting, and what that call has         *)
(* ingested is buffered until it is decided (OnItsWay). From the two       *)
(* follow the theorems at the end: the sink emits what was counted, and    *)
(* nil means that no kept span was lost.                                   *)
(***************************************************************************)
EXTENDS SamplerProcessor, SamplingEngineFates

Delivered == \A c \in Calls : callPc[c] # "new" => delivery[c] \in Deliveries

ProcessorInv == EngineInv /\ HardCaps /\ AdapterTypeOK /\ Delivered

\* What the adapter reads of a trace is within the cap (BufferedSpanCounts).
LEMMA CountWithinCap ==
  ASSUME ProcessorInv, MaxSpansPerTrace > 0, NEW id \in TraceIDs
  PROVE  BufferedSpanCount(id) \in 0..MaxSpansPerTrace
<1>1. MaxSpansPerTrace \in Nat
  BY CapsAssumption
<1>2. CASE index[id] = Nil
  BY <1>1, <1>2 DEF BufferedSpanCount
<1>3. CASE index[id] # Nil
  <2>1. heap \in Seq(Traces) /\ index[id] \in Refs
    BY <1>3 DEF ProcessorInv, EngineInv, WellFormed, Refs
  <2>2. heap[index[id]] \in Traces
    BY <2>1, HeapElements DEF Refs
  <2>3. Len(heap[index[id]].spans) \in Nat
    BY <2>2, LenProperties DEF Traces
  <2>4. Len(heap[index[id]].spans) <= MaxSpansPerTrace
    BY <2>1 DEF ProcessorInv, HardCaps
  <2> QED
    BY <1>1, <1>3, <2>3, <2>4 DEF BufferedSpanCount
<1> QED
  BY <1>2, <1>3

\* The ids a call still has to read, one less at a time.
LEMMA UnreadIDs ==
  ASSUME NEW s \in Seq(TraceIDs), s # <<>>
  PROVE  Head(s) \in TraceIDs /\ Tail(s) \in Seq(TraceIDs)
  BY HeadTailProperties

\* A call that has read its counts enters Consume with a batch.
LEMMA EnterIsConsume ==
  ASSUME AdapterTypeOK, Delivered, NEW c \in Calls, Enter(c)
  PROVE  ConsumeBegin
<1>1. callPc[c] = "count" /\ counts[c] \in [TraceIDs -> 0..MaxSpansPerTrace]
  BY DEF AdapterTypeOK, Enter
<1>2. delivery[c] \in Deliveries
  BY <1>1 DEF Delivered
<1> DEFINE b == ToEngineSpans(delivery[c], MaxSpansPerTrace, counts[c])
<1>3. b \in Batches
  BY <1>1, <1>2, ConversionsAssumption
<1>4. BeginConsume(b)
  BY DEF Enter
<1> QED
  BY <1>3, <1>4 DEF ConsumeBegin

\* Every step of the composition is one of the engine or leaves it alone.
LEMMA EngineSeesAStep ==
  ASSUME AdapterTypeOK, Delivered, [ProcessorNext]_processorVars
  PROVE  [Next]_vars
<1>1. ASSUME NEW c \in Calls, Receive(c) \/ ReadCount(c) PROVE UNCHANGED vars
  BY <1>1 DEF Receive, ReadCount, vars
<1>2. ASSUME NEW c \in Calls, Enter(c) PROVE Next
  BY <1>2, EnterIsConsume DEF Next, Consume
<1>3. ASSUME NEW c \in Calls, Leave(c) PROVE Next
  BY <1>3 DEF Leave, Next, Consume
<1>4. CASE EngineStep
  BY <1>4 DEF EngineStep, Decide, Next, Consume, Shutdown
<1>5. CASE UNCHANGED processorVars
  BY <1>5 DEF processorVars
<1> QED
  BY <1>1, <1>2, <1>3, <1>4, <1>5 DEF ProcessorNext

\* Receiving a delivery: a known set of ids is still unread.
LEMMA ReceiveKeepsTypes ==
  ASSUME AdapterTypeOK, Delivered, NEW c \in Calls, Receive(c)
  PROVE  AdapterTypeOK' /\ Delivered'
<1>1. PICK td \in Deliveries :
        /\ delivery' = [delivery EXCEPT ![c] = td]
        /\ unread' = [unread EXCEPT ![c] =
                        IF MaxSpansPerTrace > 0 THEN UniqueTraceIDs(td) ELSE <<>>]
  BY DEF Receive
<1>2. UniqueTraceIDs(td) \in Seq(TraceIDs) /\ <<>> \in Seq(TraceIDs)
  BY DeliveriesAssumption
<1>3. callPc' = [callPc EXCEPT ![c] = "count"] /\ counts' = counts /\ outcome' = outcome
  BY DEF Receive
<1> QED
  BY <1>1, <1>2, <1>3 DEF AdapterTypeOK, Delivered

\* Reading one count.
LEMMA ReadKeepsTypes ==
  ASSUME ProcessorInv, NEW c \in Calls, ReadCount(c), MaxSpansPerTrace > 0
  PROVE  AdapterTypeOK' /\ Delivered'
<1> DEFINE id == Head(unread[c])
<1>1. /\ unread[c] \in Seq(TraceIDs) /\ unread[c] # <<>>
      /\ counts' = [counts EXCEPT ![c][id] = BufferedSpanCount(id)]
      /\ unread' = [unread EXCEPT ![c] = Tail(@)]
      /\ callPc' = callPc /\ delivery' = delivery /\ outcome' = outcome
  BY DEF ReadCount, ProcessorInv, AdapterTypeOK
<1>2. id \in TraceIDs /\ Tail(unread[c]) \in Seq(TraceIDs)
  BY <1>1, UnreadIDs
<1>3. BufferedSpanCount(id) \in 0..MaxSpansPerTrace
  BY <1>2, CountWithinCap
<1> HIDE DEF id
<1> QED
  BY <1>1, <1>2, <1>3 DEF ProcessorInv, AdapterTypeOK, Delivered

\* Without a cap there is nothing to read.
NothingUnread == MaxSpansPerTrace > 0 \/ \A c \in Calls : unread[c] = <<>>

\* What a call asks the engine, it asks because there is a cap.
LEMMA ReadsUnderACap ==
  ASSUME AdapterTypeOK, NothingUnread, [ProcessorNext]_processorVars
  PROVE  NothingUnread'
<1>1. CASE MaxSpansPerTrace > 0
  BY <1>1 DEF NothingUnread
<1>2. CASE ~(MaxSpansPerTrace > 0)
  <2>1. \A c \in Calls : unread[c] = <<>>
    BY <1>2 DEF NothingUnread
  <2>2. ASSUME NEW c \in Calls, Receive(c) PROVE unread' = [unread EXCEPT ![c] = <<>>]
    BY <1>2, <2>2 DEF Receive
  <2>3. ASSUME NEW c \in Calls, ReadCount(c) PROVE FALSE
    BY <2>1, <2>3 DEF ReadCount
  <2>4. ASSUME NEW c \in Calls, Enter(c) \/ Leave(c) PROVE unread' = unread
    BY <2>4 DEF Enter, Leave
  <2>5. ASSUME EngineStep \/ UNCHANGED processorVars PROVE unread' = unread
    BY <2>5 DEF EngineStep, processorVars, adapter
  <2> QED
    BY <2>1, <2>2, <2>3, <2>4, <2>5 DEF ProcessorNext, NothingUnread, AdapterTypeOK
<1> QED
  BY <1>1, <1>2

\* The steps of the adapter, and of the engine, keep the adapter's types.
LEMMA AdapterStep ==
  ASSUME ProcessorInv, NothingUnread, [ProcessorNext]_processorVars
  PROVE  AdapterTypeOK' /\ Delivered'
<1>1. ASSUME NEW c \in Calls, Receive(c) PROVE AdapterTypeOK' /\ Delivered'
  BY <1>1, ReceiveKeepsTypes DEF ProcessorInv
<1>2. ASSUME NEW c \in Calls, ReadCount(c) PROVE AdapterTypeOK' /\ Delivered'
  <2>1. MaxSpansPerTrace > 0
    BY <1>2 DEF ReadCount, NothingUnread
  <2> QED
    BY <1>2, <2>1, ReadKeepsTypes
<1>3. ASSUME NEW c \in Calls, Enter(c) PROVE AdapterTypeOK' /\ Delivered'
  BY <1>3 DEF Enter, ProcessorInv, AdapterTypeOK, Delivered
<1>4. ASSUME NEW c \in Calls, Leave(c) PROVE AdapterTypeOK' /\ Delivered'
  BY <1>4 DEF Leave, ProcessorInv, AdapterTypeOK, Delivered
<1>5. ASSUME EngineStep \/ UNCHANGED processorVars PROVE AdapterTypeOK' /\ Delivered'
  <2>1. UNCHANGED adapter
    BY <1>5 DEF EngineStep, processorVars
  <2> QED
    BY <2>1 DEF adapter, ProcessorInv, AdapterTypeOK, Delivered
<1> QED
  BY <1>1, <1>2, <1>3, <1>4, <1>5 DEF ProcessorNext

-----------------------------------------------------------------------------
(* The theorems.                                                           *)

\* The invariant of the composition holds at first.
LEMMA ProcessorInvInit == ProcessorInit => ProcessorInv /\ NothingUnread
<1> SUFFICES ASSUME ProcessorInit PROVE ProcessorInv /\ NothingUnread
  OBVIOUS
<1>1. EngineInv /\ HardCaps
  BY EngineInit, CapsInit DEF ProcessorInit
<1>2. MaxSpansPerTrace \in Nat /\ <<>> \in Seq(TraceIDs)
  BY CapsAssumption
<1>3. NoneHeld \in [TraceIDs -> 0..MaxSpansPerTrace]
  BY <1>2 DEF NoneHeld
<1>4. AdapterTypeOK /\ Delivered /\ NothingUnread
  BY <1>2, <1>3 DEF ProcessorInit, AdapterTypeOK, Delivered, NothingUnread
<1> QED
  BY <1>1, <1>4 DEF ProcessorInv

\* Every step keeps it.
LEMMA ProcessorInvStep ==
  ASSUME ProcessorInv, NothingUnread, [ProcessorNext]_processorVars
  PROVE  ProcessorInv' /\ NothingUnread'
<1>1. [Next]_vars
  BY EngineSeesAStep DEF ProcessorInv
<1>2. EngineInv' /\ HardCaps'
  BY <1>1, EngineStepInv, CapsStep DEF ProcessorInv
<1>3. NothingUnread'
  BY ReadsUnderACap DEF ProcessorInv
<1> QED
  BY <1>2, <1>3, AdapterStep DEF ProcessorInv

\* The counts a call works with never exceed the cap, however many calls and
\* ticks run while it reads them (AdapterTypeOK, BufferedSpanCounts).
THEOREM CountsStayInRange == ProcessorSpec => []AdapterTypeOK
<1>1. ProcessorInv /\ NothingUnread /\ [ProcessorNext]_processorVars
        => (ProcessorInv /\ NothingUnread)'
  BY ProcessorInvStep
<1>2. ProcessorInv => AdapterTypeOK
  BY DEF ProcessorInv
<1> QED
  BY <1>1, <1>2, ProcessorInvInit, PTL DEF ProcessorSpec

\* Every behaviour of the processor is one of its engine: the calls bring it
\* batches and nothing else touches it (ConsumeTraces, consumerSink).
THEOREM ProcessorUsesEngine == ProcessorSpec => Spec
<1>1. ProcessorInv /\ NothingUnread /\ [ProcessorNext]_processorVars
        => (ProcessorInv /\ NothingUnread)'
  BY ProcessorInvStep
<1>2. ProcessorInv /\ [ProcessorNext]_processorVars => [Next]_vars
  BY EngineSeesAStep DEF ProcessorInv
<1>3. ProcessorInit => Init
  BY DEF ProcessorInit
<1> QED
  BY <1>1, <1>2, <1>3, ProcessorInvInit, PTL DEF ProcessorSpec, Spec

\* So the engine's guarantees hold when it is fed by concurrent calls: one
\* consistent buffer, hard caps, no kept span waiting between sections, no trace
\* forwarded twice, and counters that count (ConsumeTraces, Consume, Stats).
THEOREM EngineGuaranteesHold ==
  ProcessorSpec => [](/\ BufferConsistent /\ HardCaps /\ PendingIsCold
                      /\ SampledForwardedOnce /\ CountersAgree)
  BY ProcessorUsesEngine, BufferAlwaysConsistent, CapsAreHard, PendingAlwaysCold,
     ForwardedOnce, CountersTellTheTruth, PTL

\* And so do the promises its steps keep to the calls: nil means that no trace
\* the batch touched is held, a late span of a batch finds its trace although
\* other calls ran since it was copied, and Shutdown drains (ConsumeTraces).
THEOREM EnginePromisesHold ==
  ProcessorSpec => ConsumeReportsHeld /\ LateSpanFindsTrace /\ ShutdownDrains
  BY ProcessorUsesEngine, NilMeansNoneHeld, LateSpansFindTraces, ShutdownLeavesNothing, PTL

\* Without MaxTraces the engine drops no trace that a policy keeps, fed by the
\* processor (IsColdDrop, consumerSink).
THEOREM EngineKeepsWhatCounts ==
  ASSUME MaxTraces = 0
  PROVE  ProcessorSpec => []KeepWorthyNeverDropped
  BY ProcessorUsesEngine, KeepWorthyKept, PTL

-----------------------------------------------------------------------------
(* Deliveries.                                                             *)

\* The spans of all deliveries.
AllSources == UNION {Range(td) : td \in Deliveries}

\* A delivery is a sequence of the sources.
LEMMA DeliveryIsSequence ==
  ASSUME NEW td \in Deliveries
  PROVE  /\ td \in Seq(AllSources) /\ Len(td) \in Nat /\ DOMAIN td = 1..Len(td)
         /\ \A i \in DOMAIN td : td[i] \in AllSources
         /\ UniqueTraceIDs(td) \in Seq(TraceIDs)
         /\ \A i \in DOMAIN td : td[i].tid \in Range(UniqueTraceIDs(td)) /\ td[i].tid \in TraceIDs
<1>1. td \in Seq(Range(td))
  BY DeliveriesAssumption
<1>2. Len(td) \in Nat /\ DOMAIN td = 1..Len(td) /\ \A i \in DOMAIN td : td[i] \in Range(td)
  BY <1>1, LenProperties DEF Range
<1>3. Range(td) \subseteq AllSources
  BY DEF AllSources
<1>4. \A i \in DOMAIN td : td[i].tid \in Range(UniqueTraceIDs(td))
  BY <1>1, <1>2, EveryIDIsThere
<1>5. UniqueTraceIDs(td) \in Seq(TraceIDs)
  BY DeliveriesAssumption
<1>6. Range(UniqueTraceIDs(td)) \subseteq TraceIDs
  BY <1>5, LenProperties DEF Range
<1>7. td \in Seq(AllSources)
  <2>1. \A i \in DOMAIN td : td[i] \in AllSources
    BY <1>2, <1>3
  <2> QED
    BY <1>1, <1>2, <2>1
<1> QED
  BY <1>2, <1>3, <1>4, <1>5, <1>6, <1>7

-----------------------------------------------------------------------------
(* What the spans of a buffered trace carry.                               *)

\* The ids a delivery brings of a trace.
GroupIDs(td, id) == IDsUpTo(td, Len(td), id)

\* Span k of a delivery, as toEngineSpans makes an engine span of it.
EngineSpanOf(s, td, held, k) ==
  /\ s.tid = td[k].tid /\ s.sid = td[k].sid /\ s.kind = KindOf(td[k])
  /\ s.raw \in Snapshots(AllSources) /\ Apart(AllSources, s.raw)
  /\ BlockIDs(s.raw) = IF FirstOfTrace(td, k)
                       THEN FittingIDs(td, MaxSpansPerTrace, held, Len(td), td[k].tid) ELSE {}
  /\ MaxSpansPerTrace > 0 => Cardinality(BlockIDs(s.raw)) <= MaxSpansPerTrace

\* A span of a delivery, as its policies see it.
FromDelivery(id, s) ==
  \E td \in Deliveries : \E k \in 1..Len(td) :
    td[k].tid = id /\ td[k].sid = s.sid /\ s.kind = KindOf(td[k])

\* The spans that a trace has: from deliveries, each once, each in one snapshot,
\* and with the spans of a delivery the snapshot of all of them.
WellCarried(id, spans) ==
  /\ Packed(AllSources, spans)
  /\ \A x \in DOMAIN spans : FromDelivery(id, spans[x])
  /\ \A x, y \in DOMAIN spans : x < y => spans[x].sid # spans[y].sid
  /\ SpanIDsOf(spans) \subseteq CarriedBy(spans)
  /\ \A td \in Deliveries : GroupIDs(td, id) \cap CarriedBy(spans) # {}
                              => GroupIDs(td, id) \subseteq CarriedBy(spans)

\* Deliveries that share a span of a trace bring the same spans of it.
LEMMA Groups ==
  ASSUME RepeatedWhole(Deliveries), NEW td \in Deliveries, NEW k \in 1..Len(td)
  PROVE  /\ td[k].sid # NoSpanID /\ td[k].sid \in GroupIDs(td, td[k].tid)
         /\ \A ud \in Deliveries :
              /\ GroupIDs(ud, td[k].tid) \cap GroupIDs(td, td[k].tid) # {}
                   => GroupIDs(ud, td[k].tid) = GroupIDs(td, td[k].tid)
              /\ \A m \in 1..Len(ud) : ud[m].tid = td[k].tid /\ ud[m].sid = td[k].sid
                                         => ud[m] = td[k]
<1> DEFINE id == td[k].tid
<1>1. \A ud \in Deliveries : DOMAIN ud = 1..Len(ud) /\ Len(ud) \in Nat
  BY DeliveryIsSequence
<1>2. \A ud \in Deliveries : GroupIDs(ud, id) = {sp.sid : sp \in GroupOf(ud, id)}
  BY <1>1 DEF GroupIDs, IDsUpTo, GroupOf
<1>3. \A ud \in Deliveries : \A i \in 1..Len(td), j \in 1..Len(ud) :
        td[i].tid = id /\ ud[j].tid = id /\ td[i].sid = ud[j].sid
          => GroupOf(ud, id) = GroupOf(td, id)
  BY <1>1 DEF RepeatedWhole
<1>4. ASSUME NEW ud \in Deliveries, GroupIDs(ud, id) \cap GroupIDs(td, id) # {}
      PROVE  GroupIDs(ud, id) = GroupIDs(td, id)
  <2>1. PICK i \in 1..Len(td), j \in 1..Len(ud) :
               td[i].tid = id /\ ud[j].tid = id /\ td[i].sid = ud[j].sid
    BY <1>4 DEF GroupIDs, IDsUpTo
  <2> QED
    BY <1>2, <1>3, <2>1
<1>5. ASSUME NEW ud \in Deliveries, NEW m \in 1..Len(ud), ud[m].tid = id, ud[m].sid = td[k].sid
      PROVE  ud[m] = td[k]
  <2>1. ud[m] \in GroupOf(td, id)
    BY <1>1, <1>3, <1>5 DEF GroupOf
  <2>2. PICK j \in DOMAIN td : td[j].tid = id /\ ud[m] = td[j]
    BY <2>1 DEF GroupOf
  <2>3. j = k
    BY <1>1, <1>5, <2>2 DEF RepeatedWhole
  <2> QED
    BY <2>2, <2>3
<1>6. td[k].sid # NoSpanID /\ td[k].sid \in GroupIDs(td, id)
  BY <1>1 DEF RepeatedWhole, GroupIDs, IDsUpTo
<1> QED
  BY <1>4, <1>5, <1>6

\* Without a cap every span fits.
LEMMA AllFit ==
  ASSUME MaxSpansPerTrace = 0, NEW td, NEW held, NEW k, NEW id
  PROVE  FittingIDs(td, MaxSpansPerTrace, held, k, id) = IDsUpTo(td, k, id)
  BY DEF FittingIDs, IDsUpTo, Fits, InCap

\* A trace without spans is as it should be.
LEMMA NothingCarried ==
  ASSUME NEW id
  PROVE  WellCarried(id, <<>>) /\ CarriedBy(<<>>) = {} /\ SpanIDsOf(<<>>) = {}
  BY DEF WellCarried, Packed, CarriedBy, SpanIDsOf

\* The trace still carries its spans when s joins them, and those of s too.
Grown(id, u, s) ==
  /\ WellCarried(id, Append(u, s))
  /\ CarriedBy(Append(u, s)) = CarriedBy(u) \cup BlockIDs(s.raw)
  /\ SpanIDsOf(Append(u, s)) = SpanIDsOf(u) \cup {s.sid}

\* A trace gains a span that carries nothing, the others of its delivery being
\* there; or one that carries the snapshot, and none of them is there.
LEMMA CarriedGrows ==
  ASSUME RepeatedWhole(Deliveries), NEW td \in Deliveries, NEW k \in 1..Len(td),
         NEW id, id = td[k].tid,
         NEW u \in Seq(Spans), WellCarried(id, u),
         NEW s \in Spans, NEW held, EngineSpanOf(s, td, held, k), s.sid \notin SpanIDsOf(u),
         \/ BlockIDs(s.raw) = {} /\ GroupIDs(td, id) \subseteq CarriedBy(u)
         \/ BlockIDs(s.raw) = GroupIDs(td, id) /\ s.sid \notin CarriedBy(u)
  PROVE  Grown(id, u, s)
<1> DEFINE v == Append(u, s)
           n == Len(u)
<1>1. /\ n \in Nat /\ DOMAIN u = 1..n /\ DOMAIN v = 1..(n + 1) /\ v[n + 1] = s
      /\ \A x \in 1..n : v[x] = u[x]
  <2>1. v \in Seq(Spans) /\ Len(v) = n + 1 /\ v[n + 1] = s /\ \A x \in 1..n : v[x] = u[x]
    BY AppendProperties
  <2> QED
    BY <2>1, LenProperties
<1>2. 1..(n + 1) = (1..n) \cup {n + 1} /\ n + 1 \notin 1..n
  BY <1>1
<1> HIDE DEF v, n
<1>3. CarriedBy(v) = CarriedBy(u) \cup BlockIDs(s.raw)
  BY <1>1, <1>2 DEF CarriedBy
<1>4. SpanIDsOf(v) = SpanIDsOf(u) \cup {s.sid}
  BY <1>1, <1>2 DEF SpanIDsOf
<1>5. /\ s.sid = td[k].sid /\ s.sid \in GroupIDs(td, id)
      /\ \A ud \in Deliveries : GroupIDs(ud, id) \cap GroupIDs(td, id) # {}
                                  => GroupIDs(ud, id) = GroupIDs(td, id)
  BY Groups DEF EngineSpanOf
<1>6. \A x \in DOMAIN v : /\ v[x].raw \in Snapshots(AllSources) /\ Apart(AllSources, v[x].raw)
                          /\ FromDelivery(id, v[x])
  <2>1. FromDelivery(id, s)
    BY DEF EngineSpanOf, FromDelivery
  <2>2. s.raw \in Snapshots(AllSources) /\ Apart(AllSources, s.raw)
    BY DEF EngineSpanOf
  <2>3. \A x \in 1..n : /\ u[x].raw \in Snapshots(AllSources) /\ Apart(AllSources, u[x].raw)
                        /\ FromDelivery(id, u[x])
    BY <1>1 DEF WellCarried, Packed
  <2> QED
    BY <1>1, <1>2, <2>1, <2>2, <2>3
<1>7. BlockIDs(s.raw) \cap CarriedBy(u) = {}
  BY <1>5 DEF WellCarried, Packed
<1>8. ASSUME NEW x \in DOMAIN v, NEW y \in DOMAIN v, x < y
      PROVE  v[x].sid # v[y].sid /\ BlockIDs(v[x].raw) \cap BlockIDs(v[y].raw) = {}
  <2>1. x \in 1..n /\ v[x] = u[x]
    BY <1>1, <1>8
  <2>2. CASE y \in 1..n
    BY <1>1, <1>8, <2>1, <2>2 DEF WellCarried, Packed
  <2>3. CASE y = n + 1
    <3>1. u[x].sid \in SpanIDsOf(u) /\ BlockIDs(u[x].raw) \subseteq CarriedBy(u)
      BY <1>1, <2>1 DEF SpanIDsOf, CarriedBy
    <3> QED
      BY <1>1, <1>7, <2>1, <2>3, <3>1
  <2> QED
    BY <1>1, <1>2, <2>2, <2>3
<1>9. SpanIDsOf(v) \subseteq CarriedBy(v)
  BY <1>3, <1>4, <1>5 DEF WellCarried, Packed
<1>10. ASSUME NEW ud \in Deliveries, GroupIDs(ud, id) \cap CarriedBy(v) # {}
       PROVE  GroupIDs(ud, id) \subseteq CarriedBy(v)
  <2>1. CASE GroupIDs(ud, id) \cap CarriedBy(u) # {}
    BY <1>3, <2>1 DEF WellCarried, Packed
  <2>2. CASE GroupIDs(ud, id) \cap BlockIDs(s.raw) # {}
    BY <1>3, <1>5, <2>2
  <2> QED
    BY <1>3, <1>10, <2>1, <2>2
<1>11. WellCarried(id, v)
  BY <1>6, <1>8, <1>9, <1>10 DEF WellCarried, Packed
<1> QED
  BY <1>3, <1>4, <1>11 DEF v, Grown

-----------------------------------------------------------------------------
(* A delivery on its way through the engine.                               *)

\* Where the section of a call of Consume can be.
InConsume == {"preExpire", "ingest", "decide", "postExpire"}

\* How many spans of its delivery the call has ingested.
Done(c) == Len(delivery[c]) - Len(rest)

\* ingestMu lets one call into Consume at a time.
OneInside ==
  /\ \A c, d \in Calls : callPc[c] = "in" /\ callPc[d] = "in" => c = d
  /\ \A c \in Calls : callPc[c] = "in" => pc \in InConsume
  /\ pc \in InConsume => \E c \in Calls : callPc[c] = "in"

\* What is left to ingest is the end of the delivery of the call.
RestOfCall ==
  \A c \in Calls : callPc[c] = "in" =>
    /\ Len(rest) <= Len(delivery[c])
    /\ \A i \in 1..Len(rest) : EngineSpanOf(rest[i], delivery[c], counts[c], Done(c) + i)
    /\ pc = "preExpire" => Done(c) = 0
    /\ pc \in {"decide", "postExpire"} => rest = <<>>

\* The call inside Consume and its delivery.
CallInside == OneInside /\ RestOfCall

\* The call has ingested a span of the trace id; and those it still will.
Came(id) ==
  \E c \in Calls : callPc[c] = "in" /\ \E i \in 1..Done(c) : delivery[c][i].tid = id
ToCome(id) == {rest[i].sid : i \in {j \in 1..Len(rest) : rest[j].tid = id}}

\* A trace carries the spans it has, and those still to come if the span with
\* the snapshot came.
StillComing(r) ==
  IF pc = "ingest" /\ Buffered(r) /\ Came(heap[r].id) THEN ToCome(heap[r].id) ELSE {}
CarriesItsSpans ==
  \A r \in Refs :
    /\ WellCarried(heap[r].id, heap[r].spans)
    /\ CarriedBy(heap[r].spans) \subseteq SpanIDsOf(heap[r].spans) \cup StillComing(r)

\* The trace has the span, as its policies see it.
Has(t, sp) == \E x \in DOMAIN t.spans : t.spans[x].sid = sp.sid /\ t.spans[x].kind = KindOf(sp)

\* Every span the call has ingested is in a trace of this generation, with all
\* the others of its trace.
Arrived ==
  \A c \in Calls : callPc[c] = "in" => \A i \in 1..Done(c) :
    \E r \in Refs :
      /\ heap[r].id = delivery[c][i].tid /\ heap[r].touchedGen = gen
      /\ pc = "ingest" => Buffered(r)
      /\ \A j \in 1..Done(c) : delivery[c][j].tid = delivery[c][i].tid => Has(heap[r], delivery[c][j])

\* The inductive invariant of the composition, without caps.
OnItsWay == CallInside /\ CarriesItsSpans /\ Arrived

-----------------------------------------------------------------------------
(* The steps that ingest nothing.                                          *)

\* The traces stay as they are but for their decisions.
SameTraces ==
  /\ Refs' = Refs
  /\ \A r \in Refs : /\ heap'[r].id = heap[r].id /\ heap'[r].spans = heap[r].spans
                     /\ heap'[r].touchedGen = heap[r].touchedGen

\* No step but ingestSpan touches the spans of a trace or its generation.
LEMMA NothingIngested ==
  ASSUME EngineInv, [Next]_vars, ~IngestSpan
  PROVE  SameTraces
<1>1. heap \in Seq(Traces)
  BY DEF EngineInv, WellFormed
<1>2. ASSUME NEW r \in Refs, NEW d \in Decisions, heap' = Decided(heap, r, d)
      PROVE  SameTraces
  <2> DEFINE g == Decided(heap, r, d)
  <2>1. /\ DOMAIN g = Refs /\ \A q \in Refs : g[q].id = heap[q].id
        /\ g[r].spans = heap[r].spans /\ g[r].touchedGen = heap[r].touchedGen
        /\ \A q \in Refs : q # r => g[q] = heap[q]
    BY <1>1, DecisionUpdate DEF Refs
  <2> HIDE DEF g
  <2> QED
    BY <1>2, <2>1 DEF SameTraces, Refs, g
<1>3. ASSUME heap' = heap PROVE SameTraces
  BY <1>3 DEF SameTraces, Refs
<1>4. CASE ExpireDrop
  <2>1. heap' = Decided(heap, AtCursor, "NotSampled") /\ "NotSampled" \in Decisions
    BY <1>4 DEF ExpireDrop, Decided, Decisions
  <2>2. AtCursor \in Refs
    BY <1>4, ExpireDropEffect
  <2> QED
    BY <1>2, <2>1, <2>2
<1>5. ASSUME NEW r \in Refs, DecideLocked(r) PROVE SameTraces
  <2>1. CASE Forward(r) \/ Hold(r)
    <3>1. heap' = Decided(heap, r, "Sampled") /\ "Sampled" \in Decisions
      BY <2>1 DEF Forward, Hold, Decided, Decisions
    <3> QED
      BY <1>2, <3>1
  <2>2. CASE LeaveUndecided(r)
    BY <1>3, <2>2 DEF LeaveUndecided, buffer
  <2> QED
    BY <1>5, <2>1, <2>2 DEF DecideLocked
<1> QED
  BY <1>3, <1>4, <1>5, TouchedHead, DrainedTrace, QuietEffect, StepKinds

\* The calls inside Consume, what they brought and what they read stay the same.
SameCallsInside ==
  \A c \in Calls :
    /\ callPc'[c] = "in" <=> callPc[c] = "in"
    /\ callPc[c] = "in" => delivery'[c] = delivery[c] /\ counts'[c] = counts[c]

\* How the section of a call goes on: expire, ingest all spans, decide, expire.
SectionGoesOn ==
  /\ rest' = rest /\ (pc' \in InConsume <=> pc \in InConsume)
  /\ pc = "preExpire" \/ gen' = gen
  /\ pc' = "preExpire" => pc = "preExpire"
  /\ pc' \in {"decide", "postExpire"} => pc \in {"decide", "postExpire"} \/ rest = <<>>
  /\ pc' = "ingest" => pc \in {"preExpire", "ingest"} /\ index' = index
  /\ pc = "ingest" => pc' = "ingest" \/ rest = <<>>

\* Under ingestMu, the ticker, Shutdown and the clock leave the section of a
\* call as it is, and its own steps go on in their order.
LEMMA EngineGoesOn ==
  ASSUME EngineStep \/ UNCHANGED vars, ~IngestSpan
  PROVE  SectionGoesOn
<1>1. CASE UNCHANGED vars
  BY <1>1 DEF SectionGoesOn, vars, buffer, batchVars, sectionVars
<1>2. CASE BeginGeneration \/ EndIngest \/ EndDecide
  BY <1>2 DEF SectionGoesOn, InConsume, BeginGeneration, EndIngest, EndDecide,
              buffer, batchVars
<1>3. CASE ExpireKeep
  BY <1>3 DEF SectionGoesOn, ExpireKeep, buffer, batchVars
<1>4. CASE ExpireDrop
  BY <1>4 DEF SectionGoesOn, ExpireDrop, Expiring, batchVars, sectionVars
<1>5. CASE DecideTouched \/ DrainDecide
  BY <1>5 DEF SectionGoesOn, DecideTouched, DrainDecide, batchVars
<1>6. CASE Start \/ ShutdownBegin \/ ShutdownTickerDone \/ ShutdownCancelled \/ ClockAdvances
  BY <1>6 DEF SectionGoesOn, Start, ShutdownBegin, ShutdownTickerDone, ShutdownCancelled,
              ClockAdvances, buffer, batchVars, sectionVars
<1>7. CASE Ticker
  BY <1>7 DEF SectionGoesOn, InConsume, Ticker, TickerFires, TickerStops, TickBegin, TickEnd,
              buffer, batchVars, sectionVars
<1>8. CASE DrainBegin \/ DrainForce \/ ShutdownFails \/ ShutdownEnd
  BY <1>8 DEF SectionGoesOn, InConsume, DrainBegin, DrainForce, ShutdownFails, ShutdownEnd,
              buffer, batchVars
<1> QED
  BY <1>1, <1>2, <1>3, <1>4, <1>5, <1>6, <1>7, <1>8 DEF EngineStep, Decide

\* Nothing is ingested and no call enters or leaves: its delivery waits.
LEMMA CallGoesOn ==
  ASSUME CallInside, SameCallsInside, SectionGoesOn
  PROVE  /\ CallInside'
         /\ \A c \in Calls : callPc[c] = "in" => Done(c)' = Done(c)
         /\ \A id : (Came(id)' <=> Came(id)) /\ ToCome(id)' = ToCome(id)
<1>1. \A c \in Calls : callPc[c] = "in" => Done(c)' = Done(c)
  BY DEF SameCallsInside, SectionGoesOn, Done
<1>2. OneInside'
  BY DEF CallInside, OneInside, SameCallsInside, SectionGoesOn
<1>3. RestOfCall'
  BY <1>1 DEF CallInside, RestOfCall, SameCallsInside, SectionGoesOn
<1>4. \A id : (Came(id)' <=> Came(id)) /\ ToCome(id)' = ToCome(id)
  BY <1>1 DEF Came, ToCome, SameCallsInside, SectionGoesOn
<1> QED
  BY <1>1, <1>2, <1>3, <1>4 DEF CallInside

\* And so do the traces.
LEMMA GoesOnItsWay ==
  ASSUME EngineInv, OnItsWay, SameTraces, SameCallsInside, SectionGoesOn
  PROVE  OnItsWay'
<1>1. /\ CallInside' /\ \A c \in Calls : callPc[c] = "in" => Done(c)' = Done(c)
      /\ \A id : (Came(id)' <=> Came(id)) /\ ToCome(id)' = ToCome(id)
  BY CallGoesOn DEF OnItsWay
<1>2. ASSUME NEW r \in Refs PROVE StillComing(r) \subseteq StillComing(r)'
  <2>1. CASE pc = "ingest" /\ pc' # "ingest"
    <3>1. rest = <<>>
      BY <2>1 DEF SectionGoesOn
    <3>2. ToCome(heap[r].id) = {}
      BY <3>1 DEF ToCome
    <3> QED
      BY <3>2 DEF StillComing
  <2>2. CASE pc = "ingest" /\ pc' = "ingest"
    <3>1. Buffered(r)' <=> Buffered(r)
      BY <2>2 DEF SectionGoesOn, SameTraces, Buffered
    <3> QED
      BY <1>1, <2>2, <3>1 DEF StillComing, SameTraces
  <2>3. CASE pc # "ingest"
    BY <2>3 DEF StillComing
  <2> QED
    BY <2>1, <2>2, <2>3
<1>3. CarriesItsSpans'
  BY <1>2 DEF OnItsWay, CarriesItsSpans, SameTraces
<1>4. Arrived'
  <2> SUFFICES ASSUME NEW c \in Calls, callPc'[c] = "in", NEW i \in 1..Done(c)'
               PROVE  \E r \in Refs' :
                        /\ heap'[r].id = delivery'[c][i].tid /\ heap'[r].touchedGen = gen'
                        /\ pc' = "ingest" => Buffered(r)'
                        /\ \A j \in 1..Done(c)' : delivery'[c][j].tid = delivery'[c][i].tid
                             => Has(heap'[r], delivery'[c][j])
    BY DEF Arrived
  <2>1. callPc[c] = "in" /\ delivery'[c] = delivery[c] /\ Done(c)' = Done(c) /\ i \in 1..Done(c)
    BY <1>1 DEF SameCallsInside
  <2>2. pc # "preExpire"
    BY <2>1 DEF OnItsWay, CallInside, RestOfCall
  <2>3. PICK r \in Refs :
          /\ heap[r].id = delivery[c][i].tid /\ heap[r].touchedGen = gen
          /\ pc = "ingest" => Buffered(r)
          /\ \A j \in 1..Done(c) : delivery[c][j].tid = delivery[c][i].tid
               => Has(heap[r], delivery[c][j])
    BY <2>1 DEF OnItsWay, Arrived
  <2>4. pc' = "ingest" => Buffered(r)'
    BY <2>2, <2>3 DEF SectionGoesOn, SameTraces, Buffered
  <2>5. gen' = gen
    BY <2>2 DEF SectionGoesOn
  <2>6. \A sp : Has(heap[r], sp) => Has(heap'[r], sp)
    BY DEF SameTraces, Has
  <2>7. r \in Refs' /\ heap'[r].id = heap[r].id /\ heap'[r].touchedGen = heap[r].touchedGen
    BY DEF SameTraces
  <2> QED
    BY <2>1, <2>3, <2>4, <2>5, <2>6, <2>7
<1> QED
  BY <1>1, <1>3, <1>4 DEF OnItsWay

-----------------------------------------------------------------------------
(* A span is ingested.                                                     *)

\* The trace has all the spans the cap allows.
Full(u) == MaxSpansPerTrace > 0 /\ Len(u) >= MaxSpansPerTrace

\* q is the trace that MaxTraces evicts.
Evicted(q) ==
  MaxTraces > 0 /\ heap'[q].decision = "NotSampled" /\ ~Buffered(q)'

\* r is the buffered trace of the span s, or a new one, and u its spans before
\* the step; it takes s unless it is full or has it.
Takes(r, s, u) ==
  /\ \/ r \in Refs /\ Buffered(r) /\ heap[r].id = s.tid /\ u = heap[r].spans
        /\ heap'[r].decision = heap[r].decision
     \/ r \notin Refs /\ index[s.tid] = Nil /\ u = <<>>
  /\ Refs' = Refs \cup {r} /\ heap'[r].id = s.tid /\ heap'[r].touchedGen = gen /\ Buffered(r)'
  /\ heap'[r].spans = IF Full(u) \/ s.sid \in SpanIDsOf(u) THEN u ELSE Append(u, s)
  /\ \A q \in Refs : q # r =>
       /\ Buffered(q) => heap[q].id # s.tid
       /\ \/ heap'[q] = heap[q] /\ (Buffered(q)' <=> Buffered(q))
          \/ Evicted(q)

\* The trace of s is not buffered and finds no room.
Loses(s) == MaxTraces > 0 /\ index[s.tid] = Nil /\ UNCHANGED <<heap, index>>

\* The buffered trace of the span.
LEMMA KnownTakes ==
  ASSUME EngineInv, IngestSpan, IngestKnown, Head(rest).sid # NoSpanID
  PROVE  \E r, u : u \in Seq(Spans) /\ Takes(r, Head(rest), u)
<1> DEFINE s == Head(rest)
<1>1. /\ WellFormed(heap, index, order, pendingOrder)
      /\ s \in Spans /\ s.tid \in TraceIDs
  BY IngestFacts
<1>2. /\ heap \in Seq(Traces) /\ index \in [TraceIDs -> Refs \cup {Nil}]
      /\ \A id \in TraceIDs : index[id] # Nil => heap[index[id]].id = id
      /\ Refs = 1..Len(heap) /\ Len(heap) \in Nat
  BY <1>1, HeapElements DEF WellFormed, Refs
<1> HIDE DEF s
<1>3. PICK r, u : r = index[s.tid] /\ u = heap[r].spans
  OBVIOUS
<1> DEFINE t == WithSpan(heap[r], s)
<1>4. /\ r # Nil /\ r \in Refs /\ heap[r].id = s.tid /\ index' = index
      /\ heap' = [heap EXCEPT ![r] = t]
  BY <1>1, <1>2, <1>3 DEF IngestKnown, s
<1>5. heap[r] \in Traces
  BY <1>2, <1>4, HeapElements DEF Refs
<1>6. u \in Seq(Spans)
  BY <1>3, <1>5 DEF Traces
<1>7. Append(u, s) \in Seq(Spans)
  BY <1>1, <1>6, AppendProperties
<1> DEFINE v == IF Full(u) \/ s.sid \in SpanIDsOf(u) THEN u ELSE Append(u, s)
<1>8. IsDuplicate(heap[r], s) <=> s.sid \in SpanIDsOf(u)
  BY <1>3 DEF IsDuplicate, SpanIDsOf, s
<1>9. SpanCapReached(heap[r]) <=> Full(u)
  BY <1>3 DEF SpanCapReached, Full
<1>10. t = [heap[r] EXCEPT !.spans = v, !.touchedGen = gen]
  BY <1>3, <1>8, <1>9 DEF WithSpan
<1>11. v \in Seq(Spans) /\ gen \in Nat
  BY <1>6, <1>7, IngestFacts
<1> HIDE DEF t, v
<1>12. /\ t \in Traces /\ t.spans = v /\ t.touchedGen = gen /\ t.id = s.tid
       /\ t.decision = heap[r].decision
  BY <1>4, <1>5, <1>10, <1>11 DEF Traces
<1>13. /\ DOMAIN heap' = Refs /\ heap'[r] = t
       /\ \A q \in Refs : q # r => heap'[q] = heap[q]
  BY <1>2, <1>4, <1>12, HeapUpdate DEF Refs
<1>14. Refs' = Refs /\ \A q \in Refs : Buffered(q)' <=> Buffered(q)
  BY <1>4, <1>12, <1>13 DEF Refs, Buffered
<1>15. Buffered(r) /\ \A q \in Refs : q # r /\ Buffered(q) => heap[q].id # s.tid
  BY <1>3, <1>4 DEF Buffered
<1>16. heap'[r].spans = IF Full(u) \/ s.sid \in SpanIDsOf(u) THEN u ELSE Append(u, s)
  BY <1>12, <1>13 DEF v
<1>17. Refs' = Refs \cup {r} /\ heap'[r].id = s.tid /\ heap'[r].touchedGen = gen /\ Buffered(r)'
  BY <1>4, <1>12, <1>13, <1>14, <1>15
<1>18. Takes(r, s, u)
  BY <1>3, <1>4, <1>12, <1>13, <1>14, <1>15, <1>16, <1>17 DEF Takes
<1> QED
  BY <1>6, <1>18 DEF s

\* A new trace of the span, below MaxTraces or in the place of a victim.
LEMMA NewTakes ==
  ASSUME EngineInv, IngestSpan, IngestNew \/ IngestEvicting
  PROVE  \E r : Takes(r, Head(rest), <<>>)
<1> PICK s, r : s = Head(rest) /\ r = Len(heap) + 1
  OBVIOUS
<1>1. /\ WellFormed(heap, index, order, pendingOrder) /\ NewTrace(s) \in Traces
      /\ s \in Spans /\ s.tid \in TraceIDs
  BY IngestFacts
<1>2. /\ heap \in Seq(Traces) /\ index \in [TraceIDs -> Refs \cup {Nil}]
      /\ \A id \in TraceIDs : index[id] # Nil => heap[index[id]].id = id
      /\ \A q \in Refs : heap[q].id \in TraceIDs /\ q # Nil
      /\ Refs = 1..Len(heap) /\ Len(heap) \in Nat /\ r \notin Refs /\ r # Nil
  BY <1>1, HeapElements DEF WellFormed, Refs, Nil
<1>3. SpanIDsOf(<<>>) = {} /\ Append(<<>>, s) = <<s>> /\ ~Full(<<>>)
  <2>1. Len(<<>>) = 0 /\ MaxSpansPerTrace \in Nat
    BY CapsAssumption
  <2> QED
    BY <1>1, <2>1 DEF SpanIDsOf, Full
<1>4. CASE IngestNew
  <2> DEFINE t == NewTrace(s)
  <2>1. index[s.tid] = Nil /\ heap' = Append(heap, t) /\ index' = [index EXCEPT ![s.tid] = r]
    BY <1>4 DEF IngestNew
  <2>2. t \in Traces /\ t.id = s.tid /\ t.spans = <<s>> /\ t.touchedGen = gen
    BY <1>1 DEF NewTrace
  <2> HIDE DEF t
  <2>3. /\ DOMAIN heap' = Refs \cup {r} /\ heap'[r] = t
        /\ \A q \in Refs : heap'[q] = heap[q]
    BY <1>2, <2>1, <2>2, HeapAppend DEF Refs
  <2>4. Buffered(r)'
    BY <1>1, <1>2, <2>1, <2>2, <2>3 DEF Buffered
  <2>5. \A q \in Refs : (Buffered(q)' <=> Buffered(q)) /\ (Buffered(q) => heap[q].id # s.tid)
    BY <1>1, <1>2, <2>1, <2>3 DEF Buffered
  <2> QED
    BY <1>2, <1>3, <2>1, <2>2, <2>3, <2>4, <2>5 DEF Takes, Refs
<1>5. CASE IngestEvicting
  <2> DEFINE t == NewTrace(s)
  <2>0. PICK v : v = OldestPending
    OBVIOUS
  <2>1. /\ index[s.tid] = Nil /\ AtCapacity
        /\ heap' = Append(Decided(heap, v, "NotSampled"), t)
        /\ index' = [index EXCEPT ![heap[v].id] = Nil, ![s.tid] = r]
    BY <1>5, <2>0 DEF IngestEvicting, Decided
  <2>2. t \in Traces /\ t.id = s.tid /\ t.spans = <<s>> /\ t.touchedGen = gen
    BY <1>1 DEF NewTrace
  <2> HIDE DEF t
  <2>3. /\ v \in Refs /\ v \in Range(pendingOrder)
        /\ heap'[v].decision = "NotSampled" /\ heap'[v].spans = heap[v].spans
        /\ Refs' = Refs \cup {r} /\ \A q \in Refs : q # v => heap'[q] = heap[q]
    BY <1>5, <2>0, IngestEvictingEffect
  <2> DEFINE h == Decided(heap, v, "NotSampled")
  <2>4. h \in Seq(Traces) /\ Len(h) = Len(heap)
    <3>1. "NotSampled" \in Decisions
      BY DEF Decisions
    <3>2. h \in Seq(Traces) /\ DOMAIN h = DOMAIN heap
      BY <1>2, <2>3, <3>1, DecisionUpdate DEF Refs
    <3> HIDE DEF h
    <3>3. DOMAIN h = 1..Len(h) /\ Len(h) \in Nat
      BY <3>2, LenProperties
    <3> QED
      BY <1>2, <3>2, <3>3, LenProperties DEF Refs
  <2> HIDE DEF h
  <2>5. heap'[r] = t
    BY <2>1, <2>2, <2>4, HeapAppend DEF h
  <2>6. Buffered(v)
    BY <2>3, BufferedInOrder DEF WellFormed, EngineInv
  <2>7. \A id \in TraceIDs : index'[id] = IF id = s.tid THEN r
                                        ELSE IF id = heap[v].id THEN Nil ELSE index[id]
    <3>1. PICK old : old = heap[v].id
      OBVIOUS
    <3>2. index' = [index EXCEPT ![old] = Nil, ![s.tid] = r]
      BY <2>1, <3>1
    <3>3. \A id \in TraceIDs : index'[id] = IF id = s.tid THEN r
                                          ELSE IF id = old THEN Nil ELSE index[id]
      BY <1>2, <3>2
    <3> QED
      BY <3>1, <3>3
  <2>8. \A q \in Refs : Buffered(q) => heap[q].id # s.tid
    BY <1>1, <1>2, <2>1 DEF Buffered
  <2>9. \A q \in Refs : q # v => (Buffered(q)' <=> Buffered(q))
    BY <1>1, <1>2, <2>3, <2>6, <2>7, <2>8 DEF Buffered
  <2>10. Buffered(r)'
    BY <1>1, <2>2, <2>5, <2>7 DEF Buffered
  <2>11. ~Buffered(v)'
    <3>1. index'[heap[v].id] = Nil /\ v # Nil
      BY <1>2, <2>3, <2>6, <2>7, <2>8
    <3>2. heap'[v].id = heap[v].id
      <4>1. h[v].id = heap[v].id /\ v \in DOMAIN h
        BY <1>2, <2>3, DecisionUpdate, SMTT(30) DEF Refs, Decisions, h
      <4>2. heap'[v] = h[v]
        BY <1>2, <2>1, <2>2, <2>3, <2>4, <4>1, HeapAppend DEF h
      <4> QED
        BY <4>1, <4>2
    <3> QED
      BY <3>1, <3>2 DEF Buffered
  <2>12. MaxTraces > 0
    BY <2>1 DEF AtCapacity
  <2>13. \A q \in Refs : q # r => /\ Buffered(q) => heap[q].id # s.tid
                                  /\ \/ heap'[q] = heap[q] /\ (Buffered(q)' <=> Buffered(q))
                                     \/ Evicted(q)
    BY <2>3, <2>8, <2>9, <2>11, <2>12 DEF Evicted
  <2>14. heap'[r].id = s.tid /\ heap'[r].touchedGen = gen /\ heap'[r].spans = Append(<<>>, s)
    BY <1>3, <2>2, <2>5
  <2> QED
    BY <1>2, <1>3, <2>1, <2>3, <2>10, <2>13, <2>14 DEF Takes
<1> QED
  BY <1>4, <1>5

\* ingestSpan finds or creates the trace of the span, or loses the span.
LEMMA SpanTaken ==
  ASSUME EngineInv, IngestSpan, Head(rest).sid # NoSpanID
  PROVE  Loses(Head(rest)) \/ \E r, u : u \in Seq(Spans) /\ Takes(r, Head(rest), u)
<1>1. CASE IngestKnown
  BY <1>1, KnownTakes
<1>2. CASE IngestNew \/ IngestEvicting
  <2>1. <<>> \in Seq(Spans)
    OBVIOUS
  <2> QED
    BY <1>2, <2>1, NewTakes
<1>3. CASE IngestDropping
  BY <1>3 DEF IngestDropping, Loses, AtCapacity, buffer
<1> QED
  BY <1>1, <1>2, <1>3 DEF IngestSpan

\* No MaxTraces and no MaxSpansPerTrace (the defaults of the bare engine).
Uncapped == MaxTraces = 0 /\ MaxSpansPerTrace = 0

\* Without caps the trace takes the span unless it has it, and nothing else
\* happens to any trace.
Ingests(r, s, u) ==
  /\ Takes(r, s, u)
  /\ heap'[r].spans = IF s.sid \in SpanIDsOf(u) THEN u ELSE Append(u, s)
  /\ \A q \in Refs : q # r => heap'[q] = heap[q] /\ (Buffered(q)' <=> Buffered(q))
LEMMA SpanIngested ==
  ASSUME EngineInv, Uncapped, IngestSpan, Head(rest).sid # NoSpanID
  PROVE  \E r, u : u \in Seq(Spans) /\ Ingests(r, Head(rest), u)
<1>1. ~Loses(Head(rest)) /\ (\A q : ~Evicted(q)) /\ \A u : ~Full(u)
  BY DEF Loses, Evicted, Full, Uncapped
<1>2. PICK r, u : u \in Seq(Spans) /\ Takes(r, Head(rest), u)
  BY <1>1, SpanTaken
<1>3. Ingests(r, Head(rest), u)
  BY <1>1, <1>2 DEF Takes, Ingests
<1> QED
  BY <1>2, <1>3

\* The call that ingests, and the span it ingests.
LEMMA SpanOfCall ==
  ASSUME EngineInv, Delivered, CallInside, IngestSpan
  PROVE  \E c \in Calls :
           /\ callPc[c] = "in" /\ \A e \in Calls : callPc[e] = "in" => e = c
           /\ delivery[c] \in Deliveries /\ Done(c) \in Nat /\ Done(c) + 1 \in 1..Len(delivery[c])
           /\ EngineSpanOf(Head(rest), delivery[c], counts[c], Done(c) + 1)
           /\ Len(Tail(rest)) = Len(rest) - 1 /\ Len(rest) \in Nat
           /\ Done(c) + Len(rest) = Len(delivery[c])
           /\ \A i \in 1..Len(Tail(rest)) :
                /\ Tail(rest)[i] = rest[i + 1]
                /\ EngineSpanOf(Tail(rest)[i], delivery[c], counts[c], Done(c) + 1 + i)
<1>1. pc \in InConsume /\ rest \in Seq(Spans) /\ rest # <<>>
  BY DEF IngestSpan, InConsume, EngineInv, OtherTypes
<1>2. PICK c \in Calls : callPc[c] = "in"
  BY <1>1 DEF CallInside, OneInside
<1>3. \A e \in Calls : callPc[e] = "in" => e = c
  BY <1>2 DEF CallInside, OneInside
<1>4. delivery[c] \in Deliveries /\ Len(delivery[c]) \in Nat
  BY <1>2, DeliveryIsSequence DEF Delivered
<1>5. /\ Len(rest) \in Nat /\ Len(rest) # 0 /\ Tail(rest) \in Seq(Spans)
      /\ Len(Tail(rest)) = Len(rest) - 1
      /\ \A i \in 1..Len(Tail(rest)) : Tail(rest)[i] = rest[i + 1]
      /\ Head(rest) = rest[1]
  BY <1>1, HeadTailProperties, LenProperties, EmptySeq
<1>6. /\ Len(rest) <= Len(delivery[c])
      /\ \A i \in 1..Len(rest) : EngineSpanOf(rest[i], delivery[c], counts[c], Done(c) + i)
  BY <1>2 DEF CallInside, RestOfCall
<1>7. /\ Done(c) \in Nat /\ Done(c) + Len(rest) = Len(delivery[c])
      /\ Done(c) + 1 \in 1..Len(delivery[c])
  BY <1>4, <1>5, <1>6 DEF Done
<1>8. EngineSpanOf(Head(rest), delivery[c], counts[c], Done(c) + 1)
  <2>1. 1 \in 1..Len(rest)
    BY <1>5
  <2> QED
    BY <1>5, <1>6, <2>1
<1>9. ASSUME NEW i \in 1..Len(Tail(rest))
      PROVE  EngineSpanOf(Tail(rest)[i], delivery[c], counts[c], Done(c) + 1 + i)
  <2>1. i + 1 \in 1..Len(rest) /\ Done(c) + (i + 1) = Done(c) + 1 + i
    BY <1>5, <1>7
  <2>2. EngineSpanOf(rest[i + 1], delivery[c], counts[c], Done(c) + (i + 1))
    BY <1>6, <2>1
  <2> QED
    BY <1>5, <2>1, <2>2
<1> QED
  BY <1>2, <1>3, <1>4, <1>5, <1>7, <1>8, <1>9

\* The call c has ingested the spans of its delivery td before k, and ingests
\* span k as s.
Ingesting(c, td, k, s) ==
  /\ c \in Calls /\ \A e \in Calls : callPc[e] = "in" <=> e = c
  /\ \A e \in Calls : callPc'[e] = "in" <=> e = c
  /\ td = delivery[c] /\ td \in Deliveries /\ delivery'[c] = td /\ counts'[c] = counts[c]
  /\ Len(td) \in Nat /\ k \in 1..Len(td) /\ Done(c) = k - 1 /\ Done(c)' = k
  /\ s = Head(rest) /\ s \in Spans /\ EngineSpanOf(s, td, counts[c], k)
  /\ pc = "ingest" /\ pc' = pc /\ gen' = gen
  /\ \A id : /\ Came(id) <=> \E j \in 1..(k - 1) : td[j].tid = id
             /\ Came(id)' <=> \E j \in 1..k : td[j].tid = id
  /\ ToCome(s.tid) \subseteq {s.sid} \cup ToCome(s.tid)'
  /\ \A id : id # s.tid => ToCome(id) \subseteq ToCome(id)'
  /\ \A id, m : m \in 1..Len(td) /\ m > k /\ td[m].tid = id => td[m].sid \in ToCome(id)'

\* When ingestSpan takes the next span of a call, its delivery moves on by one.
LEMMA CallIngests ==
  ASSUME EngineInv, Delivered, CallInside, IngestSpan, SameCallsInside
  PROVE  /\ CallInside'
         /\ \E c, td, k, s : Ingesting(c, td, k, s)
<1>1. PICK c \in Calls :
           /\ callPc[c] = "in" /\ \A e \in Calls : callPc[e] = "in" => e = c
           /\ delivery[c] \in Deliveries /\ Done(c) \in Nat /\ Done(c) + 1 \in 1..Len(delivery[c])
           /\ EngineSpanOf(Head(rest), delivery[c], counts[c], Done(c) + 1)
           /\ Len(Tail(rest)) = Len(rest) - 1 /\ Len(rest) \in Nat
           /\ Done(c) + Len(rest) = Len(delivery[c])
           /\ \A i \in 1..Len(Tail(rest)) :
                /\ Tail(rest)[i] = rest[i + 1]
                /\ EngineSpanOf(Tail(rest)[i], delivery[c], counts[c], Done(c) + 1 + i)
  BY SpanOfCall
<1>2. PICK td, d, k, s, more :
        td = delivery[c] /\ d = Done(c) /\ k = d + 1 /\ s = Head(rest) /\ more = Tail(rest)
  OBVIOUS
<1>3. /\ td \in Deliveries /\ d \in Nat /\ k \in 1..Len(td) /\ Len(td) \in Nat /\ k - 1 = d
      /\ EngineSpanOf(s, td, counts[c], k) /\ Len(more) \in Nat /\ k + Len(more) = Len(td)
      /\ \A i \in 1..Len(more) : more[i] = rest[i + 1]
      /\ \A i \in 1..Len(more) : EngineSpanOf(more[i], td, counts[c], k + i)
      /\ Len(rest) = Len(more) + 1 /\ 1..k = (1..d) \cup {k} /\ k \notin 1..d
  <2>1. /\ td \in Deliveries /\ d \in Nat /\ k \in 1..Len(td) /\ Len(td) \in Nat
        /\ EngineSpanOf(s, td, counts[c], k) /\ Len(more) = Len(rest) - 1 /\ Len(rest) \in Nat
        /\ d + Len(rest) = Len(td)
        /\ \A i \in 1..Len(more) : more[i] = rest[i + 1]
      /\ \A i \in 1..Len(more) : EngineSpanOf(more[i], td, counts[c], k + i)
    BY <1>1, <1>2, DeliveryIsSequence
  <2>2. k = d + 1
    BY <1>2
  <2>3. /\ k - 1 = d /\ Len(more) \in Nat /\ k + Len(more) = Len(td)
        /\ Len(rest) = Len(more) + 1
    BY <2>1, <2>2
  <2>4. 1..k = (1..d) \cup {k} /\ k \notin 1..d
    BY <2>1, <2>2
  <2> QED
    BY <2>1, <2>3, <2>4
<1>4. s \in Spans /\ rest[1] = s
  BY <1>2, HeadTailProperties DEF EngineInv, OtherTypes, IngestSpan
<1>5. /\ pc = "ingest" /\ pc' = pc /\ rest' = more /\ gen' = gen
      /\ callPc'[c] = "in" /\ delivery'[c] = td /\ counts'[c] = counts[c]
      /\ \A e \in Calls : callPc'[e] = "in" => e = c
  BY <1>1, <1>2 DEF IngestSpan, sectionVars, SameCallsInside
<1>6. Done(c)' = k
  BY <1>3, <1>5 DEF Done
<1>7. OneInside'
  BY <1>1, <1>5 DEF OneInside, InConsume
<1>8. RestOfCall'
  BY <1>3, <1>5, <1>6 DEF RestOfCall
<1>9. \A id : /\ Came(id) <=> \E j \in 1..d : td[j].tid = id
              /\ Came(id)' <=> \E j \in 1..k : td[j].tid = id
  <2>1. \A id : Came(id) <=> \E j \in 1..d : td[j].tid = id
    BY <1>1, <1>2 DEF Came
  <2>2. \A id : Came(id)' <=> \E j \in 1..k : td[j].tid = id
    BY <1>5, <1>6 DEF Came
  <2> QED
    BY <2>1, <2>2
<1>10. /\ ToCome(s.tid) \subseteq {s.sid} \cup ToCome(s.tid)'
       /\ \A id : id # s.tid => ToCome(id) \subseteq ToCome(id)'
  <2> SUFFICES ASSUME NEW i \in 1..Len(rest), NEW id, rest[i].tid = id
               PROVE  rest[i] = s \/ rest[i].sid \in ToCome(id)'
    <3>1. ASSUME NEW id, NEW x \in ToCome(id)
          PROVE  (id = s.tid /\ x = s.sid) \/ x \in ToCome(id)'
      BY <3>1 DEF ToCome
    <3> QED
      BY <3>1
  <2>1. CASE i = 1
    BY <1>4, <2>1
  <2>2. CASE i # 1
    <3>1. i - 1 \in 1..Len(more) /\ (i - 1) + 1 = i
      BY <1>3, <2>2
    <3>2. rest[i] = more[i - 1]
      BY <1>3, <3>1
    <3> QED
      BY <1>5, <3>1, <3>2 DEF ToCome
  <2> QED
    BY <2>1, <2>2
<1>11. \A id, m : m \in 1..Len(td) /\ m > k /\ td[m].tid = id => td[m].sid \in ToCome(id)'
  <2> SUFFICES ASSUME NEW m \in 1..Len(td), m > k
               PROVE  td[m].sid \in ToCome(td[m].tid)'
    OBVIOUS
  <2>1. m - k \in 1..Len(more) /\ k + (m - k) = m
    BY <1>3
  <2>2. more[m - k].tid = td[m].tid /\ more[m - k].sid = td[m].sid
    BY <1>3, <2>1 DEF EngineSpanOf
  <2> QED
    BY <1>5, <2>1, <2>2 DEF ToCome
<1>12. Done(c) = k - 1 /\ \A e \in Calls : (callPc[e] = "in" <=> e = c) /\ (callPc'[e] = "in" <=> e = c)
  BY <1>1, <1>2, <1>3, <1>5
<1>13. \A id : /\ Came(id) <=> \E j \in 1..(k - 1) : td[j].tid = id
               /\ Came(id)' <=> \E j \in 1..k : td[j].tid = id
  BY <1>3, <1>9
<1>14. Ingesting(c, td, k, s)
  BY <1>1, <1>2, <1>3, <1>4, <1>5, <1>6, <1>10, <1>11, <1>12, <1>13 DEF Ingesting
<1> QED
  BY <1>7, <1>8, <1>14 DEF CallInside

\* The trace of the ingested span has what it should have.
LEMMA SpanJoinsWell ==
  ASSUME RepeatedWhole(Deliveries), Uncapped, EngineInv, OnItsWay,
         NEW td \in Deliveries, NEW k \in 1..Len(td),
         NEW s \in Spans, NEW held, EngineSpanOf(s, td, held, k),
         NEW r, NEW u \in Seq(Spans), Ingests(r, s, u), pc = "ingest",
         \* the call that ingests has ingested the spans before k
         \A id : Came(id) <=> \E j \in 1..(k - 1) : td[j].tid = id,
         \A j \in 1..(k - 1) : td[j].tid = s.tid
           => \E q \in Refs : /\ heap[q].id = s.tid /\ Buffered(q)
                              /\ td[j].sid \in SpanIDsOf(heap[q].spans),
         NEW left, \A m \in 1..Len(td) : m > k /\ td[m].tid = s.tid => td[m].sid \in left,
         ToCome(s.tid) \subseteq {s.sid} \cup left
  PROVE  /\ WellCarried(s.tid, heap'[r].spans)
         /\ CarriedBy(heap'[r].spans) \subseteq SpanIDsOf(heap'[r].spans) \cup left
<1> DEFINE id == s.tid
<1>1. id = td[k].tid /\ s.sid = td[k].sid /\ Len(td) \in Nat /\ k \in Nat
  BY DeliveryIsSequence DEF EngineSpanOf
<1>2. /\ WellCarried(id, u)
      /\ CarriedBy(u) \subseteq SpanIDsOf(u) \cup (IF Came(id) THEN ToCome(id) ELSE {})
  <2>1. CASE r \in Refs
    <3>1. Buffered(r) /\ heap[r].id = id /\ u = heap[r].spans
      BY <2>1 DEF Ingests, Takes
    <3> QED
      BY <2>1, <3>1 DEF OnItsWay, CarriesItsSpans, StillComing
  <2>2. CASE r \notin Refs
    <3>1. u = <<>>
      BY <2>2 DEF Ingests, Takes
    <3> QED
      BY <3>1, NothingCarried
  <2> QED
    BY <2>1, <2>2
<1>3. CASE s.sid \in SpanIDsOf(u)
  <2>1. heap'[r].spans = u
    BY <1>3 DEF Ingests
  <2> QED
    BY <1>2, <1>3, <2>1
<1>4. CASE s.sid \notin SpanIDsOf(u)
  <2>1. heap'[r].spans = Append(u, s)
    BY <1>4 DEF Ingests
  <2>2. CASE FirstOfTrace(td, k)
    <3>1. ~Came(id)
      BY <1>1, <2>2 DEF FirstOfTrace
    <3>2. s.sid \notin CarriedBy(u)
      BY <1>2, <1>4, <3>1
    <3>3. BlockIDs(s.raw) = GroupIDs(td, id)
      BY <1>1, <2>2, AllFit DEF EngineSpanOf, GroupIDs, Uncapped
    <3>4. Grown(id, u, s)
      <4> HIDE DEF id
      <4> QED
        BY <1>1, <1>2, <1>4, <3>2, <3>3, CarriedGrows, Zenon
    <3>5. GroupIDs(td, id) \subseteq {s.sid} \cup left
      <4> SUFFICES ASSUME NEW m \in 1..Len(td), td[m].tid = id
                   PROVE  td[m].sid \in {s.sid} \cup left
        BY DEF GroupIDs, IDsUpTo
      <4>1. m \notin 1..(k - 1)
        BY <1>1, <2>2 DEF FirstOfTrace
      <4>2. m = k \/ m > k
        BY <1>1, <4>1
      <4> QED
        BY <1>1, <4>2
    <3> QED
      BY <1>2, <2>1, <3>1, <3>3, <3>4, <3>5 DEF Grown
  <2>3. CASE ~FirstOfTrace(td, k)
    <3>1. PICK j \in 1..(k - 1) : td[j].tid = id
      BY <1>1, <2>3 DEF FirstOfTrace
    <3>2. PICK q \in Refs : /\ heap[q].id = id /\ Buffered(q)
                            /\ td[j].sid \in SpanIDsOf(heap[q].spans)
      BY <3>1
    <3>3. index[id] = q /\ q # Nil
      BY <3>2, BufferedInOrder DEF Buffered, Nil
    <3>4. r = q /\ u = heap[q].spans
      BY <3>2, <3>3 DEF Ingests, Takes, Buffered
    <3>5. td[j].sid \in CarriedBy(u)
      BY <1>2, <3>2, <3>4 DEF WellCarried, Packed
    <3>6. td[j].sid \in GroupIDs(td, id)
      BY <1>1, <3>1 DEF GroupIDs, IDsUpTo
    <3>7. GroupIDs(td, id) \subseteq CarriedBy(u)
      BY <1>2, <3>5, <3>6 DEF WellCarried, Packed
    <3>8. BlockIDs(s.raw) = {}
      BY <2>3 DEF EngineSpanOf
    <3>9. Grown(id, u, s)
      <4> HIDE DEF id
      <4> QED
        BY <1>1, <1>2, <1>4, <3>7, <3>8, CarriedGrows, Zenon
    <3> QED
      BY <1>2, <2>1, <3>8, <3>9 DEF Grown
  <2> QED
    BY <2>2, <2>3
<1> QED
  BY <1>3, <1>4

\* The trace of the ingested span has that span, with the kind it was sent with,
\* also when the engine took it for a duplicate.
LEMMA SpanIsThere ==
  ASSUME RepeatedWhole(Deliveries), NEW td \in Deliveries, NEW k \in 1..Len(td),
         NEW s \in Spans, NEW held, EngineSpanOf(s, td, held, k),
         NEW r, NEW u \in Seq(Spans), Ingests(r, s, u),
         WellCarried(s.tid, u)
  PROVE  /\ Has(heap'[r], td[k])
         /\ \A sp : (\E x \in DOMAIN u : u[x].sid = sp.sid /\ u[x].kind = KindOf(sp))
                      => Has(heap'[r], sp)
<1>1. s.tid = td[k].tid /\ s.sid = td[k].sid /\ s.kind = KindOf(td[k])
  BY DEF EngineSpanOf
<1>2. CASE s.sid \in SpanIDsOf(u)
  <2>1. heap'[r].spans = u
    BY <1>2 DEF Ingests
  <2>2. PICK x \in DOMAIN u : u[x].sid = s.sid
    BY <1>2 DEF SpanIDsOf
  <2>3. FromDelivery(s.tid, u[x])
    BY DEF WellCarried, Packed
  <2>4. PICK ud \in Deliveries : \E m \in 1..Len(ud) :
               ud[m].tid = s.tid /\ ud[m].sid = u[x].sid /\ u[x].kind = KindOf(ud[m])
    BY <2>3 DEF FromDelivery
  <2>5. PICK m \in 1..Len(ud) :
               ud[m].tid = s.tid /\ ud[m].sid = u[x].sid /\ u[x].kind = KindOf(ud[m])
    BY <2>4
  <2>6. ud[m] = td[k]
    BY <1>1, <2>2, <2>5, Groups
  <2>7. u[x].kind = KindOf(td[k])
    BY <2>5, <2>6
  <2> QED
    BY <1>1, <2>1, <2>2, <2>7 DEF Has
<1>3. CASE s.sid \notin SpanIDsOf(u)
  <2>1. heap'[r].spans = Append(u, s)
    BY <1>3 DEF Ingests
  <2> DEFINE v == Append(u, s)
  <2>2. /\ Len(u) \in Nat /\ DOMAIN u = 1..Len(u) /\ DOMAIN v = 1..(Len(u) + 1)
        /\ v[Len(u) + 1] = s /\ \A x \in 1..Len(u) : v[x] = u[x]
    <3>1. v \in Seq(Spans) /\ Len(v) = Len(u) + 1
      BY AppendProperties
    <3> QED
      BY <3>1, AppendProperties, LenProperties
  <2> HIDE DEF v
  <2>3. Len(u) + 1 \in DOMAIN v /\ \A x \in DOMAIN u : x \in DOMAIN v /\ v[x] = u[x]
    BY <2>2
  <2>4. heap'[r].spans = v
    BY <2>1 DEF v
  <2> QED
    BY <1>1, <2>2, <2>3, <2>4 DEF Has
<1> QED
  BY <1>2, <1>3

\* When ingestSpan takes the next span of the call, its trace carries what it
\* has and what is to come, and all the call ingested is still buffered.
LEMMA IngestGoesOn ==
  ASSUME RepeatedWhole(Deliveries), Uncapped, EngineInv, Delivered, OnItsWay, IngestSpan,
         SameCallsInside
  PROVE  OnItsWay'
<1>1. CallInside' /\ \E c, td, k, s : Ingesting(c, td, k, s)
  BY CallIngests DEF OnItsWay
<1>2. PICK c, td, k, s : Ingesting(c, td, k, s)
  BY <1>1
<1>3. PICK d : d = k - 1
  OBVIOUS
<1>4. /\ td \in Deliveries /\ k \in 1..Len(td) /\ Len(td) \in Nat
      /\ s \in Spans /\ EngineSpanOf(s, td, counts[c], k)
  BY <1>2 DEF Ingesting
<1>5. s.tid = td[k].tid /\ s.sid = td[k].sid /\ s.sid # NoSpanID
  <2>1. td[k].sid # NoSpanID
    BY <1>4, Groups, Zenon
  <2> QED
    BY <1>4, <2>1 DEF EngineSpanOf
<1>6. PICK r, u : u \in Seq(Spans) /\ Ingests(r, s, u)
  BY <1>2, <1>5, SpanIngested DEF Ingesting
<1>7. /\ pc = "ingest" /\ pc' = pc /\ gen' = gen
      /\ c \in Calls /\ callPc[c] = "in" /\ td = delivery[c] /\ delivery'[c] = td
      /\ \A e \in Calls : callPc'[e] = "in" => e = c
  BY <1>2 DEF Ingesting
<1>8. Done(c) = d /\ Done(c)' = k
  BY <1>2, <1>3 DEF Ingesting
<1>9. d \in Nat /\ k - 1 = d /\ 1..k = (1..d) \cup {k} /\ k \notin 1..d
  BY <1>3, <1>4
<1>10. \A id : /\ Came(id) <=> \E j \in 1..d : td[j].tid = id
               /\ Came(id)' <=> \E j \in 1..k : td[j].tid = id
  BY <1>2, <1>3 DEF Ingesting
<1>11. /\ ToCome(s.tid) \subseteq {s.sid} \cup ToCome(s.tid)'
       /\ \A id : id # s.tid => ToCome(id) \subseteq ToCome(id)'
  BY <1>2 DEF Ingesting
<1>12. \A m \in 1..Len(td) : m > k /\ td[m].tid = s.tid => td[m].sid \in ToCome(s.tid)'
  BY <1>2 DEF Ingesting
<1>13. ASSUME NEW j \in 1..d
       PROVE  \E q \in Refs :
                /\ heap[q].id = td[j].tid /\ heap[q].touchedGen = gen /\ Buffered(q)
                /\ \A m \in 1..d : td[m].tid = td[j].tid => Has(heap[q], td[m])
  <2>1. \A i \in 1..Done(c) : \E q \in Refs :
          /\ heap[q].id = delivery[c][i].tid /\ heap[q].touchedGen = gen
          /\ pc = "ingest" => Buffered(q)
          /\ \A m \in 1..Done(c) : delivery[c][m].tid = delivery[c][i].tid
               => Has(heap[q], delivery[c][m])
    BY <1>7 DEF OnItsWay, Arrived
  <2> QED
    BY <1>7, <1>8, <2>1
<1>14. \A t, sp : Has(t, sp) => sp.sid \in SpanIDsOf(t.spans)
  BY DEF Has, SpanIDsOf
<1>15. /\ WellCarried(s.tid, heap'[r].spans)
       /\ CarriedBy(heap'[r].spans) \subseteq SpanIDsOf(heap'[r].spans) \cup ToCome(s.tid)'
  <2>1. \A j \in 1..(k - 1) : td[j].tid = s.tid
           => \E q \in Refs : /\ heap[q].id = s.tid /\ Buffered(q)
                              /\ td[j].sid \in SpanIDsOf(heap[q].spans)
    BY <1>9, <1>13, <1>14
  <2>2. \A id : Came(id) <=> \E j \in 1..(k - 1) : td[j].tid = id
    BY <1>9, <1>10
  <2>3. PICK left : left = ToCome(s.tid)'
    OBVIOUS
  <2>4. /\ \A m \in 1..Len(td) : m > k /\ td[m].tid = s.tid => td[m].sid \in left
        /\ ToCome(s.tid) \subseteq {s.sid} \cup left
    BY <1>11, <1>12, <2>3
  <2>5. /\ WellCarried(s.tid, heap'[r].spans)
        /\ CarriedBy(heap'[r].spans) \subseteq SpanIDsOf(heap'[r].spans) \cup left
    <3>1. /\ td \in Deliveries /\ k \in 1..Len(td) /\ s \in Spans /\ EngineSpanOf(s, td, counts[c], k)
          /\ u \in Seq(Spans) /\ Ingests(r, s, u) /\ pc = "ingest"
      BY <1>4, <1>6, <1>7
    <3> QED
      BY <2>1, <2>2, <2>4, <3>1, SpanJoinsWell, ZenonT(60)
  <2> QED
    BY <2>3, <2>5
<1>16. WellCarried(s.tid, u)
  BY <1>6, NothingCarried DEF Ingests, Takes, OnItsWay, CarriesItsSpans
<1>17. CarriesItsSpans'
  <2> SUFFICES ASSUME NEW q \in Refs'
               PROVE  /\ WellCarried(heap'[q].id, heap'[q].spans)
                      /\ CarriedBy(heap'[q].spans) \subseteq SpanIDsOf(heap'[q].spans) \cup StillComing(q)'
    BY DEF CarriesItsSpans
  <2>1. CASE q = r
    <3>1. heap'[r].id = s.tid /\ Buffered(r)' /\ Came(s.tid)'
      BY <1>4, <1>5, <1>6, <1>9, <1>10 DEF Ingests, Takes
    <3>2. StillComing(q)' = ToCome(s.tid)'
      BY <1>7, <2>1, <3>1 DEF StillComing
    <3> QED
      BY <1>15, <2>1, <3>1, <3>2
  <2>2. CASE q # r
    <3>1. q \in Refs /\ heap'[q] = heap[q] /\ (Buffered(q)' <=> Buffered(q))
          /\ (Buffered(q) => heap[q].id # s.tid)
      BY <1>6, <2>2 DEF Ingests, Takes
    <3>2. Came(heap[q].id) => Came(heap[q].id)'
      BY <1>9, <1>10, <3>1
    <3>3. StillComing(q) \subseteq StillComing(q)'
      BY <1>7, <1>11, <3>1, <3>2 DEF StillComing
    <3> QED
      BY <3>1, <3>3 DEF OnItsWay, CarriesItsSpans
  <2> QED
    BY <2>1, <2>2
<1>18. ASSUME NEW i \in 1..k
       PROVE  \E q \in Refs' :
                /\ heap'[q].id = td[i].tid /\ heap'[q].touchedGen = gen /\ Buffered(q)'
                /\ \A j \in 1..k : td[j].tid = td[i].tid => Has(heap'[q], td[j])
  <2>1. CASE td[i].tid = s.tid
    <3>1. r \in Refs' /\ heap'[r].id = s.tid /\ heap'[r].touchedGen = gen /\ Buffered(r)'
      BY <1>6 DEF Ingests, Takes
    <3>2. ASSUME NEW j \in 1..d, td[j].tid = s.tid PROVE Has(heap'[r], td[j])
      <4>1. PICK q \in Refs : heap[q].id = s.tid /\ Buffered(q) /\ Has(heap[q], td[j])
        BY <1>13, <3>2
      <4>2. q = r /\ q \in Refs
        BY <1>6, <4>1 DEF Ingests, Takes
      <4>3. u = heap[r].spans
        BY <1>6, <4>2 DEF Ingests, Takes
      <4>4. \E x \in DOMAIN u : u[x].sid = td[j].sid /\ u[x].kind = KindOf(td[j])
        BY <4>1, <4>2, <4>3 DEF Has
      <4>5. \A sp : (\E x \in DOMAIN u : u[x].sid = sp.sid /\ u[x].kind = KindOf(sp))
                      => Has(heap'[r], sp)
        BY <1>4, <1>6, <1>16, SpanIsThere
      <4> QED
        BY <4>4, <4>5
    <3>3. Has(heap'[r], td[k])
      BY <1>4, <1>6, <1>16, SpanIsThere
    <3> QED
      BY <1>9, <2>1, <3>1, <3>2, <3>3
  <2>2. CASE td[i].tid # s.tid
    <3>1. i \in 1..d
      BY <1>5, <1>9, <2>2
    <3>2. PICK q \in Refs :
                /\ heap[q].id = td[i].tid /\ heap[q].touchedGen = gen /\ Buffered(q)
                /\ \A m \in 1..d : td[m].tid = td[i].tid => Has(heap[q], td[m])
      BY <1>13, <3>1
    <3>3. q # r
      BY <1>6, <2>2, <3>2 DEF Ingests, Takes
    <3>4. q \in Refs' /\ heap'[q] = heap[q] /\ Buffered(q)'
      BY <1>6, <3>2, <3>3 DEF Ingests, Takes
    <3>5. \A j \in 1..k : td[j].tid = td[i].tid => j \in 1..d
      BY <1>5, <1>9, <2>2
    <3> QED
      BY <3>2, <3>4, <3>5
  <2> QED
    BY <2>1, <2>2
<1>19. Arrived'
  <2> SUFFICES ASSUME NEW i \in 1..k
               PROVE  \E q \in Refs' :
                        /\ heap'[q].id = td[i].tid /\ heap'[q].touchedGen = gen'
                        /\ pc' = "ingest" => Buffered(q)'
                        /\ \A j \in 1..k : td[j].tid = td[i].tid => Has(heap'[q], td[j])
    BY <1>7, <1>8 DEF Arrived
  <2> QED
    BY <1>7, <1>18
<1> QED
  BY <1>1, <1>17, <1>19 DEF OnItsWay

\* A call enters Consume with its delivery converted by toEngineSpans.
LEMMA EnterCall ==
  ASSUME RepeatedWhole(Deliveries), EngineInv', AdapterTypeOK, Delivered, CallInside,
         NEW c \in Calls, Enter(c)
  PROVE  /\ CallInside' /\ Done(c)' = 0 /\ pc = "free" /\ pc' = "preExpire"
         /\ \A e \in Calls : callPc'[e] = "in" <=> e = c
         /\ UNCHANGED <<heap, index>>
<1>1. PICK td, held : td = delivery[c] /\ held = counts[c]
  OBVIOUS
<1>2. /\ callPc[c] = "count" /\ callPc' = [callPc EXCEPT ![c] = "in"]
      /\ delivery' = delivery /\ counts' = counts
      /\ pc = "free" /\ pc' = "preExpire" /\ rest' = ToEngineSpans(td, MaxSpansPerTrace, held)
      /\ heap' = heap /\ index' = index
  BY <1>1 DEF Enter, BeginConsume, buffer
<1>3. /\ td \in Deliveries /\ IDsDiffer(td) /\ td \in Seq(AllSources)
      /\ Len(td) \in Nat /\ DOMAIN td = 1..Len(td) /\ \A i \in DOMAIN td : td[i].tid \in TraceIDs
  <2>1. td \in Deliveries
    BY <1>1, <1>2 DEF Delivered
  <2> QED
    BY <2>1, DeliveryIsSequence DEF RepeatedWhole, IDsDiffer
<1>4. \A e \in Calls : callPc[e] # "in"
  BY <1>2 DEF CallInside, OneInside, InConsume
<1>5. \A e \in Calls : callPc'[e] = "in" <=> e = c
  BY <1>2, <1>4 DEF AdapterTypeOK
<1>6. OneInside'
  BY <1>2, <1>5 DEF OneInside, InConsume
<1>7. Limits(td, MaxSpansPerTrace, held)
  BY <1>1, <1>3, CapsAssumption DEF Limits, AdapterTypeOK
<1>8. /\ DOMAIN rest' = 1..Len(td)
      /\ \A i \in 1..Len(td) : EngineSpanOf(rest'[i], td, held, i)
  BY <1>2, <1>3, <1>7, Conversion DEF EngineSpanOf
<1>9. Len(rest') = Len(td)
  <2>1. DOMAIN rest' = 1..Len(rest') /\ Len(rest') \in Nat
    BY LenProperties DEF EngineInv, OtherTypes
  <2>2. PICK m, n : m = Len(rest') /\ n = Len(td)
    OBVIOUS
  <2>3. m \in Nat /\ n \in Nat /\ \A i : i \in 1..m <=> i \in 1..n
    BY <1>3, <1>8, <2>1, <2>2
  <2>4. (m # 0 => m \in 1..m) /\ (n # 0 => n \in 1..n)
    BY <2>3
  <2>5. m <= n /\ n <= m
    BY <2>3, <2>4
  <2> QED
    BY <2>2, <2>3, <2>5
<1>10. Done(c)' = 0
  BY <1>1, <1>2, <1>3, <1>9 DEF Done
<1>11. RestOfCall'
  <2> SUFFICES /\ Len(rest') <= Len(delivery'[c])
               /\ \A i \in 1..Len(rest') :
                    EngineSpanOf(rest'[i], delivery'[c], counts'[c], Done(c)' + i)
    BY <1>2, <1>5, <1>10 DEF RestOfCall
  <2>1. Len(rest') <= Len(td)
    BY <1>3, <1>9
  <2>2. \A i \in 1..Len(rest') : 0 + i = i
    OBVIOUS
  <2> QED
    BY <1>1, <1>2, <1>8, <1>9, <1>10, <2>1, <2>2
<1> QED
  BY <1>2, <1>5, <1>6, <1>10, <1>11 DEF CallInside

\* And the traces wait for its spans.
LEMMA EnterStartsWay ==
  ASSUME RepeatedWhole(Deliveries), EngineInv', AdapterTypeOK, Delivered, OnItsWay,
         NEW c \in Calls, Enter(c)
  PROVE  OnItsWay'
<1>1. /\ CallInside' /\ Done(c)' = 0 /\ pc = "free" /\ pc' = "preExpire"
      /\ \A e \in Calls : callPc'[e] = "in" <=> e = c
      /\ heap' = heap
  BY EnterCall DEF OnItsWay
<1>2. CarriesItsSpans'
  <2>1. \A r \in Refs : StillComing(r) = {}
    BY <1>1 DEF StillComing
  <2> QED
    BY <1>1, <2>1 DEF OnItsWay, CarriesItsSpans, Refs
<1>3. Arrived'
  <2>1. 1..0 = {}
    OBVIOUS
  <2> QED
    BY <1>1, <2>1 DEF Arrived
<1> QED
  BY <1>1, <1>2, <1>3 DEF OnItsWay

\* A call that returns from Consume leaves the engine to the others.
LEMMA LeaveCall ==
  ASSUME AdapterTypeOK, CallInside, NEW c \in Calls, Leave(c)
  PROVE  /\ CallInside' /\ pc = "postExpire" /\ pc' = "free" /\ UNCHANGED <<heap, index>>
         /\ \A e \in Calls : callPc'[e] # "in"
<1>1. /\ callPc[c] = "in" /\ callPc' = [callPc EXCEPT ![c] = "done"]
      /\ pc = "postExpire" /\ pc' = "free" /\ heap' = heap /\ index' = index
  BY DEF Leave, ConsumeEnd, buffer
<1>2. \A e \in Calls : callPc'[e] # "in"
  BY <1>1 DEF AdapterTypeOK, CallInside, OneInside
<1>3. OneInside' /\ RestOfCall'
  BY <1>1, <1>2 DEF OneInside, InConsume, RestOfCall
<1> QED
  BY <1>1, <1>2, <1>3 DEF CallInside

LEMMA LeaveEndsWay ==
  ASSUME AdapterTypeOK, OnItsWay, NEW c \in Calls, Leave(c)
  PROVE  OnItsWay'
<1>1. /\ CallInside' /\ pc = "postExpire" /\ pc' = "free" /\ heap' = heap
      /\ \A e \in Calls : callPc'[e] # "in"
  BY LeaveCall DEF OnItsWay
<1>2. Arrived'
  BY <1>1 DEF Arrived
<1>3. CarriesItsSpans'
  <2>1. \A r \in Refs : StillComing(r) = {}
    BY <1>1 DEF StillComing
  <2> QED
    BY <1>1, <2>1 DEF OnItsWay, CarriesItsSpans, Refs
<1> QED
  BY <1>1, <1>2, <1>3 DEF OnItsWay

\* At the start no call is inside and no trace exists.
LEMMA OnItsWayInit == ProcessorInit => OnItsWay
<1> SUFFICES ASSUME ProcessorInit PROVE OnItsWay
  OBVIOUS
<1>1. pc = "free" /\ Refs = {} /\ \A c \in Calls : callPc[c] # "in"
  BY DEF ProcessorInit, Init, Refs
<1> QED
  BY <1>1 DEF OnItsWay, CallInside, OneInside, InConsume, RestOfCall, CarriesItsSpans, Arrived

\* Every step of the processor.
LEMMA OnItsWayStep ==
  ASSUME RepeatedWhole(Deliveries), Uncapped, ProcessorInv, EngineInv', OnItsWay,
         [ProcessorNext]_processorVars
  PROVE  OnItsWay'
<1>1. EngineInv /\ AdapterTypeOK /\ Delivered /\ [Next]_vars
  BY EngineSeesAStep DEF ProcessorInv
<1>2. ASSUME NEW c \in Calls, Receive(c) \/ ReadCount(c) PROVE OnItsWay'
  <2>1. UNCHANGED vars
    BY <1>2 DEF Receive, ReadCount, vars
  <2>2. SameTraces /\ SectionGoesOn
    <3>1. SectionGoesOn
      BY <2>1 DEF SectionGoesOn, vars, buffer, batchVars, sectionVars
    <3> QED
      BY <2>1, <3>1 DEF SameTraces, Refs, vars, buffer
  <2>3. SameCallsInside
    BY <1>1, <1>2 DEF Receive, ReadCount, SameCallsInside, AdapterTypeOK
  <2> QED
    BY <1>1, <2>2, <2>3, GoesOnItsWay
<1>3. ASSUME NEW c \in Calls, Enter(c) PROVE OnItsWay'
  BY <1>1, <1>3, EnterStartsWay
<1>4. ASSUME NEW c \in Calls, Leave(c) PROVE OnItsWay'
  BY <1>1, <1>4, LeaveEndsWay
<1>5. CASE EngineStep \/ UNCHANGED processorVars
  <2>1. SameCallsInside
    BY <1>5 DEF EngineStep, SameCallsInside, processorVars, adapter
  <2>2. CASE IngestSpan
    BY <1>1, <2>1, <2>2, IngestGoesOn
  <2>3. CASE ~IngestSpan
    <3>1. SectionGoesOn
      BY <1>5, <2>3, EngineGoesOn DEF processorVars
    <3>2. SameTraces
      BY <1>1, <2>3, NothingIngested
    <3> QED
      BY <1>1, <2>1, <3>1, <3>2, GoesOnItsWay
  <2> QED
    BY <2>2, <2>3
<1> QED
  BY <1>2, <1>3, <1>4, <1>5 DEF ProcessorNext

-----------------------------------------------------------------------------
(* What the sink took.                                                     *)

\* What the sink emitted of a trace are the spans the engine buffered of it.
LEMMA EmittedAsBuffered ==
  ASSUME EngineInv, SinkAgrees, OnItsWay, NEW r \in Range(sinkLog)
  PROVE  /\ r \in Refs /\ r \notin Range(order)
         /\ SpanIDsOf(SpansOf(Emission(r))) = SpanIDsOf(heap[r].spans)
         /\ Len(SpansOf(Emission(r))) = Len(heap[r].spans)
<1> DEFINE u == heap[r].spans
           out == SpansOf(Emission(r))
<1>1. r \in Refs /\ r \notin Range(order)
  BY DEF SinkAgrees
<1>2. ~Buffered(r)
  BY <1>1, BufferedInOrder
<1>3. u \in Seq(Spans)
  BY <1>1, HeapElements DEF EngineInv, WellFormed, Refs, Traces
<1>4. WellCarried(heap[r].id, u) /\ CarriedBy(u) \subseteq SpanIDsOf(u)
  BY <1>1, <1>2 DEF OnItsWay, CarriesItsSpans, StillComing
<1>5. CarriedBy(u) = SpanIDsOf(u) /\ Packed(AllSources, u)
  BY <1>4 DEF WellCarried
<1>6. SpanIDsOf(out) = SpanIDsOf(u) /\ Len(out) = Cardinality(SpanIDsOf(u))
  <2>1. out = SpansOf(FromEngineSpans(u))
    BY DEF Emission
  <2> HIDE DEF u, out
  <2>2. SpanIDsOf(out) = CarriedBy(u) /\ Len(out) = Cardinality(CarriedBy(u))
    BY <1>3, <1>5, <2>1, EmissionIDs
  <2> QED
    BY <1>5, <2>2
<1> HIDE DEF u, out
<1>7. Cardinality(SpanIDsOf(u)) = Len(u)
  <2>1. \A i, j \in DOMAIN u : i < j => u[i].sid # u[j].sid
    BY <1>4 DEF WellCarried
  <2> QED
    BY <1>3, <2>1, AsManyAsIDs
<1> QED
  BY <1>1, <1>6, <1>7 DEF u, out

\* The sink keeps what it took, and nobody writes a trace that left the buffer.
LEMMA SinkKeeps ==
  ASSUME EngineInv, SinkAgrees, [Next]_vars, NEW r \in Range(sinkLog)
  PROVE  r \in Range(sinkLog') /\ heap'[r] = heap[r]
<1>1. r \in Refs /\ r \notin Range(order) /\ sinkLog \in Seq(Refs)
  BY DEF SinkAgrees, EngineInv, OtherTypes, Refs
<1>2. \A q \in Refs : Keeps(q) /\ q = r => heap'[r] = heap[r]
  BY <1>1 DEF Keeps
<1>3. \A q : sinkLog' = sinkLog \/ sinkLog' = Append(sinkLog, q) => r \in Range(sinkLog')
  <2> SUFFICES ASSUME NEW q, sinkLog' = Append(sinkLog, q) PROVE r \in Range(sinkLog')
    OBVIOUS
  <2>1. PICK i \in DOMAIN sinkLog : sinkLog[i] = r
    BY DEF Range
  <2>2. i \in DOMAIN sinkLog' /\ sinkLog'[i] = sinkLog[i]
    BY <1>1, <2>1
  <2> QED
    BY <2>1, <2>2 DEF Range
<1>4. CASE DecidesNothing
  BY <1>1, <1>2, <1>3, <1>4 DEF DecidesNothing
<1>5. CASE \E q \in Refs : Drops(q) \/ Holds(q) \/ Forwards(q)
  BY <1>1, <1>2, <1>3, <1>5 DEF Drops, Holds, Forwards, OthersKeep
<1>6. CASE \E q \in Refs' : Admits(q) \/ \E v \in Refs : Replaces(v, q)
  <2>1. Range(pendingOrder) \subseteq Range(order)
    BY BufferedInOrder
  <2> QED
    BY <1>1, <1>2, <1>3, <1>6, <2>1 DEF Admits, Replaces, Joins, OthersKeep
<1> QED
  BY <1>4, <1>5, <1>6, StepOutcomes DEF StepOutcome

-----------------------------------------------------------------------------
(* What nil means.                                                         *)

\* What the theorem needs to know of the engine.
EngineFacts ==
  EngineInv /\ HeldIsListed /\ HotPendingIsTouched /\ KeepWorthyNeverDropped /\ SinkAgrees

\* They hold of the engine when MaxTraces evicts nothing.
LEMMA EngineFactsHold ==
  ASSUME MaxTraces = 0
  PROVE  Spec => []EngineFacts
<1>1. Init => MarksAreListed /\ HeldIsListed
  BY DEF Init, Refs, MarksAreListed, HeldIsListed
<1>2. EngineInv /\ MarksAreListed /\ HeldIsListed /\ [Next]_vars
        => MarksAreListed' /\ HeldIsListed'
  BY MarksStep, HeldIsListedStep
<1>3. EngineInv /\ SinkAgrees /\ [Next]_vars => SinkAgrees'
  BY SinkAgreesStep
<1> QED
  BY <1>1, <1>2, <1>3, SinkAgreesInit, EngineInvariant, HotTracesTouched, KeepWorthyKept, PTL
     DEF Spec, EngineFacts

\* A call that returned is done.
Returned == \A c \in Calls : outcome[c] = "nil" => callPc[c] = "done"

\* The traces of a batch that a policy keeps were emitted when the call leaves.
LEMMA KeptAtTheEnd ==
  ASSUME EngineFacts, Delivered, OnItsWay, NEW c \in Calls, Leave(c), ~failed,
         NEW i \in DOMAIN delivery[c], NEW j \in DOMAIN delivery[c],
         KindOf(delivery[c][i]) \in KeepKinds, delivery[c][j].tid = delivery[c][i].tid
  PROVE  \E r \in Range(sinkLog) :
           /\ heap[r].id = delivery[c][i].tid
           /\ delivery[c][j].sid \in SpanIDsOf(SpansOf(Emission(r)))
<1>1. callPc[c] = "in" /\ pc = "postExpire" /\ EngineInv /\ SinkAgrees
  BY DEF Leave, ConsumeEnd, EngineFacts
<1>2. rest = <<>> /\ delivery[c] \in Deliveries
  BY <1>1 DEF OnItsWay, CallInside, RestOfCall, Delivered
<1>3. Done(c) = Len(delivery[c]) /\ DOMAIN delivery[c] = 1..Len(delivery[c])
  BY <1>2, DeliveryIsSequence DEF Done
<1>4. PICK r \in Refs :
        /\ heap[r].id = delivery[c][i].tid /\ heap[r].touchedGen = gen
        /\ \A m \in 1..Done(c) : delivery[c][m].tid = delivery[c][i].tid
             => Has(heap[r], delivery[c][m])
  BY <1>1, <1>3 DEF OnItsWay, Arrived
<1>5. KeepWorthy(r) /\ delivery[c][j].sid \in SpanIDsOf(heap[r].spans)
  BY <1>3, <1>4 DEF Has, KeepWorthy, SpanIDsOf
<1>6. touched = <<>>
  BY <1>1 DEF EngineInv, LoopInvariant
<1>7. Range(touched) = {}
  BY <1>6 DEF Range
<1>8. heap[r].decision = "Sampled"
  <2>1. ~Pending(r)
    BY <1>5, <1>7 DEF EngineFacts, HotPendingIsTouched
  <2>2. heap[r].decision # "NotSampled"
    BY <1>5 DEF EngineFacts, KeepWorthyNeverDropped
  <2> QED
    BY <1>1, <2>1, <2>2, DecisionKnown DEF Pending
<1>9. r \notin Range(order)
  BY <1>1, <1>4, <1>7, <1>8 DEF EngineFacts, HeldIsListed
<1>10. r \in Range(sinkLog)
  BY <1>1, <1>8, <1>9 DEF SinkAgrees
<1> QED
  BY <1>1, <1>4, <1>5, <1>10, EmittedAsBuffered

\* A step that makes a call return nil finds its kept traces emitted, and no
\* step takes back what was emitted.
LEMMA NilStep ==
  ASSUME EngineFacts, AdapterTypeOK, Delivered, OnItsWay, Returned, NilMeansKeptWereEmitted,
         [ProcessorNext]_processorVars
  PROVE  Returned' /\ NilMeansKeptWereEmitted'
<1>1. [Next]_vars
  BY EngineSeesAStep
<1>2. Returned'
  BY DEF Returned, AdapterTypeOK, ProcessorNext, Receive, ReadCount, Enter, Leave, EngineStep,
         processorVars, adapter
<1>3. ASSUME NEW c \in Calls, outcome'[c] = "nil"
      PROVE  delivery'[c] = delivery[c] /\ (outcome[c] = "nil" \/ (Leave(c) /\ ~failed))
  <2>1. ASSUME NEW d \in Calls, Receive(d)
        PROVE  delivery'[c] = delivery[c] /\ outcome[c] = "nil"
    BY <1>3, <2>1 DEF Receive, Returned, AdapterTypeOK
  <2>2. ASSUME NEW d \in Calls, ReadCount(d) \/ Enter(d)
        PROVE  delivery'[c] = delivery[c] /\ outcome[c] = "nil"
    BY <1>3, <2>2 DEF ReadCount, Enter
  <2>3. ASSUME NEW d \in Calls, Leave(d)
        PROVE  delivery'[c] = delivery[c] /\ (outcome[c] = "nil" \/ (Leave(c) /\ ~failed))
    <3>1. delivery' = delivery /\ outcome' = [outcome EXCEPT ![d] = IF failed THEN "error" ELSE "nil"]
      BY <2>3 DEF Leave
    <3>2. CASE d = c
      <4>1. Leave(c)
        BY <2>3, <3>2
      <4>2. ~failed
        BY <1>3, <3>1, <3>2 DEF AdapterTypeOK
      <4> QED
        BY <3>1, <4>1, <4>2
    <3>3. CASE d # c
      <4>1. outcome[c] = "nil"
        BY <1>3, <3>1, <3>3 DEF AdapterTypeOK
      <4> QED
        BY <3>1, <4>1
    <3> QED
      BY <3>2, <3>3
  <2>4. ASSUME EngineStep \/ UNCHANGED processorVars
        PROVE  delivery'[c] = delivery[c] /\ outcome[c] = "nil"
    <3>1. UNCHANGED adapter
      BY <2>4 DEF EngineStep, processorVars
    <3> QED
      BY <1>3, <3>1 DEF adapter
  <2> QED
    BY <2>1, <2>2, <2>3, <2>4, Zenon DEF ProcessorNext
<1>4. ASSUME NEW c \in Calls, outcome'[c] = "nil",
             NEW i \in DOMAIN delivery[c], NEW j \in DOMAIN delivery[c],
             KindOf(delivery[c][i]) \in KeepKinds, delivery[c][j].tid = delivery[c][i].tid
      PROVE  \E r \in Range(sinkLog') :
               /\ heap'[r].id = delivery[c][i].tid
               /\ delivery[c][j].sid \in SpanIDsOf(SpansOf(Emission(r)'))
  <2>1. PICK r \in Range(sinkLog) :
           /\ heap[r].id = delivery[c][i].tid
           /\ delivery[c][j].sid \in SpanIDsOf(SpansOf(Emission(r)))
    BY <1>3, <1>4, KeptAtTheEnd DEF NilMeansKeptWereEmitted
  <2>2. r \in Range(sinkLog') /\ heap'[r] = heap[r]
    BY <1>1, SinkKeeps DEF EngineFacts
  <2> QED
    BY <2>1, <2>2 DEF Emission
<1>5. NilMeansKeptWereEmitted'
  BY <1>3, <1>4 DEF NilMeansKeptWereEmitted
<1> QED
  BY <1>2, <1>5

-----------------------------------------------------------------------------
(* The theorems.                                                           *)

\* Along a behaviour of the processor.
LEMMA AlwaysOnItsWay ==
  ASSUME RepeatedWhole(Deliveries), Uncapped
  PROVE  ProcessorSpec => [](EngineFacts /\ AdapterTypeOK /\ Delivered /\ OnItsWay)
<1>1. ProcessorInv /\ NothingUnread /\ OnItsWay /\ [ProcessorNext]_processorVars
        => (ProcessorInv /\ NothingUnread /\ OnItsWay)'
  <2> SUFFICES ASSUME ProcessorInv, NothingUnread, OnItsWay, [ProcessorNext]_processorVars
               PROVE  ProcessorInv' /\ NothingUnread' /\ OnItsWay'
    OBVIOUS
  <2>1. ProcessorInv' /\ NothingUnread'
    BY ProcessorInvStep
  <2> QED
    BY <2>1, OnItsWayStep DEF ProcessorInv
<1>2. ProcessorInv => AdapterTypeOK /\ Delivered
  BY DEF ProcessorInv
<1>3. Spec => []EngineFacts
  BY EngineFactsHold DEF Uncapped
<1> QED
  BY <1>1, <1>2, <1>3, ProcessorInvInit, OnItsWayInit, ProcessorUsesEngine, PTL DEF ProcessorSpec

\* What consumerSink emits of a trace are the spans the engine buffered and
\* counted of it: whatever order the calls enter in, a snapshot stays with the
\* first new span of its trace, and a repetition that the engine de-duplicates
\* brings no snapshot (toEngineSpans, ingestSpan, fromEngineSpans).
THEOREM ForwardedWhole ==
  ASSUME RepeatedWhole(Deliveries), Uncapped
  PROVE  ProcessorSpec => []ForwardedAsCounted
<1>1. EngineFacts /\ OnItsWay => ForwardedAsCounted
  BY EmittedAsBuffered DEF EngineFacts, ForwardedAsCounted
<1> QED
  BY <1>1, AlwaysOnItsWay, PTL

\* When ConsumeTraces returns nil, every trace of the delivery with a span that
\* a policy keeps was emitted with all its spans of the delivery: what the call
\* ingested stays buffered until it is decided in the same call, and nil means
\* that no decision of the call was refused (no error span is lost, uncapped).
THEOREM NoKeptSpanIsLost ==
  ASSUME RepeatedWhole(Deliveries), Uncapped
  PROVE  ProcessorSpec => []NilMeansKeptWereEmitted
<1>1. ProcessorInit => Returned /\ NilMeansKeptWereEmitted
  BY DEF ProcessorInit, Returned, NilMeansKeptWereEmitted
<1>2. EngineFacts /\ AdapterTypeOK /\ Delivered /\ OnItsWay /\ Returned /\ NilMeansKeptWereEmitted
        /\ [ProcessorNext]_processorVars => Returned' /\ NilMeansKeptWereEmitted'
  BY NilStep
<1> QED
  BY <1>1, <1>2, AlwaysOnItsWay, PTL DEF ProcessorSpec

-----------------------------------------------------------------------------
(* Under the cap, from one receiver.                                       *)

\* A cap on the spans of a trace, and calls that come one after the other.
Capped == MaxSpansPerTrace > 0 /\ ~Overlapping

\* Of all calls one is active.
Active(c) == callPc[c] \in {"count", "in"}
OneActive == \A c, d \in Calls : Active(c) /\ Active(d) => c = d

\* The spans of every trace of an active call are those it counted and those
\* that it brought: nobody else adds any.
CountedRoom(c, r) ==
  /\ callPc[c] = "count" /\ heap[r].id \notin Range(unread[c])
       => Len(heap[r].spans) <= counts[c][heap[r].id]
  /\ callPc[c] = "in" /\ pc \in {"preExpire", "ingest"}
       => Len(heap[r].spans) <= counts[c][heap[r].id] + Brought(delivery[c], Done(c), heap[r].id)
RoomKept ==
  \A c \in Calls : Active(c) =>
    \A r \in Refs : Buffered(r) /\ (\E i \in DOMAIN delivery[c] : delivery[c][i].tid = heap[r].id)
      => CountedRoom(c, r)

\* The active call will ingest the span, which fits under the cap.
FitsToCome(id, sid) ==
  \E c \in Calls :
    /\ callPc[c] = "in"
    /\ \E i \in 1..Len(delivery[c]) :
         /\ i > Done(c) /\ delivery[c][i].tid = id /\ delivery[c][i].sid = sid
         /\ Fits(delivery[c], MaxSpansPerTrace, counts[c], i)

\* The active call brought the first of its spans of the trace.
Coming(r) == pc = "ingest" /\ Buffered(r) /\ Came(heap[r].id)

\* A trace carries spans it has or will have; and of a delivery of which it
\* carries any, it has or will have all, unless it is full.
CarriesWhatFits(r) ==
  LET id == heap[r].id
      u  == heap[r].spans
  IN /\ Packed(AllSources, u)
     /\ \A x \in CarriedBy(u) : x \in SpanIDsOf(u) \/ (Coming(r) /\ FitsToCome(id, x))
     /\ \A td \in Deliveries : GroupIDs(td, id) \cap CarriedBy(u) # {} =>
          \/ Full(u)
          \/ \A x \in GroupIDs(td, id) : x \in SpanIDsOf(u) \/ (Coming(r) /\ x \in ToCome(id))

\* The inductive invariant of the composition under the cap. Traces that were
\* dropped are left alone: MaxTraces may drop one whose spans are still coming.
CappedWay ==
  /\ CallInside /\ OneActive /\ RoomKept
  /\ \A r \in Refs : heap[r].decision # "NotSampled" => CarriesWhatFits(r)

-----------------------------------------------------------------------------
(* The steps that ingest nothing.                                          *)

\* No trace comes back into the buffer, and none is decided otherwise once it
\* was dropped.
LEMMA NoneComesBack ==
  ASSUME EngineInv, EngineInv', [Next]_vars, NEW r \in Refs
  PROVE  /\ r \in Refs' /\ Buffered(r)' => Buffered(r)
         /\ heap[r].decision = "NotSampled" => heap'[r].decision = "NotSampled"
<1>1. /\ Buffered(r) <=> r \in Range(order)
      /\ \A q \in Refs' : Buffered(q)' <=> q \in Range(order')
  BY DEF EngineInv, WellFormed, Buffered, Refs
<1>2. Keeps(r) => /\ (r \in Range(order') => r \in Range(order))
                  /\ (heap[r].decision = "NotSampled" => heap'[r].decision = "NotSampled")
  BY DEF Keeps
<1>3. CASE DecidesNothing
  BY <1>1, <1>2, <1>3 DEF DecidesNothing
<1>4. CASE \E q \in Refs : Drops(q) \/ Holds(q) \/ Forwards(q)
  BY <1>1, <1>2, <1>4 DEF Drops, Holds, Forwards, OthersKeep
<1>5. CASE \E q \in Refs' : Admits(q) \/ \E v \in Refs : Replaces(v, q)
  BY <1>1, <1>2, <1>5 DEF Admits, Replaces, Joins, OthersKeep
<1> QED
  BY <1>3, <1>4, <1>5, StepOutcomes DEF StepOutcome

\* A trace whose spans stay the same carries what fits, if what is to come is
\* still to come.
LEMMA StillFits ==
  ASSUME NEW r \in Refs, CarriesWhatFits(r), NEW id, id = heap[r].id,
         heap'[r].id = id, heap'[r].spans = heap[r].spans,
         Coming(r) => /\ \A x : FitsToCome(id, x) => Coming(r)' /\ FitsToCome(id, x)'
                      /\ \A x \in ToCome(id) : Coming(r)' /\ x \in ToCome(id)'
  PROVE  CarriesWhatFits(r)'
<1>1. PICK u : u = heap[r].spans
  OBVIOUS
<1>2. /\ Packed(AllSources, u)
      /\ \A x \in CarriedBy(u) : x \in SpanIDsOf(u) \/ (Coming(r) /\ FitsToCome(id, x))
      /\ \A td \in Deliveries : GroupIDs(td, id) \cap CarriedBy(u) # {} =>
           \/ Full(u)
           \/ \A x \in GroupIDs(td, id) : x \in SpanIDsOf(u) \/ (Coming(r) /\ x \in ToCome(id))
  BY <1>1 DEF CarriesWhatFits
<1>3. \A x \in CarriedBy(u) : x \in SpanIDsOf(u) \/ (Coming(r)' /\ FitsToCome(id, x)')
  BY <1>2
<1>4. \A td \in Deliveries : GroupIDs(td, id) \cap CarriedBy(u) # {} =>
        \/ Full(u)
        \/ \A x \in GroupIDs(td, id) : x \in SpanIDsOf(u) \/ (Coming(r)' /\ x \in ToCome(id)')
  BY <1>2
<1> QED
  BY <1>1, <1>2, <1>3, <1>4 DEF CarriesWhatFits

\* The traces and what is to come of them wait for the call to go on.
LEMMA TracesWait ==
  ASSUME EngineInv, EngineInv', [Next]_vars, CappedWay, SameTraces, SameCallsInside, SectionGoesOn
  PROVE  CallInside' /\ \A r \in Refs' : heap'[r].decision # "NotSampled" => CarriesWhatFits(r)'
<1>1. /\ CallInside' /\ \A c \in Calls : callPc[c] = "in" => Done(c)' = Done(c)
      /\ \A id : (Came(id)' <=> Came(id)) /\ ToCome(id)' = ToCome(id)
  BY CallGoesOn DEF CappedWay
<1>2. \A id, x : FitsToCome(id, x)' <=> FitsToCome(id, x)
  BY <1>1 DEF FitsToCome, SameCallsInside
<1>3. ASSUME NEW r \in Refs', heap'[r].decision # "NotSampled"
      PROVE  CarriesWhatFits(r)'
  <2>1. r \in Refs /\ heap'[r].id = heap[r].id /\ heap'[r].spans = heap[r].spans
    BY DEF SameTraces
  <2>2. CarriesWhatFits(r)
    BY <1>3, <2>1, NoneComesBack DEF CappedWay
  <2>3. PICK id : id = heap[r].id
    OBVIOUS
  <2>4. CASE ~Coming(r)
    BY <2>1, <2>2, <2>3, <2>4, StillFits
  <2>5. CASE Coming(r) /\ pc' = "ingest"
    <3>1. Coming(r)'
      BY <1>1, <2>1, <2>5 DEF Coming, Buffered, SectionGoesOn
    <3> QED
      BY <1>1, <1>2, <2>1, <2>2, <2>3, <3>1, StillFits
  <2>6. CASE Coming(r) /\ pc' # "ingest"
    <3>1. rest = <<>>
      BY <2>6 DEF Coming, SectionGoesOn
    <3>2. ToCome(id) = {}
      BY <3>1 DEF ToCome
    <3>3. \A x : ~FitsToCome(id, x)
      BY <3>1 DEF FitsToCome, Done
    <3> QED
      BY <2>1, <2>2, <2>3, <3>2, <3>3, StillFits
  <2> QED
    BY <2>4, <2>5, <2>6
<1> QED
  BY <1>1, <1>3

\* What the active call counted still holds, as nobody adds spans.
LEMMA RoomStays ==
  ASSUME EngineInv, EngineInv', [Next]_vars, CappedWay, SameTraces, SectionGoesOn, UNCHANGED adapter
  PROVE  OneActive' /\ RoomKept'
<1>1. UNCHANGED <<callPc, delivery, unread, counts>>
  BY DEF adapter
<1>2. OneActive'
  BY <1>1 DEF CappedWay, OneActive, Active
<1>3. ASSUME NEW c \in Calls, Active(c), NEW r \in Refs', Buffered(r)',
             NEW i \in DOMAIN delivery[c], delivery[c][i].tid = heap'[r].id
      PROVE  CountedRoom(c, r)'
  <2>1. /\ r \in Refs /\ Buffered(r) /\ heap'[r].id = heap[r].id
        /\ heap'[r].spans = heap[r].spans
    BY <1>3, NoneComesBack DEF SameTraces
  <2>2. CountedRoom(c, r)
    BY <1>3, <2>1 DEF CappedWay, RoomKept
  <2>3. Done(c)' = Done(c)
    BY <1>1 DEF SectionGoesOn, Done
  <2>4. pc' \in {"preExpire", "ingest"} => pc \in {"preExpire", "ingest"}
    BY DEF SectionGoesOn
  <2> QED
    BY <1>1, <2>1, <2>2, <2>3, <2>4 DEF CountedRoom
<1> QED
  BY <1>1, <1>2, <1>3 DEF RoomKept, Active

-----------------------------------------------------------------------------
(* The steps of the calls.                                                 *)

\* A span count is a number.
LEMMA SpansCount ==
  ASSUME EngineInv, NEW r \in Refs
  PROVE  heap[r].spans \in Seq(Spans) /\ Len(heap[r].spans) \in Nat /\ heap[r].id \in TraceIDs
  BY HeapElements, LenProperties DEF EngineInv, WellFormed, Refs, Traces

\* A call that arrives has read no count yet.
LEMMA ReceiveRoom ==
  ASSUME Capped, AdapterTypeOK, NEW c \in Calls, Receive(c)
  PROVE  OneActive' /\ RoomKept'
<1>1. PICK td \in Deliveries :
        delivery' = [delivery EXCEPT ![c] = td] /\ unread' = [unread EXCEPT ![c] = UniqueTraceIDs(td)]
  BY DEF Receive, Capped
<1>2. callPc' = [callPc EXCEPT ![c] = "count"] /\ \A d \in Calls : ~Active(d)
  BY DEF Receive, Capped, Idle, Active
<1>3. \A d \in Calls : Active(d)' => d = c
  BY <1>2 DEF AdapterTypeOK, Active
<1>4. callPc'[c] = "count" /\ delivery'[c] = td /\ unread'[c] = UniqueTraceIDs(td)
  BY <1>1, <1>2 DEF AdapterTypeOK
<1>5. \A i \in DOMAIN td : td[i].tid \in Range(UniqueTraceIDs(td))
  BY DeliveryIsSequence
<1>6. RoomKept'
  BY <1>3, <1>4, <1>5 DEF RoomKept, CountedRoom
<1> QED
  BY <1>3, <1>6 DEF OneActive

\* A call that reads a count reads that of the buffered trace.
LEMMA ReadRoom ==
  ASSUME EngineInv, AdapterTypeOK, CappedWay, NEW c \in Calls, ReadCount(c)
  PROVE  OneActive' /\ RoomKept'
<1>1. PICK h, n : h = Head(unread[c]) /\ n = BufferedSpanCount(h)
  OBVIOUS
<1>2. /\ callPc[c] = "count" /\ callPc' = callPc /\ delivery' = delivery /\ UNCHANGED vars
      /\ counts' = [counts EXCEPT ![c][h] = n] /\ unread' = [unread EXCEPT ![c] = Tail(unread[c])]
      /\ unread[c] # <<>>
  BY <1>1 DEF ReadCount
<1>3. \A d \in Calls : Active(d)' => d = c
  BY <1>2 DEF CappedWay, OneActive, Active
<1>4. unread[c] \in Seq(TraceIDs) /\ counts[c] \in [TraceIDs -> 0..MaxSpansPerTrace]
  BY DEF AdapterTypeOK
<1>5. /\ h \in TraceIDs
      /\ \A id : id \in Range(unread[c]) => id = h \/ id \in Range(Tail(unread[c]))
  <2>1. /\ h = unread[c][1] /\ Len(unread[c]) \in Nat /\ DOMAIN unread[c] = 1..Len(unread[c])
        /\ Tail(unread[c]) \in Seq(TraceIDs) /\ Len(Tail(unread[c])) = Len(unread[c]) - 1
        /\ \A j \in 1..Len(Tail(unread[c])) : Tail(unread[c])[j] = unread[c][j + 1]
    BY <1>1, <1>2, <1>4, HeadTailProperties, LenProperties
  <2>2. DOMAIN Tail(unread[c]) = 1..Len(Tail(unread[c]))
    BY <2>1, LenProperties
  <2>3. ASSUME NEW j \in DOMAIN unread[c]
        PROVE  unread[c][j] = h \/ unread[c][j] \in Range(Tail(unread[c]))
    <3>1. CASE j = 1
      BY <2>1, <3>1
    <3>2. CASE j # 1
      <4>1. j - 1 \in 1..Len(Tail(unread[c])) /\ (j - 1) + 1 = j
        BY <2>1, <2>3, <3>2
      <4>2. Tail(unread[c])[j - 1] = unread[c][j]
        BY <2>1, <4>1
      <4> QED
        BY <2>2, <4>1, <4>2 DEF Range
    <3> QED
      BY <3>1, <3>2
  <2>4. h \in TraceIDs
    BY <1>1, <1>2, <1>4, UnreadIDs
  <2> QED
    BY <2>3, <2>4 DEF Range
<1>6. /\ unread'[c] = Tail(unread[c]) /\ counts'[c][h] = n
      /\ \A id \in TraceIDs : id # h => counts'[c][id] = counts[c][id]
  BY <1>2, <1>4, <1>5 DEF AdapterTypeOK
<1>7. ASSUME NEW r \in Refs', Buffered(r)',
             NEW i \in DOMAIN delivery[c], delivery[c][i].tid = heap'[r].id
      PROVE  CountedRoom(c, r)'
  <2>1. /\ r \in Refs /\ Buffered(r) /\ heap' = heap /\ delivery[c][i].tid = heap[r].id
        /\ heap[r].id \in TraceIDs /\ Len(heap[r].spans) \in Nat
    <3>1. heap' = heap /\ index' = index
      BY <1>2 DEF vars, buffer
    <3>2. r \in Refs /\ Buffered(r) /\ delivery[c][i].tid = heap[r].id
      BY <1>7, <3>1 DEF Refs, Buffered
    <3> QED
      BY <3>1, <3>2, SpansCount
  <2>2. CountedRoom(c, r)
    BY <1>2, <2>1 DEF CappedWay, RoomKept, Active
  <2>3. CASE heap[r].id = h
    <3>1. n = Len(heap[r].spans)
      BY <1>1, <2>1, <2>3, BufferedInOrder DEF BufferedSpanCount, Buffered, Nil
    <3> QED
      BY <1>2, <1>6, <2>1, <2>3, <3>1 DEF CountedRoom
  <2>4. CASE heap[r].id # h
    BY <1>2, <1>5, <1>6, <2>1, <2>2, <2>4 DEF CountedRoom
  <2> QED
    BY <2>3, <2>4
<1> QED
  BY <1>2, <1>3, <1>7 DEF OneActive, RoomKept

\* A call that enters has read the counts of all its traces.
LEMMA EnterRoom ==
  ASSUME RepeatedWhole(Deliveries), EngineInv, EngineInv', AdapterTypeOK, Delivered, CappedWay,
         NEW c \in Calls, Enter(c)
  PROVE  CappedWay'
<1>1. /\ CallInside' /\ Done(c)' = 0 /\ pc = "free" /\ pc' = "preExpire"
      /\ heap' = heap /\ index' = index
      /\ callPc[c] = "count" /\ callPc' = [callPc EXCEPT ![c] = "in"] /\ unread[c] = <<>>
      /\ delivery' = delivery /\ counts' = counts
  BY EnterCall DEF CappedWay, Enter
<1>2. callPc'[c] = "in" /\ \A d \in Calls : Active(d)' => d = c
  BY <1>1 DEF AdapterTypeOK, CappedWay, OneActive, Active
<1>3. ASSUME NEW r \in Refs', Buffered(r)',
             NEW i \in DOMAIN delivery[c], delivery[c][i].tid = heap'[r].id
      PROVE  CountedRoom(c, r)'
  <2>1. r \in Refs /\ Buffered(r) /\ delivery[c][i].tid = heap[r].id
    BY <1>1, <1>3 DEF Refs, Buffered
  <2>2. Range(unread[c]) = {}
    BY <1>1 DEF Range
  <2>3. Len(heap[r].spans) <= counts[c][heap[r].id]
    BY <1>1, <2>1, <2>2 DEF CappedWay, RoomKept, Active, CountedRoom
  <2>4. PICK td, id : td = delivery[c] /\ id = heap[r].id
    OBVIOUS
  <2>5. Brought(td, 0, id) = 0
    BY BroughtGrows
  <2>6. counts[c][id] \in Nat /\ id \in TraceIDs
    BY <2>1, <2>4, SpansCount, CapsAssumption DEF AdapterTypeOK
  <2>7. Brought(delivery'[c], Done(c)', heap'[r].id) = 0
    BY <1>1, <2>4, <2>5
  <2>8. Len(heap'[r].spans) <= counts'[c][heap'[r].id] + Brought(delivery'[c], Done(c)', heap'[r].id)
    BY <1>1, <2>3, <2>4, <2>6, <2>7
  <2> QED
    BY <1>2, <2>8 DEF CountedRoom
<1>4. RoomKept' /\ OneActive'
  BY <1>1, <1>2, <1>3 DEF RoomKept, OneActive
<1>5. ASSUME NEW r \in Refs', heap'[r].decision # "NotSampled"
      PROVE  CarriesWhatFits(r)'
  <2>1. r \in Refs /\ CarriesWhatFits(r) /\ ~Coming(r)
    BY <1>1, <1>5 DEF CappedWay, Refs, Coming
  <2> QED
    BY <1>1, <2>1, StillFits
<1> QED
  BY <1>1, <1>4, <1>5 DEF CappedWay

\* A call that leaves was the only one.
LEMMA LeaveRoom ==
  ASSUME AdapterTypeOK, CappedWay, NEW c \in Calls, Leave(c)
  PROVE  CappedWay'
<1>1. /\ CallInside' /\ pc = "postExpire" /\ heap' = heap
      /\ callPc[c] = "in" /\ callPc' = [callPc EXCEPT ![c] = "done"]
  BY LeaveCall DEF CappedWay, Leave
<1>2. \A d \in Calls : ~Active(d)'
  BY <1>1 DEF AdapterTypeOK, CappedWay, OneActive, Active
<1>3. RoomKept' /\ OneActive'
  BY <1>2 DEF RoomKept, OneActive
<1>4. ASSUME NEW r \in Refs', heap'[r].decision # "NotSampled"
      PROVE  CarriesWhatFits(r)'
  <2>1. r \in Refs /\ CarriesWhatFits(r) /\ ~Coming(r)
    BY <1>1, <1>4 DEF CappedWay, Refs, Coming
  <2> QED
    BY <1>1, <2>1, StillFits
<1> QED
  BY <1>1, <1>3, <1>4 DEF CappedWay

-----------------------------------------------------------------------------
(* A span is ingested under the cap.                                       *)

\* What is to come of the call but for the span it ingests.
LEMMA FitsStillToCome ==
  ASSUME NEW c, NEW td, NEW k, NEW s, Ingesting(c, td, k, s)
  PROVE  /\ \A id, x : FitsToCome(id, x)
              => \/ FitsToCome(id, x)'
                 \/ id = s.tid /\ x = s.sid /\ Fits(td, MaxSpansPerTrace, counts[c], k)
         /\ \A i \in 1..Len(td) : i > k /\ Fits(td, MaxSpansPerTrace, counts[c], i)
              => FitsToCome(td[i].tid, td[i].sid)'
<1>1. /\ c \in Calls /\ \A e \in Calls : (callPc[e] = "in" <=> e = c) /\ (callPc'[e] = "in" <=> e = c)
      /\ delivery[c] = td /\ delivery'[c] = td /\ counts'[c] = counts[c]
      /\ Done(c) = k - 1 /\ Done(c)' = k /\ k \in 1..Len(td) /\ Len(td) \in Nat
      /\ s.tid = td[k].tid /\ s.sid = td[k].sid
  BY DEF Ingesting, EngineSpanOf
<1>2. ASSUME NEW i \in 1..Len(td), i > k, Fits(td, MaxSpansPerTrace, counts[c], i),
             NEW id, NEW x, td[i].tid = id, td[i].sid = x
      PROVE  FitsToCome(id, x)'
  BY <1>1, <1>2 DEF FitsToCome
<1>3. ASSUME NEW id, NEW x, FitsToCome(id, x)
      PROVE  \/ FitsToCome(id, x)'
             \/ id = s.tid /\ x = s.sid /\ Fits(td, MaxSpansPerTrace, counts[c], k)
  <2>1. PICK i \in 1..Len(td) : /\ i > k - 1 /\ td[i].tid = id /\ td[i].sid = x
                                /\ Fits(td, MaxSpansPerTrace, counts[c], i)
    BY <1>1, <1>3 DEF FitsToCome
  <2>2. i = k \/ i > k
    BY <1>1, <2>1
  <2> QED
    BY <1>1, <1>2, <2>1, <2>2
<1>4. ASSUME NEW i \in 1..Len(td), i > k, Fits(td, MaxSpansPerTrace, counts[c], i)
      PROVE  FitsToCome(td[i].tid, td[i].sid)'
  <2>1. PICK id, x : id = td[i].tid /\ x = td[i].sid
    OBVIOUS
  <2>2. FitsToCome(id, x)'
    BY <1>2, <1>4, <2>1
  <2>3. td' = td /\ i' = i
    OBVIOUS
  <2> QED
    BY <2>1, <2>2, <2>3
<1> QED
  BY <1>3, <1>4

\* The call did not copy a span for a trace that is full: it counted the spans
\* of the trace, and only the call itself added any since.
LEMMA FullFitsNothing ==
  ASSUME Capped, EngineInv, AdapterTypeOK, CappedWay,
         NEW c, NEW td, NEW k, NEW s, Ingesting(c, td, k, s),
         NEW r \in Refs, Buffered(r), heap[r].id = s.tid, Full(heap[r].spans)
  PROVE  ~Fits(td, MaxSpansPerTrace, counts[c], k)
<1>1. /\ c \in Calls /\ callPc[c] = "in" /\ pc = "ingest" /\ delivery[c] = td /\ Done(c) = k - 1
      /\ td \in Deliveries /\ Len(td) \in Nat /\ k \in 1..Len(td) /\ s.tid = td[k].tid
  BY DEF Ingesting, EngineSpanOf
<1>2. k \in DOMAIN delivery[c] /\ delivery[c][k].tid = heap[r].id
  BY <1>1, DeliveryIsSequence
<1>3. CountedRoom(c, r)
  BY <1>1, <1>2 DEF CappedWay, RoomKept, Active
<1>4. PICK id, b, h, n : /\ id = s.tid /\ b = Brought(td, k - 1, id)
                         /\ h = counts[c][id] /\ n = Len(heap[r].spans)
  OBVIOUS
<1>5. n <= h + b
  BY <1>1, <1>3, <1>4 DEF CountedRoom
<1>6. n >= MaxSpansPerTrace /\ MaxSpansPerTrace > 0 /\ MaxSpansPerTrace \in Nat /\ n \in Nat
  BY <1>4, SpansCount, CapsAssumption DEF Full
<1>7. h \in Nat /\ b \in Nat
  <2>1. k - 1 \in Nat
    BY <1>1
  <2>2. b \in Nat
    BY <1>4, <2>1, BroughtGrows
  <2>3. id \in TraceIDs
    BY <1>4, SpansCount
  <2> QED
    BY <1>1, <1>4, <2>2, <2>3, CapsAssumption DEF AdapterTypeOK
<1>8. Fits(td, MaxSpansPerTrace, counts[c], k) <=> InCap(MaxSpansPerTrace, h, b)
  BY <1>1, <1>4 DEF Fits
<1> QED
  BY <1>5, <1>6, <1>7, <1>8 DEF InCap

\* The traces of the others wait.
LEMMA OthersWait ==
  ASSUME CappedWay, NEW c, NEW td, NEW k, NEW s, Ingesting(c, td, k, s),
         NEW q \in Refs, Buffered(q) => heap[q].id # s.tid,
         heap'[q] = heap[q], Buffered(q)' <=> Buffered(q), heap'[q].decision # "NotSampled"
  PROVE  CarriesWhatFits(q)'
<1>1. PICK id : id = heap[q].id
  OBVIOUS
<1>2. CarriesWhatFits(q)
  BY DEF CappedWay
<1>3. CASE ~Coming(q)
  BY <1>1, <1>2, <1>3, StillFits
<1>4. CASE Coming(q)
  <2>1. id # s.tid /\ Came(id) /\ pc' = "ingest" /\ Buffered(q)'
    BY <1>1, <1>4 DEF Coming, Ingesting
  <2>2. Came(id)'
    BY <2>1 DEF Ingesting
  <2>3. Coming(q)'
    BY <1>1, <2>1, <2>2 DEF Coming
  <2>4. \A x : FitsToCome(id, x) => FitsToCome(id, x)'
    BY <2>1, FitsStillToCome
  <2>5. ToCome(id) \subseteq ToCome(id)'
    BY <2>1 DEF Ingesting
  <2> QED
    BY <1>1, <1>2, <2>3, <2>4, <2>5, StillFits
<1> QED
  BY <1>3, <1>4

\* The trace that takes the span, or is full or has it, carries what fits.
LEMMA TakenFits ==
  ASSUME RepeatedWhole(Deliveries), Capped, EngineInv, AdapterTypeOK, CappedWay,
         NEW c, NEW td, NEW k, NEW s, Ingesting(c, td, k, s),
         NEW r, NEW u \in Seq(Spans), Takes(r, s, u), heap'[r].decision # "NotSampled"
  PROVE  CarriesWhatFits(r)'
<1>1. PICK id, v : id = s.tid /\ v = heap'[r].spans
  OBVIOUS
<1>2. /\ td \in Deliveries /\ Len(td) \in Nat /\ k \in 1..Len(td) /\ id = td[k].tid /\ s.sid = td[k].sid
      /\ s \in Spans /\ s.raw \in Snapshots(AllSources) /\ Apart(AllSources, s.raw)
      /\ BlockIDs(s.raw) = IF FirstOfTrace(td, k)
                           THEN FittingIDs(td, MaxSpansPerTrace, counts[c], Len(td), id) ELSE {}
  BY <1>1 DEF Ingesting, EngineSpanOf
<1>3. Coming(r)' /\ heap'[r].id = id
  <2>1. Came(id)' /\ pc' = "ingest" /\ Buffered(r)' /\ heap'[r].id = id
    BY <1>1, <1>2 DEF Ingesting, Takes
  <2> QED
    BY <2>1 DEF Coming
<1>4. /\ Packed(AllSources, u)
      /\ \A x \in CarriedBy(u) : x \in SpanIDsOf(u) \/ (Came(id) /\ FitsToCome(id, x))
      /\ \A ud \in Deliveries : GroupIDs(ud, id) \cap CarriedBy(u) # {} =>
           \/ Full(u)
           \/ \A x \in GroupIDs(ud, id) : x \in SpanIDsOf(u) \/ (Came(id) /\ x \in ToCome(id))
      /\ Full(u) => ~Fits(td, MaxSpansPerTrace, counts[c], k)
  <2>1. CASE r \in Refs
    <3>1. /\ Buffered(r) /\ heap[r].id = id /\ u = heap[r].spans
          /\ heap[r].decision # "NotSampled"
      BY <1>1, <2>1 DEF Takes
    <3>2. CarriesWhatFits(r)
      BY <2>1, <3>1 DEF CappedWay
    <3>3. Full(u) => ~Fits(td, MaxSpansPerTrace, counts[c], k)
      BY <1>1, <2>1, <3>1, FullFitsNothing
    <3> QED
      BY <3>1, <3>2, <3>3 DEF CarriesWhatFits, Coming
  <2>2. CASE r \notin Refs
    <3>1. u = <<>>
      BY <2>2 DEF Takes
    <3>2. CarriedBy(u) = {} /\ Packed(AllSources, u)
      BY <3>1, NothingCarried DEF WellCarried
    <3>3. ~Full(u)
      BY <3>1, CapsAssumption DEF Full
    <3> QED
      BY <3>2, <3>3
  <2> QED
    BY <2>1, <2>2
<1>5. \A x : FitsToCome(id, x) => \/ FitsToCome(id, x)'
                                  \/ x = s.sid /\ Fits(td, MaxSpansPerTrace, counts[c], k)
  BY FitsStillToCome
<1>6. \A x : x \in ToCome(id) => x = s.sid \/ x \in ToCome(id)'
  BY <1>1 DEF Ingesting
<1>7. SUFFICES /\ Packed(AllSources, v)
               /\ \A x \in CarriedBy(v) : x \in SpanIDsOf(v) \/ FitsToCome(id, x)'
               /\ \A ud \in Deliveries : GroupIDs(ud, id) \cap CarriedBy(v) # {} =>
                    Full(v) \/ \A x \in GroupIDs(ud, id) : x \in SpanIDsOf(v) \/ x \in ToCome(id)'
  BY <1>1, <1>3 DEF CarriesWhatFits
<1>8. CASE Full(u)
  <2>1. v = u
    BY <1>1, <1>8 DEF Takes
  <2> QED
    BY <1>4, <1>5, <1>8, <2>1
<1>9. CASE ~Full(u) /\ s.sid \in SpanIDsOf(u)
  <2>1. v = u
    BY <1>1, <1>9 DEF Takes
  <2> QED
    BY <1>4, <1>5, <1>6, <1>9, <2>1
<1>10. CASE ~Full(u) /\ s.sid \notin SpanIDsOf(u)
  <2>1. v = Append(u, s)
    BY <1>1, <1>10 DEF Takes
  <2>2. ASSUME BlockIDs(s.raw) \cap CarriedBy(u) = {}
        PROVE  /\ Packed(AllSources, v) /\ CarriedBy(v) = CarriedBy(u) \cup BlockIDs(s.raw)
               /\ SpanIDsOf(v) = SpanIDsOf(u) \cup {s.sid}
    BY <1>2, <1>4, <2>1, <2>2, PackedGrows
  <2>3. CASE FirstOfTrace(td, k)
    <3>1. ~Came(id)
      BY <1>1, <1>2, <2>3 DEF Ingesting, FirstOfTrace
    <3>2. /\ s.sid \in GroupIDs(td, id)
          /\ \A ud \in Deliveries : GroupIDs(ud, id) \cap GroupIDs(td, id) # {}
                                      => GroupIDs(ud, id) = GroupIDs(td, id)
      BY <1>2, Groups
    <3>3. BlockIDs(s.raw) \subseteq GroupIDs(td, id)
      BY <1>2 DEF FittingIDs, GroupIDs, IDsUpTo
    <3>4. BlockIDs(s.raw) \cap CarriedBy(u) = {}
      BY <1>2, <1>4, <1>10, <3>1, <3>2, <3>3
    <3>5. \A i \in 1..Len(td) : td[i].tid = id => i = k \/ i > k
      BY <1>2, <2>3 DEF FirstOfTrace
    <3>6. ASSUME NEW x \in BlockIDs(s.raw) PROVE x \in SpanIDsOf(v) \/ FitsToCome(id, x)'
      <4>1. PICK i \in 1..Len(td) :
              td[i].tid = id /\ td[i].sid = x /\ Fits(td, MaxSpansPerTrace, counts[c], i)
        BY <1>2, <3>6 DEF FittingIDs
      <4>2. CASE i = k
        BY <1>2, <2>2, <3>4, <4>1, <4>2
      <4>3. CASE i > k
        <5>1. \A j \in 1..Len(td) : j > k /\ Fits(td, MaxSpansPerTrace, counts[c], j)
                => FitsToCome(td[j].tid, td[j].sid)'
          BY FitsStillToCome
        <5>2. FitsToCome(td[i].tid, td[i].sid)'
          BY <4>1, <4>3, <5>1
        <5> QED
          BY <4>1, <5>2
      <4> QED
        BY <3>5, <4>1, <4>2, <4>3
    <3>7. ASSUME NEW x \in GroupIDs(td, id) PROVE x = s.sid \/ x \in ToCome(id)'
      <4>1. PICK i \in 1..Len(td) : td[i].tid = id /\ td[i].sid = x
        BY <3>7 DEF GroupIDs, IDsUpTo
      <4>2. CASE i = k
        BY <1>2, <4>1, <4>2
      <4>3. CASE i > k
        BY <4>1, <4>3 DEF Ingesting
      <4> QED
        BY <3>5, <4>1, <4>2, <4>3
    <3> QED
      BY <1>4, <1>10, <2>2, <3>1, <3>2, <3>3, <3>4, <3>6, <3>7
  <2>4. CASE ~FirstOfTrace(td, k)
    <3>1. BlockIDs(s.raw) = {}
      BY <1>2, <2>4
    <3> QED
      BY <1>4, <1>5, <1>6, <1>10, <2>2, <3>1
  <2> QED
    BY <2>3, <2>4
<1> QED
  BY <1>8, <1>9, <1>10

\* And it has no more spans than the call counted and brought.
LEMMA TakenRoom ==
  ASSUME EngineInv, AdapterTypeOK, CappedWay,
         NEW c, NEW td, NEW k, NEW s, Ingesting(c, td, k, s),
         NEW r, NEW u \in Seq(Spans), Takes(r, s, u)
  PROVE  Len(heap'[r].spans) <= counts[c][s.tid] + Brought(td, k, s.tid)
<1>1. /\ c \in Calls /\ callPc[c] = "in" /\ pc = "ingest" /\ delivery[c] = td /\ Done(c) = k - 1
      /\ td \in Deliveries /\ Len(td) \in Nat /\ k \in 1..Len(td) /\ s.tid = td[k].tid /\ s \in Spans
  BY DEF Ingesting, EngineSpanOf
<1>2. k \in DOMAIN delivery[c] /\ delivery[c][k].tid = s.tid /\ s.tid \in TraceIDs
  BY <1>1, DeliveryIsSequence
<1>3. PICK id, a, b, h, n : /\ id = s.tid /\ b = Brought(td, k - 1, id) /\ a = Brought(td, k, id)
                            /\ h = counts[c][id] /\ n = Len(u)
  OBVIOUS
<1>4. b \in Nat /\ a = b + 1
  <2>1. k - 1 \in Nat /\ (k - 1) + 1 = k
    BY <1>1
  <2> QED
    BY <1>1, <1>3, <2>1, BroughtGrows
<1>5. h \in Nat /\ n \in Nat
  BY <1>1, <1>2, <1>3, LenProperties, CapsAssumption DEF AdapterTypeOK
<1>6. n <= h + b
  <2>1. CASE r \in Refs
    <3>1. Buffered(r) /\ heap[r].id = id /\ u = heap[r].spans
      BY <1>3, <2>1 DEF Takes
    <3>2. CountedRoom(c, r)
      BY <1>1, <1>2, <1>3, <2>1, <3>1 DEF CappedWay, RoomKept, Active
    <3> QED
      BY <1>1, <1>3, <3>1, <3>2 DEF CountedRoom
  <2>2. CASE r \notin Refs
    <3>1. u = <<>>
      BY <2>2 DEF Takes
    <3>2. n = 0
      BY <1>3, <3>1
    <3> QED
      BY <1>4, <1>5, <3>2
  <2> QED
    BY <2>1, <2>2
<1>7. Len(heap'[r].spans) \in {n, n + 1}
  BY <1>1, <1>3, AppendProperties DEF Takes
<1>8. Len(heap'[r].spans) <= h + a
  BY <1>4, <1>5, <1>6, <1>7
<1> QED
  BY <1>3, <1>8

\* When ingestSpan takes the next span of the call.
LEMMA IngestUnderCap ==
  ASSUME RepeatedWhole(Deliveries), Capped, EngineInv, AdapterTypeOK, Delivered, CappedWay,
         IngestSpan, UNCHANGED adapter
  PROVE  CappedWay'
<1>1. SameCallsInside /\ UNCHANGED <<callPc, delivery, unread, counts>>
  BY DEF adapter, SameCallsInside
<1>2. CallInside' /\ \E c, td, k, s : Ingesting(c, td, k, s)
  BY <1>1, CallIngests DEF CappedWay
<1>3. PICK c, td, k, s : Ingesting(c, td, k, s)
  BY <1>2
<1>4. /\ c \in Calls /\ callPc[c] = "in" /\ pc = "ingest" /\ pc' = pc /\ delivery[c] = td
      /\ td \in Deliveries /\ Len(td) \in Nat /\ k \in 1..Len(td) /\ Done(c) = k - 1 /\ Done(c)' = k
      /\ s = Head(rest) /\ s.tid = td[k].tid /\ s.sid = td[k].sid /\ s \in Spans
  BY <1>3 DEF Ingesting, EngineSpanOf
<1>5. s.sid # NoSpanID
  <2>1. td \in Deliveries /\ k \in 1..Len(td)
    BY <1>4
  <2>2. td[k].sid # NoSpanID
    BY <2>1, Groups, Zenon
  <2> QED
    BY <1>4, <2>2
<1>6. \A d \in Calls : Active(d) => d = c
  BY <1>4 DEF CappedWay, OneActive, Active
<1>7. OneActive'
  BY <1>1, <1>6 DEF OneActive, Active
<1>8. Loses(s) \/ \E r, u : u \in Seq(Spans) /\ Takes(r, s, u)
  BY <1>4, <1>5, SpanTaken
<1>9. ASSUME NEW q \in Refs, Buffered(q) => heap[q].id # s.tid, heap'[q] = heap[q],
             Buffered(q)' <=> Buffered(q), Buffered(q),
             NEW i \in DOMAIN td, td[i].tid = heap[q].id
      PROVE  CountedRoom(c, q)'
  <2>1. CountedRoom(c, q)
    BY <1>4, <1>9 DEF CappedWay, RoomKept, Active
  <2>2. PICK id : id = heap[q].id
    OBVIOUS
  <2>3. Brought(td, k, id) = Brought(td, k - 1, id)
    <3>1. k - 1 \in Nat /\ (k - 1) + 1 = k /\ td[k].tid # id
      BY <1>4, <1>9, <2>2
    <3> QED
      BY <3>1, BroughtGrows
  <2>4. Len(heap[q].spans) <= counts[c][id] + Brought(td, k - 1, id)
    BY <1>4, <2>1, <2>2 DEF CountedRoom
  <2> QED
    BY <1>1, <1>4, <1>9, <2>2, <2>3, <2>4 DEF CountedRoom
<1>10. CASE Loses(s)
  <2>1. heap' = heap /\ index' = index /\ Refs' = Refs /\ \A q \in Refs : Buffered(q)' <=> Buffered(q)
    BY <1>10 DEF Loses, Refs, Buffered
  <2>2. \A q \in Refs : Buffered(q) => heap[q].id # s.tid
    BY <1>10, BufferedInOrder DEF Loses, Buffered, Nil
  <2>3. RoomKept'
    BY <1>1, <1>4, <1>6, <1>9, <2>1, <2>2 DEF RoomKept, Active
  <2>4. \A q \in Refs' : heap'[q].decision # "NotSampled" => CarriesWhatFits(q)'
    BY <1>3, <2>1, <2>2, OthersWait
  <2> QED
    BY <1>2, <1>7, <2>3, <2>4 DEF CappedWay
<1>11. CASE \E r, u : u \in Seq(Spans) /\ Takes(r, s, u)
  <2>1. PICK r, u : u \in Seq(Spans) /\ Takes(r, s, u)
    BY <1>11
  <2>2. /\ Refs' = Refs \cup {r} /\ heap'[r].id = s.tid
        /\ \A q \in Refs : q # r =>
             /\ Buffered(q) => heap[q].id # s.tid
             /\ \/ heap'[q] = heap[q] /\ (Buffered(q)' <=> Buffered(q))
                \/ Evicted(q)
    BY <2>1 DEF Takes
  <2>3. ASSUME NEW q \in Refs', Buffered(q)', NEW i \in DOMAIN td, td[i].tid = heap'[q].id
        PROVE  CountedRoom(c, q)'
    <3>1. CASE q = r
      <4>1. Len(heap'[r].spans) <= counts[c][s.tid] + Brought(td, k, s.tid)
        BY <1>3, <2>1, TakenRoom
      <4> QED
        BY <1>1, <1>4, <2>2, <3>1, <4>1 DEF CountedRoom
    <3>2. CASE q # r
      BY <1>9, <2>2, <2>3, <3>2 DEF Evicted
    <3> QED
      BY <3>1, <3>2
  <2>4. RoomKept'
    BY <1>1, <1>4, <1>6, <2>3 DEF RoomKept, Active
  <2>5. ASSUME NEW q \in Refs', heap'[q].decision # "NotSampled"
        PROVE  CarriesWhatFits(q)'
    <3>1. CASE q = r
      BY <1>3, <2>1, <2>5, <3>1, TakenFits
    <3>2. CASE q # r
      BY <1>3, <2>2, <2>5, <3>2, OthersWait DEF Evicted
    <3> QED
      BY <3>1, <3>2
  <2> QED
    BY <1>2, <1>7, <2>4, <2>5 DEF CappedWay
<1> QED
  BY <1>8, <1>10, <1>11

-----------------------------------------------------------------------------
(* What leaves under the cap.                                              *)

\* At the start there is no trace and no call.
LEMMA CappedWayInit == ProcessorInit => CappedWay
<1> SUFFICES ASSUME ProcessorInit PROVE CappedWay
  OBVIOUS
<1>1. pc = "free" /\ Refs = {} /\ \A c \in Calls : callPc[c] = "new"
  BY DEF ProcessorInit, Init, Refs
<1> QED
  BY <1>1 DEF CappedWay, CallInside, OneInside, RestOfCall, InConsume, OneActive, Active, RoomKept

\* Every step of the processor.
LEMMA CappedWayStep ==
  ASSUME RepeatedWhole(Deliveries), Capped, ProcessorInv, EngineInv', CappedWay,
         [ProcessorNext]_processorVars
  PROVE  CappedWay'
<1>1. EngineInv /\ AdapterTypeOK /\ Delivered /\ [Next]_vars
  BY EngineSeesAStep DEF ProcessorInv
<1>2. ASSUME NEW c \in Calls, Receive(c) \/ ReadCount(c) PROVE CappedWay'
  <2>1. UNCHANGED vars
    BY <1>2 DEF Receive, ReadCount, vars
  <2>2. SameTraces /\ SectionGoesOn
    <3>1. SectionGoesOn
      BY <2>1 DEF SectionGoesOn, vars, buffer, batchVars, sectionVars
    <3> QED
      BY <2>1, <3>1 DEF SameTraces, Refs, vars, buffer
  <2>3. SameCallsInside
    BY <1>1, <1>2 DEF Receive, ReadCount, SameCallsInside, AdapterTypeOK
  <2>4. CallInside' /\ \A r \in Refs' : heap'[r].decision # "NotSampled" => CarriesWhatFits(r)'
    BY <1>1, <2>2, <2>3, TracesWait
  <2>5. OneActive' /\ RoomKept'
    BY <1>1, <1>2, ReceiveRoom, ReadRoom
  <2> QED
    BY <2>4, <2>5 DEF CappedWay
<1>3. ASSUME NEW c \in Calls, Enter(c) PROVE CappedWay'
  BY <1>1, <1>3, EnterRoom
<1>4. ASSUME NEW c \in Calls, Leave(c) PROVE CappedWay'
  BY <1>1, <1>4, LeaveRoom
<1>5. CASE EngineStep \/ UNCHANGED processorVars
  <2>1. UNCHANGED adapter
    BY <1>5 DEF EngineStep, processorVars
  <2>2. CASE IngestSpan
    BY <1>1, <2>1, <2>2, IngestUnderCap
  <2>3. CASE ~IngestSpan
    <3>1. SectionGoesOn
      BY <1>5, <2>3, EngineGoesOn DEF processorVars
    <3>2. SameTraces
      BY <1>1, <2>3, NothingIngested
    <3>3. SameCallsInside
      BY <2>1 DEF SameCallsInside, adapter
    <3>4. CallInside' /\ \A r \in Refs' : heap'[r].decision # "NotSampled" => CarriesWhatFits(r)'
      BY <1>1, <3>1, <3>2, <3>3, TracesWait
    <3>5. OneActive' /\ RoomKept'
      BY <1>1, <2>1, <3>1, <3>2, RoomStays
    <3> QED
      BY <3>4, <3>5 DEF CappedWay
  <2> QED
    BY <2>2, <2>3
<1> QED
  BY <1>2, <1>3, <1>4, <1>5 DEF ProcessorNext

\* What the sink emits of a trace are spans that the engine buffers of it.
LEMMA NoMoreThanBuffered ==
  ASSUME EngineInv, HardCaps, SinkAgrees, Capped, CappedWay, NEW r \in Range(sinkLog)
  PROVE  Len(SpansOf(Emission(r))) <= MaxSpansPerTrace
<1>1. PICK u : u = heap[r].spans
  OBVIOUS
<1>2. r \in Refs /\ r \notin Range(order) /\ heap[r].decision = "Sampled"
  <2>1. r \in Refs /\ heap[r].decision = "Sampled"
    BY DEF SinkAgrees
  <2> QED
    BY <2>1 DEF SinkAgrees
<1>3. ~Coming(r)
  BY <1>2, BufferedInOrder DEF Coming
<1>4. Packed(AllSources, u) /\ CarriedBy(u) \subseteq SpanIDsOf(u)
  <2>1. CarriesWhatFits(r)
    BY <1>2 DEF CappedWay
  <2> QED
    BY <1>1, <1>3, <2>1 DEF CarriesWhatFits
<1>5. u \in Seq(Spans) /\ Len(u) \in Nat
  BY <1>1, <1>2, SpansCount
<1>6. Len(SpansOf(Emission(r))) = Cardinality(CarriedBy(u)) /\ IsFiniteSet(CarriedBy(u))
  BY <1>1, <1>4, <1>5, EmissionIDs DEF Emission
<1>7. Cardinality(CarriedBy(u)) <= Len(u) /\ Cardinality(CarriedBy(u)) \in Nat
  BY <1>4, <1>5, <1>6, NoMoreThanSpans, FS_CardinalityType
<1>8. Len(u) <= MaxSpansPerTrace /\ MaxSpansPerTrace \in Nat
  BY <1>1, <1>2, CapsAssumption DEF HardCaps, Capped
<1> QED
  BY <1>5, <1>6, <1>7, <1>8

\* From a receiver that sends one request at a time no trace leaves with more
\* spans than the cap: between counting and Consume nobody adds spans, so what
\* the adapter copies is what the engine takes (toEngineSpans, ingestSpan).
LEMMA CapHoldsToTheEnd ==
  ASSUME RepeatedWhole(Deliveries), Capped
  PROVE  ProcessorSpec => []EmissionWithinCap
<1>1. ProcessorInv /\ NothingUnread /\ CappedWay /\ [ProcessorNext]_processorVars
        => (ProcessorInv /\ NothingUnread /\ CappedWay)'
  <2> SUFFICES ASSUME ProcessorInv, NothingUnread, CappedWay, [ProcessorNext]_processorVars
               PROVE  ProcessorInv' /\ NothingUnread' /\ CappedWay'
    OBVIOUS
  <2>1. ProcessorInv' /\ NothingUnread'
    BY ProcessorInvStep
  <2> QED
    BY <2>1, CappedWayStep DEF ProcessorInv
<1>2. EngineInv /\ SinkAgrees /\ [Next]_vars => SinkAgrees'
  BY SinkAgreesStep
<1>3. ProcessorInv /\ SinkAgrees /\ CappedWay => EmissionWithinCap
  BY NoMoreThanBuffered DEF ProcessorInv, EmissionWithinCap
<1>4. Spec => []SinkAgrees
  BY <1>2, SinkAgreesInit, EngineInvariant, PTL DEF Spec
<1> QED
  BY <1>1, <1>3, <1>4, ProcessorInvInit, CappedWayInit, ProcessorUsesEngine, PTL DEF ProcessorSpec

-----------------------------------------------------------------------------
(* Under the cap, from any number of receivers.                            *)

\* A trace carries spans of deliveries, fewer than twice the cap; and of a
\* delivery of which it carries any, it has or will have all, unless it is full.
CarriesGroups(r) ==
  LET id == heap[r].id
      u  == heap[r].spans
  IN /\ Packed(AllSources, u)
     /\ Cardinality(CarriedBy(u)) < 2 * MaxSpansPerTrace
     /\ \A x \in CarriedBy(u) : \E td \in Deliveries : x \in GroupIDs(td, id)
     /\ \A td \in Deliveries : GroupIDs(td, id) \cap CarriedBy(u) # {} =>
          \/ Full(u)
          \/ \A x \in GroupIDs(td, id) : x \in SpanIDsOf(u) \/ (Coming(r) /\ x \in ToCome(id))

\* The inductive invariant: nothing is said of what the calls counted.
CrowdedWay ==
  /\ CallInside
  /\ \A r \in Refs : heap[r].decision # "NotSampled" => CarriesGroups(r)

\* A trace whose spans stay the same carries the same.
LEMMA StillGroups ==
  ASSUME NEW r \in Refs, CarriesGroups(r), NEW id, id = heap[r].id,
         heap'[r].id = id, heap'[r].spans = heap[r].spans,
         Coming(r) => \A x \in ToCome(id) : Coming(r)' /\ x \in ToCome(id)'
  PROVE  CarriesGroups(r)'
<1>1. PICK u : u = heap[r].spans
  OBVIOUS
<1>2. /\ Packed(AllSources, u) /\ Cardinality(CarriedBy(u)) < 2 * MaxSpansPerTrace
      /\ \A x \in CarriedBy(u) : \E td \in Deliveries : x \in GroupIDs(td, id)
      /\ \A td \in Deliveries : GroupIDs(td, id) \cap CarriedBy(u) # {} =>
           \/ Full(u)
           \/ \A x \in GroupIDs(td, id) : x \in SpanIDsOf(u) \/ (Coming(r) /\ x \in ToCome(id))
  BY <1>1 DEF CarriesGroups
<1>3. \A td \in Deliveries : GroupIDs(td, id) \cap CarriedBy(u) # {} =>
        \/ Full(u)
        \/ \A x \in GroupIDs(td, id) : x \in SpanIDsOf(u) \/ (Coming(r)' /\ x \in ToCome(id)')
  BY <1>2
<1> QED
  BY <1>1, <1>2, <1>3 DEF CarriesGroups

\* The traces wait for the call to go on.
LEMMA GroupsWait ==
  ASSUME EngineInv, EngineInv', [Next]_vars, CrowdedWay, SameTraces, SameCallsInside, SectionGoesOn
  PROVE  CrowdedWay'
<1>1. CallInside' /\ \A id : (Came(id)' <=> Came(id)) /\ ToCome(id)' = ToCome(id)
  BY CallGoesOn DEF CrowdedWay
<1>2. ASSUME NEW r \in Refs', heap'[r].decision # "NotSampled"
      PROVE  CarriesGroups(r)'
  <2>1. r \in Refs /\ heap'[r].id = heap[r].id /\ heap'[r].spans = heap[r].spans
    BY DEF SameTraces
  <2>2. CarriesGroups(r)
    BY <1>2, <2>1, NoneComesBack DEF CrowdedWay
  <2>3. PICK id : id = heap[r].id
    OBVIOUS
  <2>4. CASE ~Coming(r)
    BY <2>1, <2>2, <2>3, <2>4, StillGroups
  <2>5. CASE Coming(r) /\ pc' = "ingest"
    <3>1. Coming(r)'
      BY <1>1, <2>1, <2>5 DEF Coming, Buffered, SectionGoesOn
    <3> QED
      BY <1>1, <2>1, <2>2, <2>3, <3>1, StillGroups
  <2>6. CASE Coming(r) /\ pc' # "ingest"
    <3>1. rest = <<>>
      BY <2>6 DEF Coming, SectionGoesOn
    <3>2. ToCome(id) = {}
      BY <3>1 DEF ToCome
    <3> QED
      BY <2>1, <2>2, <2>3, <3>2, StillGroups
  <2> QED
    BY <2>4, <2>5, <2>6
<1> QED
  BY <1>1, <1>2 DEF CrowdedWay

\* While a call ingests a span, the traces of the others wait.
LEMMA OtherGroupsWait ==
  ASSUME CrowdedWay, NEW c, NEW td, NEW k, NEW s, Ingesting(c, td, k, s),
         NEW q \in Refs, Buffered(q) => heap[q].id # s.tid,
         heap'[q] = heap[q], Buffered(q)' <=> Buffered(q), heap'[q].decision # "NotSampled"
  PROVE  CarriesGroups(q)'
<1>1. PICK id : id = heap[q].id
  OBVIOUS
<1>2. CarriesGroups(q)
  BY DEF CrowdedWay
<1>3. CASE ~Coming(q)
  BY <1>1, <1>2, <1>3, StillGroups
<1>4. CASE Coming(q)
  <2>1. id # s.tid /\ Came(id) /\ pc' = "ingest" /\ Buffered(q)'
    BY <1>1, <1>4 DEF Coming, Ingesting
  <2>2. Came(id)'
    BY <2>1 DEF Ingesting
  <2>3. Coming(q)'
    BY <1>1, <2>1, <2>2 DEF Coming
  <2>4. ToCome(id) \subseteq ToCome(id)'
    BY <2>1 DEF Ingesting
  <2> QED
    BY <1>1, <1>2, <2>3, <2>4, StillGroups
<1> QED
  BY <1>3, <1>4

\* What a trace carries that is not full and has no span to come are spans it
\* has, so with a snapshot that is fewer than twice the cap.
LEMMA SnapshotOnTop ==
  ASSUME EngineInv, MaxSpansPerTrace > 0, NEW u \in Seq(Spans), Packed(AllSources, u), ~Full(u),
         CarriedBy(u) \subseteq SpanIDsOf(u),
         NEW raw, raw \in Snapshots(AllSources), Apart(AllSources, raw),
         Cardinality(BlockIDs(raw)) <= MaxSpansPerTrace, BlockIDs(raw) \cap CarriedBy(u) = {}
  PROVE  Cardinality(CarriedBy(u) \cup BlockIDs(raw)) < 2 * MaxSpansPerTrace
<1>1. IsFiniteSet(CarriedBy(u)) /\ IsFiniteSet(BlockIDs(raw))
  BY EmissionIDs, SnapshotLength
<1>2. Cardinality(CarriedBy(u)) \in Nat /\ Cardinality(BlockIDs(raw)) \in Nat
  BY <1>1, FS_CardinalityType
<1>3. Cardinality(CarriedBy(u)) <= Len(u)
  BY NoMoreThanSpans
<1>4. Len(u) \in Nat /\ MaxSpansPerTrace \in Nat /\ Len(u) < MaxSpansPerTrace
  BY LenProperties, CapsAssumption DEF Full
<1>5. Cardinality(CarriedBy(u) \cup BlockIDs(raw))
        = Cardinality(CarriedBy(u)) + Cardinality(BlockIDs(raw))
            - Cardinality(CarriedBy(u) \cap BlockIDs(raw))
  BY <1>1, FS_Union
<1>6. Cardinality(CarriedBy(u) \cap BlockIDs(raw)) = 0
  <2>1. CarriedBy(u) \cap BlockIDs(raw) = {}
    OBVIOUS
  <2> QED
    BY <2>1, FS_EmptySet
<1>7. PICK m, n, l, k : /\ m = Cardinality(CarriedBy(u)) /\ n = Cardinality(BlockIDs(raw))
                        /\ l = Len(u) /\ k = MaxSpansPerTrace
  OBVIOUS
<1>8. Cardinality(CarriedBy(u) \cup BlockIDs(raw)) = m + n
  BY <1>2, <1>5, <1>6, <1>7
<1>9. m \in Nat /\ n \in Nat /\ l \in Nat /\ k \in Nat /\ m <= l /\ l < k /\ n <= k
  BY <1>2, <1>3, <1>4, <1>7
<1>10. m + n < 2 * k
  BY <1>9
<1> QED
  BY <1>7, <1>8, <1>10

\* The trace that takes the span, or is full or has it.
LEMMA TakenGroups ==
  ASSUME RepeatedWhole(Deliveries), MaxSpansPerTrace > 0, EngineInv, CrowdedWay,
         NEW c, NEW td, NEW k, NEW s, Ingesting(c, td, k, s),
         NEW r, NEW u \in Seq(Spans), Takes(r, s, u), heap'[r].decision # "NotSampled"
  PROVE  CarriesGroups(r)'
<1>1. PICK id, v : id = s.tid /\ v = heap'[r].spans
  OBVIOUS
<1>2. /\ td \in Deliveries /\ Len(td) \in Nat /\ k \in 1..Len(td) /\ id = td[k].tid /\ s.sid = td[k].sid
      /\ s \in Spans /\ s.raw \in Snapshots(AllSources) /\ Apart(AllSources, s.raw)
      /\ BlockIDs(s.raw) = IF FirstOfTrace(td, k)
                           THEN FittingIDs(td, MaxSpansPerTrace, counts[c], Len(td), id) ELSE {}
      /\ Cardinality(BlockIDs(s.raw)) <= MaxSpansPerTrace
  BY <1>1 DEF Ingesting, EngineSpanOf
<1>3. Coming(r)' /\ heap'[r].id = id
  <2>1. Came(id)' /\ pc' = "ingest" /\ Buffered(r)' /\ heap'[r].id = id
    BY <1>1, <1>2 DEF Ingesting, Takes
  <2> QED
    BY <2>1 DEF Coming
<1>4. /\ Packed(AllSources, u) /\ Cardinality(CarriedBy(u)) < 2 * MaxSpansPerTrace
      /\ \A x \in CarriedBy(u) : \E ud \in Deliveries : x \in GroupIDs(ud, id)
      /\ \A ud \in Deliveries : GroupIDs(ud, id) \cap CarriedBy(u) # {} =>
           \/ Full(u)
           \/ \A x \in GroupIDs(ud, id) : x \in SpanIDsOf(u) \/ (Came(id) /\ x \in ToCome(id))
  <2>1. CASE r \in Refs
    <3>1. /\ Buffered(r) /\ heap[r].id = id /\ u = heap[r].spans
          /\ heap[r].decision # "NotSampled"
      BY <1>1, <2>1 DEF Takes
    <3>2. CarriesGroups(r)
      BY <2>1, <3>1 DEF CrowdedWay
    <3> QED
      BY <3>1, <3>2 DEF CarriesGroups, Coming
  <2>2. CASE r \notin Refs
    <3>1. u = <<>>
      BY <2>2 DEF Takes
    <3>2. CarriedBy(u) = {} /\ Packed(AllSources, u)
      BY <3>1, NothingCarried DEF WellCarried
    <3>3. Cardinality(CarriedBy(u)) = 0 /\ MaxSpansPerTrace \in Nat
      BY <3>2, FS_EmptySet, CapsAssumption
    <3> QED
      BY <3>2, <3>3
  <2> QED
    BY <2>1, <2>2
<1>5. \A x : x \in ToCome(id) => x = s.sid \/ x \in ToCome(id)'
  BY <1>1 DEF Ingesting
<1>6. SUFFICES /\ Packed(AllSources, v) /\ Cardinality(CarriedBy(v)) < 2 * MaxSpansPerTrace
               /\ \A x \in CarriedBy(v) : \E ud \in Deliveries : x \in GroupIDs(ud, id)
               /\ \A ud \in Deliveries : GroupIDs(ud, id) \cap CarriedBy(v) # {} =>
                    Full(v) \/ \A x \in GroupIDs(ud, id) : x \in SpanIDsOf(v) \/ x \in ToCome(id)'
  BY <1>1, <1>3 DEF CarriesGroups
<1>7. CASE Full(u)
  <2>1. v = u
    BY <1>1, <1>7 DEF Takes
  <2> QED
    BY <1>4, <1>7, <2>1
<1>8. CASE ~Full(u) /\ s.sid \in SpanIDsOf(u)
  <2>1. v = u
    BY <1>1, <1>8 DEF Takes
  <2> QED
    BY <1>4, <1>5, <1>8, <2>1
<1>9. CASE ~Full(u) /\ s.sid \notin SpanIDsOf(u)
  <2>1. v = Append(u, s)
    BY <1>1, <1>9 DEF Takes
  <2>2. ASSUME BlockIDs(s.raw) \cap CarriedBy(u) = {}
        PROVE  /\ Packed(AllSources, v) /\ CarriedBy(v) = CarriedBy(u) \cup BlockIDs(s.raw)
               /\ SpanIDsOf(v) = SpanIDsOf(u) \cup {s.sid}
    BY <1>2, <1>4, <2>1, <2>2, PackedGrows
  <2>3. CASE FirstOfTrace(td, k)
    <3>1. ~Came(id)
      BY <1>1, <1>2, <2>3 DEF Ingesting, FirstOfTrace
    <3>2. /\ s.sid \in GroupIDs(td, id)
          /\ \A ud \in Deliveries : GroupIDs(ud, id) \cap GroupIDs(td, id) # {}
                                      => GroupIDs(ud, id) = GroupIDs(td, id)
      BY <1>2, Groups
    <3>3. BlockIDs(s.raw) \subseteq GroupIDs(td, id)
      BY <1>2 DEF FittingIDs, GroupIDs, IDsUpTo
    <3>4. BlockIDs(s.raw) \cap CarriedBy(u) = {}
      BY <1>2, <1>4, <1>9, <3>1, <3>2, <3>3
    <3>5. \A i \in 1..Len(td) : td[i].tid = id => i = k \/ i > k
      BY <1>2, <2>3 DEF FirstOfTrace
    <3>6. CarriedBy(u) \subseteq SpanIDsOf(u)
      BY <1>4, <1>9, <3>1
    <3>7. Cardinality(CarriedBy(v)) < 2 * MaxSpansPerTrace
      BY <1>2, <1>4, <1>9, <2>2, <3>4, <3>6, SnapshotOnTop
    <3>8. ASSUME NEW x \in GroupIDs(td, id) PROVE x = s.sid \/ x \in ToCome(id)'
      <4>1. PICK i \in 1..Len(td) : td[i].tid = id /\ td[i].sid = x
        BY <3>8 DEF GroupIDs, IDsUpTo
      <4>2. CASE i = k
        BY <1>2, <4>1, <4>2
      <4>3. CASE i > k
        BY <4>1, <4>3 DEF Ingesting
      <4> QED
        BY <3>5, <4>1, <4>2, <4>3
    <3> QED
      BY <1>2, <1>4, <1>9, <2>2, <3>1, <3>2, <3>3, <3>4, <3>7, <3>8
  <2>4. CASE ~FirstOfTrace(td, k)
    <3>1. BlockIDs(s.raw) = {}
      BY <1>2, <2>4
    <3> QED
      BY <1>4, <1>5, <1>9, <2>2, <3>1
  <2> QED
    BY <2>3, <2>4
<1> QED
  BY <1>7, <1>8, <1>9

\* When ingestSpan takes the next span of a call.
LEMMA IngestInCrowd ==
  ASSUME RepeatedWhole(Deliveries), MaxSpansPerTrace > 0, EngineInv, Delivered, CrowdedWay,
         IngestSpan, SameCallsInside
  PROVE  CrowdedWay'
<1>1. CallInside' /\ \E c, td, k, s : Ingesting(c, td, k, s)
  BY CallIngests DEF CrowdedWay
<1>2. PICK c, td, k, s : Ingesting(c, td, k, s)
  BY <1>1
<1>3. /\ td \in Deliveries /\ k \in 1..Len(td) /\ s = Head(rest) /\ s.sid = td[k].sid
  BY <1>2 DEF Ingesting, EngineSpanOf
<1>4. s.sid # NoSpanID
  <2>1. td[k].sid # NoSpanID
    BY <1>3, Groups, Zenon
  <2> QED
    BY <1>3, <2>1
<1>5. Loses(s) \/ \E r, u : u \in Seq(Spans) /\ Takes(r, s, u)
  BY <1>3, <1>4, SpanTaken
<1>6. CASE Loses(s)
  <2>1. heap' = heap /\ index' = index /\ Refs' = Refs /\ \A q \in Refs : Buffered(q)' <=> Buffered(q)
    BY <1>6 DEF Loses, Refs, Buffered
  <2>2. \A q \in Refs : Buffered(q) => heap[q].id # s.tid
    BY <1>6, BufferedInOrder DEF Loses, Buffered, Nil
  <2>3. \A q \in Refs' : heap'[q].decision # "NotSampled" => CarriesGroups(q)'
    BY <1>2, <2>1, <2>2, OtherGroupsWait
  <2> QED
    BY <1>1, <2>3 DEF CrowdedWay
<1>7. CASE \E r, u : u \in Seq(Spans) /\ Takes(r, s, u)
  <2>1. PICK r, u : u \in Seq(Spans) /\ Takes(r, s, u)
    BY <1>7
  <2>2. /\ Refs' = Refs \cup {r}
        /\ \A q \in Refs : q # r =>
             /\ Buffered(q) => heap[q].id # s.tid
             /\ \/ heap'[q] = heap[q] /\ (Buffered(q)' <=> Buffered(q))
                \/ Evicted(q)
    BY <2>1 DEF Takes
  <2>3. ASSUME NEW q \in Refs', heap'[q].decision # "NotSampled"
        PROVE  CarriesGroups(q)'
    <3>1. CASE q = r
      BY <1>2, <2>1, <2>3, <3>1, TakenGroups
    <3>2. CASE q # r
      BY <1>2, <2>2, <2>3, <3>2, OtherGroupsWait DEF Evicted
    <3> QED
      BY <3>1, <3>2
  <2> QED
    BY <1>1, <2>3 DEF CrowdedWay
<1> QED
  BY <1>5, <1>6, <1>7

\* A call enters, or leaves: no trace had a span to come.
LEMMA GroupsAtTheDoor ==
  ASSUME EngineInv, EngineInv', AdapterTypeOK, Delivered, CrowdedWay, RepeatedWhole(Deliveries),
         NEW c \in Calls, Enter(c) \/ Leave(c)
  PROVE  CrowdedWay'
<1>1. CallInside' /\ pc # "ingest" /\ heap' = heap
  BY EnterCall, LeaveCall DEF CrowdedWay, Enter, Leave
<1>2. ASSUME NEW r \in Refs', heap'[r].decision # "NotSampled"
      PROVE  CarriesGroups(r)'
  <2>1. r \in Refs /\ CarriesGroups(r) /\ ~Coming(r)
    BY <1>1, <1>2 DEF CrowdedWay, Refs, Coming
  <2> QED
    BY <1>1, <2>1, StillGroups
<1> QED
  BY <1>1, <1>2 DEF CrowdedWay

\* Every step of the processor.
LEMMA CrowdedWayStep ==
  ASSUME RepeatedWhole(Deliveries), MaxSpansPerTrace > 0, ProcessorInv, EngineInv', CrowdedWay,
         [ProcessorNext]_processorVars
  PROVE  CrowdedWay'
<1>1. EngineInv /\ AdapterTypeOK /\ Delivered /\ [Next]_vars
  BY EngineSeesAStep DEF ProcessorInv
<1>2. ASSUME NEW c \in Calls, Receive(c) \/ ReadCount(c) PROVE CrowdedWay'
  <2>1. UNCHANGED vars
    BY <1>2 DEF Receive, ReadCount, vars
  <2>2. SameTraces /\ SectionGoesOn
    <3>1. SectionGoesOn
      BY <2>1 DEF SectionGoesOn, vars, buffer, batchVars, sectionVars
    <3> QED
      BY <2>1, <3>1 DEF SameTraces, Refs, vars, buffer
  <2>3. SameCallsInside
    BY <1>1, <1>2 DEF Receive, ReadCount, SameCallsInside, AdapterTypeOK
  <2> QED
    BY <1>1, <2>2, <2>3, GroupsWait
<1>3. ASSUME NEW c \in Calls, Enter(c) \/ Leave(c) PROVE CrowdedWay'
  BY <1>1, <1>3, GroupsAtTheDoor
<1>4. CASE EngineStep \/ UNCHANGED processorVars
  <2>1. SameCallsInside
    BY <1>4 DEF EngineStep, processorVars, SameCallsInside, adapter
  <2>2. CASE IngestSpan
    BY <1>1, <2>1, <2>2, IngestInCrowd
  <2>3. CASE ~IngestSpan
    <3>1. SectionGoesOn
      BY <1>4, <2>3, EngineGoesOn DEF processorVars
    <3>2. SameTraces
      BY <1>1, <2>3, NothingIngested
    <3> QED
      BY <1>1, <2>1, <3>1, <3>2, GroupsWait
  <2> QED
    BY <2>2, <2>3
<1> QED
  BY <1>2, <1>3, <1>4 DEF ProcessorNext

\* At the start there is no trace and no call.
LEMMA CrowdedWayInit == ProcessorInit => CrowdedWay
<1> SUFFICES ASSUME ProcessorInit PROVE CrowdedWay
  OBVIOUS
<1>1. pc = "free" /\ Refs = {} /\ \A c \in Calls : callPc[c] = "new"
  BY DEF ProcessorInit, Init, Refs
<1> QED
  BY <1>1 DEF CrowdedWay, CallInside, OneInside, RestOfCall, InConsume

\* What the sink emits of a trace is what it carries.
LEMMA FewerThanTwice ==
  ASSUME EngineInv, SinkAgrees, CrowdedWay, NEW r \in Range(sinkLog)
  PROVE  Len(SpansOf(Emission(r))) < 2 * MaxSpansPerTrace
<1>1. PICK u : u = heap[r].spans
  OBVIOUS
<1>2. r \in Refs /\ heap[r].decision = "Sampled"
  BY DEF SinkAgrees
<1>3. Packed(AllSources, u) /\ Cardinality(CarriedBy(u)) < 2 * MaxSpansPerTrace
  <2>1. CarriesGroups(r)
    BY <1>2 DEF CrowdedWay
  <2> QED
    BY <1>1, <2>1 DEF CarriesGroups
<1>4. u \in Seq(Spans)
  BY <1>1, <1>2, SpansCount
<1>5. Len(SpansOf(Emission(r))) = Cardinality(CarriedBy(u))
  BY <1>1, <1>3, <1>4, EmissionIDs DEF Emission
<1> QED
  BY <1>3, <1>5

\* However many receivers overlap, no trace leaves with twice as many spans as
\* the cap: the engine takes a snapshot only for a trace that is not full, and
\* such a trace has all the spans that were copied for it before, fewer than the
\* cap. When calls come one after the other, none leaves with more than the cap.
\* In both, the sink may refuse, the ticker expire and MaxTraces evict meanwhile
\* (BufferedSpanCounts, toEngineSpans, ingestSpan, fromEngineSpans).
THEOREM EmissionsAreBounded ==
  ASSUME RepeatedWhole(Deliveries), MaxSpansPerTrace > 0
  PROVE  ProcessorSpec => [](EmissionWithinTwice /\ (~Overlapping => EmissionWithinCap))
<1>1. ProcessorInv /\ NothingUnread /\ CrowdedWay /\ [ProcessorNext]_processorVars
        => (ProcessorInv /\ NothingUnread /\ CrowdedWay)'
  <2> SUFFICES ASSUME ProcessorInv, NothingUnread, CrowdedWay, [ProcessorNext]_processorVars
               PROVE  ProcessorInv' /\ NothingUnread' /\ CrowdedWay'
    OBVIOUS
  <2>1. ProcessorInv' /\ NothingUnread'
    BY ProcessorInvStep
  <2> QED
    BY <2>1, CrowdedWayStep DEF ProcessorInv
<1>2. EngineInv /\ SinkAgrees /\ [Next]_vars => SinkAgrees'
  BY SinkAgreesStep
<1>3. ProcessorInv /\ SinkAgrees /\ CrowdedWay => EmissionWithinTwice
  BY FewerThanTwice DEF ProcessorInv, EmissionWithinTwice
<1>4. Spec => []SinkAgrees
  BY <1>2, SinkAgreesInit, EngineInvariant, PTL DEF Spec
<1>5. ProcessorSpec => []EmissionWithinTwice
  BY <1>1, <1>3, <1>4, ProcessorInvInit, CrowdedWayInit, ProcessorUsesEngine, PTL DEF ProcessorSpec
<1>6. CASE Overlapping
  <2>1. EmissionWithinTwice => EmissionWithinTwice /\ (~Overlapping => EmissionWithinCap)
    BY <1>6
  <2> QED
    BY <1>5, <2>1, PTL
<1>7. CASE ~Overlapping
  <2>1. Capped
    BY <1>7 DEF Capped
  <2>2. ProcessorSpec => []EmissionWithinCap
    BY <2>1, CapHoldsToTheEnd
  <2>3. EmissionWithinTwice /\ EmissionWithinCap
          => EmissionWithinTwice /\ (~Overlapping => EmissionWithinCap)
    OBVIOUS
  <2> QED
    BY <1>5, <2>2, <2>3, PTL
<1> QED
  BY <1>6, <1>7
=============================================================================
