------------------------ MODULE SamplingEngineFates ------------------------
(***************************************************************************)
(* What becomes of each trace, for every value of the constants: it is     *)
(* forwarded once, counted once, never overdue after a pass, and the       *)
(* engine implements the abstract sampler of TailSampling.                 *)
(*                                                                         *)
(* A step of the engine changes the fate of at most two traces.  The six   *)
(* ways it can do so are stated first (StepOutcome); the theorems go       *)
(* through those six cases and not through the engine's actions.           *)
(***************************************************************************)
EXTENDS SamplingEngineProofs

-----------------------------------------------------------------------------
(* The outcomes of a step.                                                 *)

\* q keeps its decision, its arrival time and its place; out of the buffer, it
\* is not written at all.
Keeps(q) ==
  /\ heap'[q].decision = heap[q].decision /\ heap'[q].arrived = heap[q].arrived
  /\ q \in Range(order') <=> q \in Range(order)
  /\ q \notin Range(order) => heap'[q] = heap[q]

OthersKeep(r) == \A q \in Refs : q # r => Keeps(q)

Counts(dropped, forwarded) ==
  /\ stats'.notSampled = stats.notSampled + dropped
  /\ stats'.sampledSpans = stats.sampledSpans + forwarded

DecidesNothing ==
  /\ Refs' = Refs /\ \A q \in Refs : Keeps(q)
  /\ Len(order') = Len(order) /\ sinkLog' = sinkLog /\ Counts(0, 0)

Drops(r) ==
  /\ Refs' = Refs /\ r \in Refs /\ OthersKeep(r) /\ Pending(r)
  /\ heap'[r].decision = "NotSampled" /\ heap'[r].arrived = heap[r].arrived
  /\ r \in Range(order) /\ r \notin Range(order') /\ Len(order') = Len(order) - 1
  /\ sinkLog' = sinkLog /\ Counts(1, 0)

Holds(r) ==
  /\ Refs' = Refs /\ r \in Refs /\ OthersKeep(r) /\ heap[r].decision # "NotSampled"
  /\ heap'[r].decision = "Sampled" /\ heap'[r].arrived = heap[r].arrived
  /\ r \in Range(order) /\ r \in Range(order') /\ Len(order') = Len(order)
  /\ sinkLog' = sinkLog /\ Counts(0, 0)

Forwards(r) ==
  /\ Refs' = Refs /\ r \in Refs /\ OthersKeep(r) /\ heap[r].decision # "NotSampled"
  /\ heap'[r].decision = "Sampled" /\ heap'[r].arrived = heap[r].arrived
  /\ heap'[r].spans = heap[r].spans
  /\ r \in Range(order) /\ r \notin Range(order') /\ Len(order') = Len(order) - 1
  /\ sinkLog' = Append(sinkLog, r) /\ Counts(0, Len(heap[r].spans))

\* r is the new trace; it arrives at the section's reading of the clock.
Joins(r) ==
  /\ r = Len(heap) + 1 /\ Refs' = Refs \cup {r} /\ pc = "ingest"
  /\ heap'[r].decision = "Pending" /\ heap'[r].arrived = now
  /\ r \in Range(order') /\ sinkLog' = sinkLog

Admits(r) ==
  /\ Joins(r) /\ ~AtCapacity /\ \A q \in Refs : Keeps(q)
  /\ Len(order') = Len(order) + 1 /\ Counts(0, 0)

Replaces(v, r) ==
  /\ Joins(r) /\ AtCapacity /\ OthersKeep(v)
  /\ v = OldestPending /\ v \in Range(pendingOrder) /\ v \in Refs
  /\ heap'[v].decision = "NotSampled" /\ heap'[v].arrived = heap[v].arrived
  /\ v \notin Range(order') /\ Len(order') = Len(order) /\ Counts(1, 0)

StepOutcome ==
  \/ DecidesNothing
  \/ \E r \in Refs : Drops(r) \/ Holds(r) \/ Forwards(r)
  \/ \E r \in Refs' : Admits(r) \/ \E v \in Refs : Replaces(v, r)

\* The counters are counters.
LEMMA CountersAreNat ==
  ASSUME EngineInv
  PROVE  /\ stats \in [CounterNames -> Nat]
         /\ stats.notSampled \in Nat /\ stats.sampledSpans \in Nat
<1>1. stats \in [CounterNames -> Nat]
  BY DEF EngineInv, OtherTypes
<1> QED
  BY <1>1 DEF CounterNames

\* The quiet steps leave the whole buffer, the counters and the sink alone.
LEMMA QuietOutcome ==
  ASSUME EngineInv, QuietStep \/ UNCHANGED vars
  PROVE  DecidesNothing
<1>1. UNCHANGED <<buffer, stats, sinkLog>>
  BY DEF QuietStep, ConsumeBegin, BeginConsume, BeginGeneration, EndIngest, EndDecide, ConsumeEnd,
         ExpireKeep, Start, TickerFires, TickerStops, TickBegin, TickEnd, ShutdownBegin,
         ShutdownTickerDone, ShutdownCancelled, DrainBegin, DrainForce, ShutdownFails,
         ShutdownEnd, ClockAdvances, vars
<1>2. heap' = heap /\ order' = order /\ sinkLog' = sinkLog /\ stats' = stats
  BY <1>1 DEF buffer
<1> QED
  BY <1>2, CountersAreNat DEF DecidesNothing, Keeps, Counts, Refs

\* Expiry drops the trace at the cursor.
LEMMA ExpireDropOutcome ==
  ASSUME EngineInv, ExpireDrop
  PROVE  Drops(AtCursor)
<1>1. stats' = DropCounted /\ sinkLog' = sinkLog
  BY DEF ExpireDrop
<1>2. Counts(1, 0)
  BY <1>1, CountersAreNat DEF DropCounted, Counts, CounterNames
<1>3. AtCursor \in Range(order)
  BY ExpireDropEffect, BufferedInOrder
<1> QED
  BY <1>1, <1>2, <1>3, ExpireDropEffect DEF Drops, OthersKeep, Keeps

\* A span for a buffered trace decides nothing.
LEMMA IngestKnownOutcome ==
  ASSUME EngineInv, IngestSpan, IngestKnown
  PROVE  DecidesNothing
<1> DEFINE r == index[Head(rest).tid]
<1>1. /\ r \in Refs /\ Refs' = Refs /\ order' = order /\ Buffered(r)
      /\ heap'[r].decision = heap[r].decision /\ heap'[r].arrived = heap[r].arrived
      /\ \A q \in Refs : q # r => heap'[q] = heap[q]
  BY IngestKnownEffect
<1>2. /\ sinkLog' = sinkLog
      /\ stats' = IF SpanCapReached(heap[r])
                  THEN [stats EXCEPT !.droppedMaxSpansPerTrace = @ + 1]
                  ELSE stats
  BY DEF IngestSpan, IngestKnown
<1> HIDE DEF r
<1>3. Counts(0, 0)
  BY <1>2, CountersAreNat DEF Counts, CounterNames
<1>4. r \in Range(order)
  BY <1>1, BufferedInOrder
<1> QED
  BY <1>1, <1>2, <1>3, <1>4 DEF DecidesNothing, Keeps

\* A span for a new trace, below the cap.
LEMMA IngestNewOutcome ==
  ASSUME EngineInv, IngestSpan, IngestNew
  PROVE  Admits(Len(heap) + 1)
<1> DEFINE r == Len(heap) + 1
<1>1. pc = "ingest" /\ sinkLog' = sinkLog /\ stats' = stats
  BY DEF IngestSpan, IngestNew
<1>2. Counts(0, 0)
  BY <1>1, CountersAreNat DEF Counts
<1>3. r \notin Refs
  BY BufferedInOrder
<1>4. /\ Refs' = Refs \cup {r} /\ heap'[r].decision = "Pending" /\ heap'[r].arrived = now
      /\ \A q \in Refs : heap'[q] = heap[q]
      /\ Len(order') = Len(order) + 1 /\ ~AtCapacity
      /\ Range(order') = Range(order) \cup {r}
  BY IngestNewEffect
<1>5. r = Len(heap) + 1
  OBVIOUS
<1> HIDE DEF r
<1>6. \A q \in Refs : Keeps(q)
  BY <1>3, <1>4 DEF Keeps
<1>7. Joins(r)
  BY <1>1, <1>4, <1>5 DEF Joins
<1>8. Admits(r)
  BY <1>2, <1>4, <1>6, <1>7 DEF Admits
<1> QED
  BY <1>8 DEF r

\* A span for a new trace, at the cap.
LEMMA IngestEvictingOutcome ==
  ASSUME EngineInv, IngestSpan, IngestEvicting
  PROVE  Replaces(OldestPending, Len(heap) + 1)
<1> DEFINE r == Len(heap) + 1
           v == OldestPending
<1>1. pc = "ingest" /\ sinkLog' = sinkLog /\ stats' = DropCounted
  BY DEF IngestSpan, IngestEvicting
<1>2. Counts(1, 0)
  BY <1>1, CountersAreNat DEF DropCounted, Counts, CounterNames
<1>3. r \notin Refs
  BY BufferedInOrder
<1>4. /\ Refs' = Refs \cup {r} /\ heap'[r].decision = "Pending" /\ heap'[r].arrived = now
      /\ v \in Refs /\ v \in Range(pendingOrder) /\ AtCapacity
      /\ heap'[v].decision = "NotSampled" /\ heap'[v].arrived = heap[v].arrived
      /\ \A q \in Refs : q # v => heap'[q] = heap[q]
      /\ Len(order') = Len(order)
      /\ Range(order') = (Range(order) \ {v}) \cup {r}
  BY IngestEvictingEffect
<1>5. r = Len(heap) + 1 /\ v = OldestPending
  OBVIOUS
<1> HIDE DEF r, v
<1>6. OthersKeep(v) /\ v \notin Range(order')
  BY <1>3, <1>4 DEF OthersKeep, Keeps
<1>7. Joins(r)
  BY <1>1, <1>4, <1>5 DEF Joins
<1>8. Replaces(v, r)
  BY <1>2, <1>4, <1>5, <1>6, <1>7 DEF Replaces
<1> QED
  BY <1>8 DEF r, v

\* A span that is lost.
LEMMA IngestDroppingOutcome ==
  ASSUME EngineInv, IngestSpan, IngestDropping
  PROVE  DecidesNothing
<1>1. /\ heap' = heap /\ order' = order /\ sinkLog' = sinkLog
      /\ stats' = [stats EXCEPT !.droppedMaxTraces = @ + 1]
  BY DEF IngestSpan, IngestDropping, buffer
<1>2. Counts(0, 0)
  BY <1>1, CountersAreNat DEF Counts, CounterNames
<1> QED
  BY <1>1, <1>2 DEF DecidesNothing, Keeps, Refs

\* A decision forwards, holds or does nothing.
LEMMA DecideOutcome ==
  ASSUME EngineInv, NEW r \in Refs, DecideLocked(r),
         heap[r].decision = "Sampled" => Buffered(r)
  PROVE  \/ Forwards(r) /\ Forward(r)
         \/ Holds(r) /\ Hold(r)
         \/ DecidesNothing /\ LeaveUndecided(r)
<1> DEFINE g == Decided(heap, r, "Sampled")
<1>1. /\ WellFormed(heap, index, order, pendingOrder)
      /\ heap \in Seq(Traces) /\ "Sampled" \in Decisions
  BY DEF EngineInv, WellFormed, Decisions
<1>2. /\ DOMAIN g = Refs /\ g[r].decision = "Sampled"
      /\ g[r].arrived = heap[r].arrived /\ g[r].spans = heap[r].spans
      /\ \A q \in Refs : q # r => g[q] = heap[q]
  BY <1>1, DecisionUpdate DEF Refs
<1>3. WantsForward(r) => r \in Range(order) /\ heap[r].decision # "NotSampled"
  BY BufferedInOrder DEF WantsForward, Pending
<1>4. CASE Forward(r)
  <2>1. r \in Range(order) /\ heap[r].decision # "NotSampled"
    BY <1>3, <1>4 DEF Forward
  <2>2. /\ heap' = g /\ order' = Unlink(order, r) /\ sinkLog' = Append(sinkLog, r)
        /\ stats' = [stats EXCEPT !.sampledSpans = @ + Len(heap[r].spans)]
    BY <1>4 DEF Forward, RemoveLocked, Decided
  <2> HIDE DEF g
  <2>3. Range(order') = Range(order) \ {r} /\ Len(order') = Len(order) - 1
    BY <1>1, <2>1, <2>2, RemoveWellFormed
  <2>4. Counts(0, Len(heap[r].spans))
    BY <2>2, CountersAreNat DEF Counts, CounterNames
  <2> QED
    BY <1>2, <1>4, <2>1, <2>2, <2>3, <2>4 DEF Forwards, OthersKeep, Keeps, Refs
<1>5. CASE Hold(r)
  <2>1. r \in Range(order) /\ heap[r].decision # "NotSampled"
    BY <1>3, <1>5 DEF Hold
  <2>2. heap' = g /\ order' = order /\ sinkLog' = sinkLog /\ stats' = stats
    BY <1>5 DEF Hold, Decided
  <2> HIDE DEF g
  <2>3. Counts(0, 0)
    BY <2>2, CountersAreNat DEF Counts
  <2> QED
    BY <1>2, <1>5, <2>1, <2>2, <2>3 DEF Holds, OthersKeep, Keeps, Refs
<1>6. CASE LeaveUndecided(r)
  <2>1. heap' = heap /\ order' = order /\ sinkLog' = sinkLog /\ stats' = stats
    BY <1>6 DEF LeaveUndecided, buffer
  <2>2. Counts(0, 0)
    BY <2>1, CountersAreNat DEF Counts
  <2> QED
    BY <1>6, <2>1, <2>2 DEF DecidesNothing, Keeps, Refs
<1> QED
  BY <1>4, <1>5, <1>6 DEF DecideLocked

\* A decision is one of three.
LEMMA DecisionKnown ==
  ASSUME EngineInv, NEW r \in Refs
  PROVE  heap[r].decision \in {"Pending", "Sampled", "NotSampled"}
  BY HeapElements DEF EngineInv, WellFormed, Refs, Traces, Decisions

\* Every step of every goroutine has one of the six outcomes.
LEMMA StepOutcomes == ASSUME EngineInv, [Next]_vars PROVE StepOutcome
<1>1. CASE QuietStep \/ UNCHANGED vars
  BY <1>1, QuietOutcome DEF StepOutcome
<1>2. CASE ExpireDrop
  BY <1>2, ExpireDropOutcome DEF StepOutcome, Drops
<1>3. CASE IngestSpan /\ IngestKnown
  BY <1>3, IngestKnownOutcome DEF StepOutcome
<1>4. CASE IngestSpan /\ IngestNew
  <2>1. Admits(Len(heap) + 1) /\ Len(heap) + 1 \in Refs'
    BY <1>4, IngestNewOutcome DEF Admits, Joins
  <2> QED
    BY <2>1 DEF StepOutcome
<1>5. CASE IngestSpan /\ IngestEvicting
  <2>1. /\ Replaces(OldestPending, Len(heap) + 1) /\ Len(heap) + 1 \in Refs'
        /\ OldestPending \in Refs
    BY <1>5, IngestEvictingOutcome DEF Replaces, Joins
  <2> QED
    BY <2>1 DEF StepOutcome
<1>6. CASE IngestSpan /\ IngestDropping
  BY <1>6, IngestDroppingOutcome DEF StepOutcome
<1>7. CASE DecideTouched
  BY <1>7, TouchedHead, DecideOutcome DEF StepOutcome
<1>8. CASE DrainDecide
  BY <1>8, DrainedTrace, DecideOutcome DEF StepOutcome
<1> QED
  BY <1>1, <1>2, <1>3, <1>4, <1>5, <1>6, <1>7, <1>8, StepKinds

-----------------------------------------------------------------------------
(* Forwarded once.                                                         *)

\* SampledForwardedOnce with the arrival list in place of the index.
SinkAgrees ==
  /\ \A r \in Refs : heap[r].decision = "Sampled"
                       => (r \in Range(order) <=> r \notin Range(sinkLog))
  /\ IsInjective(sinkLog)
  /\ \A r \in Range(sinkLog) : r \in Refs /\ heap[r].decision = "Sampled"

LEMMA SinkAgreesInit == Init => SinkAgrees
<1> SUFFICES ASSUME Init PROVE SinkAgrees
  OBVIOUS
<1>1. Refs = {} /\ sinkLog = <<>>
  BY DEF Init, Refs
<1>2. Range(sinkLog) = {} /\ IsInjective(sinkLog)
  BY <1>1 DEF Range, IsInjective
<1> QED
  BY <1>1, <1>2 DEF SinkAgrees

\* What the sink has is not in the buffer any more, so that nothing in the
\* buffer can be given to it twice.
LEMMA SinkAgreesStep == ASSUME EngineInv, SinkAgrees, [Next]_vars PROVE SinkAgrees'
<1>1. /\ sinkLog \in Seq(Refs) /\ IsInjective(sinkLog)
      /\ \A q \in Range(sinkLog) : q \in Refs /\ heap[q].decision = "Sampled"
                                     /\ q \notin Range(order)
  BY DEF EngineInv, OtherTypes, SinkAgrees
<1>2. CASE DecidesNothing
  BY <1>2 DEF DecidesNothing, Keeps, SinkAgrees
<1>3. ASSUME NEW r \in Refs, Drops(r)
      PROVE  SinkAgrees'
  <2>1. \A q \in Range(sinkLog) : q # r
    BY <1>1, <1>3 DEF Drops, Pending
  <2> QED
    BY <1>3, <2>1 DEF Drops, OthersKeep, Keeps, SinkAgrees
<1>4. ASSUME NEW r \in Refs, Holds(r)
      PROVE  SinkAgrees'
  <2>1. r \notin Range(sinkLog)
    BY <1>1, <1>4 DEF Holds
  <2> QED
    BY <1>4, <2>1 DEF Holds, OthersKeep, Keeps, SinkAgrees
<1>5. ASSUME NEW r \in Refs, Forwards(r)
      PROVE  SinkAgrees'
  <2>1. r \notin Range(sinkLog)
    BY <1>1, <1>5 DEF Forwards
  <2>2. IsInjective(sinkLog') /\ Range(sinkLog') = Range(sinkLog) \cup {r}
    BY <1>1, <1>5, <2>1, AppendInjectiveList DEF Forwards
  <2> QED
    BY <1>5, <2>2 DEF Forwards, OthersKeep, Keeps, SinkAgrees
<1>6. ASSUME NEW r \in Refs', Admits(r)
      PROVE  SinkAgrees'
  <2>1. r \notin Refs
    BY <1>6, BufferedInOrder DEF Admits, Joins
  <2> QED
    BY <1>6, <2>1 DEF Admits, Joins, Keeps, SinkAgrees
<1>7. ASSUME NEW r \in Refs', NEW v \in Refs, Replaces(v, r)
      PROVE  SinkAgrees'
  <2>1. r \notin Refs
    BY <1>7, BufferedInOrder DEF Replaces, Joins
  <2>2. Pending(v)
    BY <1>7, BufferedInOrder DEF Replaces
  <2>3. \A q \in Range(sinkLog) : q # v
    BY <1>1, <2>2 DEF Pending
  <2> QED
    BY <1>7, <2>1, <2>3 DEF Replaces, Joins, OthersKeep, Keeps, SinkAgrees
<1> QED
  BY <1>2, <1>3, <1>4, <1>5, <1>6, <1>7, StepOutcomes DEF StepOutcome

\* The sink accepts every trace once: what a policy keeps is held in the buffer
\* or was forwarded, never both and never twice, whatever errors the sink
\* returned and whatever stale pointers touched holds (SampledForwardedOnce).
THEOREM ForwardedOnce == Spec => []SampledForwardedOnce
<1>1. EngineInv /\ SinkAgrees /\ [Next]_vars => SinkAgrees'
  BY SinkAgreesStep
<1>2. EngineInv /\ SinkAgrees => SampledForwardedOnce
  BY BufferedInOrder DEF SinkAgrees, SampledForwardedOnce
<1> QED
  BY <1>1, <1>2, SinkAgreesInit, EngineInvariant, PTL DEF Spec

-----------------------------------------------------------------------------
(* Counted once.                                                           *)

\* The first part of CountersAgree.
TracesCounted == Len(heap) = Len(order) + Len(sinkLog) + stats.notSampled

\* A heap with one pointer more is one longer.
LEMMA OneLonger ==
  ASSUME NEW m \in Nat, NEW n \in Nat, 1..n = (1..m) \cup {m + 1}
  PROVE  n = m + 1
<1>1. m + 1 \in 1..n /\ n + 1 \notin 1..n
  OBVIOUS
<1> QED
  BY <1>1

\* The same number of pointers is the same length.
LEMMA SameLength ==
  ASSUME NEW m \in Nat, NEW n \in Nat, 1..n = 1..m
  PROVE  n = m
<1>1. n + 1 \notin 1..n /\ m + 1 \notin 1..m /\ (n > 0 => n \in 1..n) /\ (m > 0 => m \in 1..m)
  OBVIOUS
<1> QED
  BY <1>1

\* What leaves the buffer is counted in one place, whatever made it leave.
LEMMA TracesCountedStep ==
  ASSUME EngineInv, EngineInv', TracesCounted, [Next]_vars
  PROVE  TracesCounted'
<1>1. /\ Refs = 1..Len(heap) /\ Refs' = 1..Len(heap')
      /\ Len(heap) \in Nat /\ Len(heap') \in Nat
      /\ Len(order) \in Nat /\ Len(sinkLog) \in Nat /\ stats.notSampled \in Nat
      /\ sinkLog \in Seq(Refs)
  <2>1. Refs = 1..Len(heap) /\ Len(heap) \in Nat
    BY BufferedInOrder
  <2>2. heap' \in Seq(Traces') 
    BY DEF EngineInv, WellFormed
  <2>3. Refs' = 1..Len(heap') /\ Len(heap') \in Nat
    BY <2>2, LenProperties DEF Refs
  <2>4. Len(order) \in Nat /\ Len(sinkLog) \in Nat /\ sinkLog \in Seq(Refs)
    BY LenProperties DEF EngineInv, WellFormed, OtherTypes
  <2> QED
    BY <2>1, <2>3, <2>4, CountersAreNat
<1>2. Refs' = Refs => Len(heap') = Len(heap)
  BY <1>1, SameLength
<1>3. CASE DecidesNothing
  BY <1>1, <1>2, <1>3 DEF DecidesNothing, Counts, TracesCounted
<1>4. ASSUME NEW r \in Refs, Drops(r) \/ Holds(r)
      PROVE  TracesCounted'
  BY <1>1, <1>2, <1>4 DEF Drops, Holds, Counts, TracesCounted
<1>5. ASSUME NEW r \in Refs, Forwards(r)
      PROVE  TracesCounted'
  <2>1. Len(sinkLog') = Len(sinkLog) + 1
    BY <1>1, <1>5, AppendLength DEF Forwards
  <2> QED
    BY <1>1, <1>2, <1>5, <2>1 DEF Forwards, Counts, TracesCounted
<1>6. ASSUME Refs' = Refs \cup {Len(heap) + 1}
      PROVE  Len(heap') = Len(heap) + 1
  BY <1>1, <1>6, OneLonger
<1>7. ASSUME NEW r \in Refs', Admits(r)
      PROVE  TracesCounted'
  <2>1. Len(heap') = Len(heap) + 1
    BY <1>6, <1>7 DEF Admits, Joins
  <2> QED
    BY <1>1, <1>7, <2>1 DEF Admits, Joins, Counts, TracesCounted
<1>8. ASSUME NEW r \in Refs', NEW v \in Refs, Replaces(v, r)
      PROVE  TracesCounted'
  <2>1. Len(heap') = Len(heap) + 1
    BY <1>6, <1>8 DEF Replaces, Joins
  <2> QED
    BY <1>1, <1>8, <2>1 DEF Replaces, Joins, Counts, TracesCounted
<1> QED
  BY <1>3, <1>4, <1>5, <1>7, <1>8, StepOutcomes DEF StepOutcome

\* The fold of CountersAgree, and the number of spans at each position.
SpanSum(h, q) == FoldSeq(LAMBDA r, n : Len(h[r].spans) + n, 0, q)
Weights(h, q) == [i \in DOMAIN q |-> Len(h[q[i]].spans)]

\* The fold is a sum over the positions.
LEMMA FoldIsSum ==
  ASSUME NEW h, NEW S, NEW q \in Seq(S), \A r \in S : Len(h[r].spans) \in Nat
  PROVE  /\ Weighing(Weights(h, q), DOMAIN q)
         /\ \E g : Sums(g, DOMAIN q, Weights(h, q)) /\ SpanSum(h, q) = g[DOMAIN q]
<1> DEFINE Body(g) == [s \in SUBSET DOMAIN q |->
                        IF s = {} THEN 0
                        ELSE Len(h[q[CHOOSE x \in s : TRUE]].spans) + g[s \ {CHOOSE x \in s : TRUE}]]
           iter == CHOOSE g : g = Body(g)
<1>1. SpanSum(h, q) = iter[DOMAIN q]
  BY Zenon DEF SpanSum, FoldSeq, FoldFunction, FoldFunctionOnSet, MapThenFoldSet
<1>2. ASSUME NEW g
      PROVE  [s \in SUBSET DOMAIN q |-> SumOver(g, Weights(h, q), s)] = Body(g)
  <2>1. ASSUME NEW s \in SUBSET DOMAIN q
        PROVE  SumOver(g, Weights(h, q), s)
                 = IF s = {} THEN 0 ELSE Len(h[q[Pick(s)]].spans) + g[s \ {Pick(s)}]
    BY Picked DEF SumOver, Weights
  <2> QED
    BY <2>1 DEF Pick
<1>3. Weighing(Weights(h, q), DOMAIN q)
  <2>1. Len(q) \in Nat /\ DOMAIN q = 1..Len(q) /\ \A i \in DOMAIN q : q[i] \in S
    BY LenProperties, ElementOfSeq
  <2> QED
    BY <2>1, FS_Interval DEF Weights, Weighing
<1>4. PICK g : Sums(g, DOMAIN q, Weights(h, q))
  BY <1>3, SumsExist
<1>5. g = Body(g)
  BY <1>2, <1>4 DEF Sums, Adding
<1> HIDE DEF Body
<1>6. iter = Body(iter)
  BY <1>5
<1> HIDE DEF iter
<1>7. Adding(iter, DOMAIN q, Weights(h, q))
  BY <1>2, <1>6, Zenon DEF Adding
<1>8. iter[DOMAIN q] = g[DOMAIN q]
  <2>1. DOMAIN q \subseteq DOMAIN q /\ SameWeights(Weights(h, q), Weights(h, q), DOMAIN q)
    BY DEF SameWeights
  <2> QED
    BY <1>3, <1>4, <1>7, <2>1, SumsAgree DEF Sums
<1> QED
  BY <1>1, <1>3, <1>4, <1>8

\* The sum over a list whose traces keep their spans.
LEMMA SpanSumKept ==
  ASSUME NEW S, NEW q \in Seq(S), NEW h, NEW k,
         \A e \in S : Len(h[e].spans) \in Nat, \A e \in S : Len(k[e].spans) \in Nat,
         \A e \in Range(q) : k[e].spans = h[e].spans
  PROVE  SpanSum(h, q) \in Nat /\ SpanSum(k, q) = SpanSum(h, q)
<1> DEFINE I == DOMAIN q
<1>1. PICK f : Sums(f, I, Weights(h, q)) /\ SpanSum(h, q) = f[I]
  BY FoldIsSum, Zenon
<1>2. PICK g : Sums(g, I, Weights(k, q)) /\ SpanSum(k, q) = g[I]
  BY FoldIsSum, Zenon
<1>3. Weighing(Weights(h, q), I)
  BY FoldIsSum, Zenon
<1>4. SameWeights(Weights(h, q), Weights(k, q), I)
  BY DEF Weights, SameWeights, Range
<1>5. f[I] \in Nat
  BY <1>1 DEF Sums
<1>6. I \subseteq I
  OBVIOUS
<1> HIDE DEF I
<1>7. f[I] = g[I]
  BY <1>1, <1>2, <1>3, <1>4, <1>6, SumsAgree DEF Sums
<1> QED
  BY <1>1, <1>2, <1>5, <1>7

\* The sum over one trace more.
LEMMA SpanSumGrows ==
  ASSUME NEW S, NEW q \in Seq(S), NEW h, NEW r \in S, \A e \in S : Len(h[e].spans) \in Nat
  PROVE  SpanSum(h, Append(q, r)) = SpanSum(h, q) + Len(h[r].spans)
<1> DEFINE I == DOMAIN q
           a == Append(q, r)
           J == DOMAIN a
           p == Len(q) + 1
<1>1. /\ a \in Seq(S) /\ I \in SUBSET J /\ I \subseteq J
      /\ p \in J /\ p \notin I /\ J = I \cup {p}
      /\ \A i \in I : a[i] = q[i]
      /\ a[p] = r
  <2>1. /\ a \in Seq(S) /\ Len(a) = Len(q) + 1 /\ a[Len(q) + 1] = r /\ Len(q) \in Nat
        /\ I = 1..Len(q) /\ \A i \in 1..Len(q) : a[i] = q[i]
    BY AppendProperties, LenProperties
  <2>2. J = 1..(Len(q) + 1)
    BY <2>1, LenProperties
  <2> QED
    BY <2>1, <2>2
<1>2. PICK f : Sums(f, I, Weights(h, q)) /\ SpanSum(h, q) = f[I]
  BY FoldIsSum, Zenon
<1>3. PICK m : Sums(m, J, Weights(h, a)) /\ SpanSum(h, a) = m[J]
  BY <1>1, FoldIsSum, Zenon
<1>4. Weighing(Weights(h, q), I) /\ Weighing(Weights(h, a), J)
  BY <1>1, FoldIsSum, Zenon
<1>5. SameWeights(Weights(h, q), Weights(h, a), I) /\ Weights(h, a)[p] = Len(h[r].spans)
  BY <1>1 DEF Weights, SameWeights
<1> HIDE DEF I, J, a, p
<1>6. f[I] = m[I]
  BY <1>1, <1>2, <1>3, <1>4, <1>5, SumsAgree DEF Sums
<1>7. m[I \cup {p}] = m[I] + Weights(h, a)[p]
  <2>1. I \in SUBSET J /\ p \in J /\ p \notin I
    BY <1>1
  <2> QED
    BY <1>3, <1>4, <2>1, SumsAdd
<1> QED
  BY <1>1, <1>2, <1>3, <1>5, <1>6, <1>7 DEF a

\* The second part of CountersAgree.
SpansCounted == stats.sampledSpans = SpanSum(heap, sinkLog)

\* Every step counts the spans it forwards; a forwarded trace gets no more.
LEMMA SpansCountedStep ==
  ASSUME EngineInv, EngineInv', SinkAgrees, SpansCounted, [Next]_vars
  PROVE  SpansCounted'
<1>1. /\ \A e \in Refs : Len(heap[e].spans) \in Nat
      /\ \A e \in Refs' : Len(heap'[e].spans) \in Nat
  <2>1. heap \in Seq(Traces) /\ heap' \in Seq(Traces)
    BY DEF EngineInv, WellFormed, Traces, Decisions, Spans
  <2>2. /\ \A e \in Refs : heap[e] \in Traces
        /\ \A e \in Refs' : heap'[e] \in Traces
    BY <2>1, HeapElements DEF Refs
  <2>3. \A t \in Traces : Len(t.spans) \in Nat
    BY LenProperties DEF Traces
  <2> QED
    BY <2>2, <2>3
<1>2. /\ sinkLog \in Seq(Refs) /\ stats.sampledSpans \in Nat
      /\ \A q \in Range(sinkLog) : q \in Refs /\ q \notin Range(order) /\ ~Pending(q)
  BY CountersAreNat DEF EngineInv, OtherTypes, SinkAgrees, Pending
<1>3. ASSUME Refs \subseteq Refs', NEW r, \A q \in Refs : q # r => Keeps(q), r \notin Range(sinkLog)
      PROVE  /\ \A e \in Refs : Len(heap'[e].spans) \in Nat
             /\ SpanSum(heap', sinkLog) = SpanSum(heap, sinkLog) /\ SpanSum(heap, sinkLog) \in Nat
  <2>1. \A e \in Refs : Len(heap'[e].spans) \in Nat
    BY <1>1, <1>3
  <2>2. \A q \in Range(sinkLog) : heap'[q].spans = heap[q].spans
    BY <1>2, <1>3 DEF Keeps
  <2> QED
    BY <1>1, <1>2, <2>1, <2>2, SpanSumKept
<1>4. ASSUME Refs \subseteq Refs', NEW r, \A q \in Refs : q # r => Keeps(q), r \notin Range(sinkLog),
             NEW n, Counts(n, 0), sinkLog' = sinkLog
      PROVE  SpansCounted'
  BY <1>2, <1>3, <1>4 DEF Counts, SpansCounted
<1>5. CASE DecidesNothing
  <2>1. PICK r : r \notin Range(sinkLog)
    BY <1>2, BufferedInOrder
  <2> QED
    BY <1>4, <1>5, <2>1 DEF DecidesNothing
<1>6. ASSUME NEW r \in Refs, Drops(r) \/ Holds(r)
      PROVE  SpansCounted'
  BY <1>2, <1>4, <1>6 DEF Drops, Holds, OthersKeep
<1>7. ASSUME NEW r \in Refs, Forwards(r)
      PROVE  SpansCounted'
  <2>1. /\ \A e \in Refs : Len(heap'[e].spans) \in Nat
        /\ SpanSum(heap', sinkLog) = SpanSum(heap, sinkLog) /\ SpanSum(heap, sinkLog) \in Nat
    BY <1>2, <1>3, <1>7 DEF Forwards, OthersKeep
  <2>2. sinkLog' = Append(sinkLog, r) /\ Counts(0, Len(heap[r].spans))
        /\ heap'[r].spans = heap[r].spans
    BY <1>7 DEF Forwards
  <2>3. SpanSum(heap', sinkLog') = SpanSum(heap', sinkLog) + Len(heap'[r].spans)
    BY <1>2, <2>1, <2>2, SpanSumGrows
  <2> QED
    BY <2>1, <2>2, <2>3 DEF Counts, SpansCounted
<1>8. ASSUME NEW r \in Refs', Admits(r)
      PROVE  SpansCounted'
  <2>1. r \notin Refs
    BY <1>8, BufferedInOrder DEF Admits, Joins
  <2>2. r \notin Range(sinkLog) /\ Refs \subseteq Refs'
    BY <1>2, <1>8, <2>1 DEF Admits, Joins
  <2> QED
    BY <1>4, <1>8, <2>2 DEF Admits, Joins
<1>9. ASSUME NEW r \in Refs', NEW v \in Refs, Replaces(v, r)
      PROVE  SpansCounted'
  <2>1. Pending(v)
    BY <1>9, BufferedInOrder DEF Replaces
  <2>2. v \notin Range(sinkLog) /\ Refs \subseteq Refs'
    BY <1>2, <1>9, <2>1 DEF Replaces, Joins
  <2> QED
    BY <1>4, <1>9, <2>2 DEF Replaces, Joins, OthersKeep
<1> QED
  BY <1>5, <1>6, <1>7, <1>8, <1>9, StepOutcomes DEF StepOutcome

\* The counters tell the truth: every trace ever buffered is in the buffer, was
\* accepted by the sink or is counted by notSampled, and sampledSpans is the
\* number of spans the sink accepted (CountersAgree).
THEOREM CountersTellTheTruth == Spec => []CountersAgree
<1>1. Init => TracesCounted /\ SpansCounted
  <2> SUFFICES ASSUME Init PROVE TracesCounted /\ SpansCounted
    OBVIOUS
  <2>1. heap = <<>> /\ order = <<>> /\ sinkLog = <<>> /\ stats.notSampled = 0 /\ stats.sampledSpans = 0
    BY DEF Init, CounterNames
  <2>2. SpanSum(heap, <<>>) = 0
    <3>1. <<>> \in Seq({}) /\ DOMAIN <<>> = {}
      OBVIOUS
    <3>2. PICK g : Sums(g, {}, Weights(heap, <<>>)) /\ SpanSum(heap, <<>>) = g[{}]
      BY <3>1, FoldIsSum
    <3> QED
      BY <3>2 DEF Sums, Adding, SumOver
  <2> QED
    BY <2>1, <2>2 DEF TracesCounted, SpansCounted
<1>2. EngineInv /\ EngineInv' /\ SinkAgrees /\ TracesCounted /\ SpansCounted /\ [Next]_vars
        => TracesCounted' /\ SpansCounted'
  BY TracesCountedStep, SpansCountedStep
<1>3. TracesCounted /\ SpansCounted => CountersAgree
  BY DEF TracesCounted, SpansCounted, CountersAgree, SpanSum
<1>4. EngineInv /\ SinkAgrees /\ [Next]_vars => SinkAgrees'
  BY SinkAgreesStep
<1> QED
  BY <1>1, <1>2, <1>3, <1>4, SinkAgreesInit, EngineInvariant, PTL DEF Spec

-----------------------------------------------------------------------------
(* What a section that ends leaves behind.                                 *)

\* The steps that move the control of a section.
Moves ==
  \/ ConsumeBegin \/ BeginGeneration \/ EndIngest \/ EndDecide \/ ConsumeEnd
  \/ ExpireKeep \/ TickBegin \/ TickEnd
  \/ DrainBegin \/ DrainForce \/ ShutdownFails \/ ShutdownEnd

\* A quiet step moves the control of the section or leaves it alone.
LEMMA QuietMoves ==
  ASSUME QuietStep \/ UNCHANGED vars
  PROVE  /\ UNCHANGED <<heap, index, order, pendingOrder, touched, stats, sinkLog>>
         /\ Moves \/ UNCHANGED <<gen, rest, pc, now, cursor, draining, failed>>
  BY DEF QuietStep, Moves, ConsumeBegin, BeginConsume, BeginGeneration, EndIngest, EndDecide,
         ConsumeEnd, ExpireKeep, Start, TickerFires, TickerStops, TickBegin, TickEnd,
         ShutdownBegin, ShutdownTickerDone, ShutdownCancelled, DrainBegin, DrainForce,
         ShutdownFails, ShutdownEnd, ClockAdvances, buffer, batchVars, sectionVars, vars

\* The trace at the cursor of a walk that is not over is buffered.
LEMMA CursorInOrder ==
  ASSUME EngineInv, ~WalkOver
  PROVE  /\ order \in Seq(Refs) /\ Len(order) \in Nat /\ DOMAIN order = 1..Len(order)
         /\ cursor \in 1..Len(order) /\ AtCursor \in Range(order) /\ AtCursor \in Refs
<1>1. order \in Seq(Refs) /\ cursor \in 1..(Len(order) + 1)
  BY DEF EngineInv, WellFormed, OtherTypes, Refs
<1>2. Len(order) \in Nat /\ DOMAIN order = 1..Len(order)
  BY <1>1, LenProperties
<1>3. cursor \in 1..Len(order)
  BY <1>1, <1>2 DEF WalkOver
<1>4. AtCursor \in Range(order)
  BY <1>2, <1>3 DEF AtCursor, Range
<1> QED
  BY <1>1, <1>2, <1>3, <1>4, ListElements

\* A batch's spans find the traces that were buffered when it arrived: expiry
\* skips them, and without a cap nothing else takes a trace out before the
\* decisions (LateSpanFindsTrace).
THEOREM LateSpansFindTraces == Spec => LateSpanFindsTrace
<1>1. ASSUME EngineInv, [Next]_vars, pc \in {"preExpire", "ingest"}, MaxTraces = 0,
             NEW id \in Incoming, index[id] # Nil
      PROVE  index'[id] = index[id]
  <2>1. index \in [TraceIDs -> Refs \cup {Nil}] /\ rest \in Seq(Spans)
    BY <1>1 DEF EngineInv, WellFormed, OtherTypes, Refs
  <2>2. id \in TraceIDs
    <3>1. PICK i \in DOMAIN rest : id = rest[i].tid
      BY DEF Incoming
    <3>2. rest[i] \in Spans
      BY <2>1, <3>1, ElementOfSeq, LenProperties
    <3> QED
      BY <3>1, <3>2 DEF Spans
  <2>3. CASE QuietStep \/ UNCHANGED vars
    BY <2>3, QuietMoves
  <2>4. CASE ExpireDrop
    <3>1. index' = [index EXCEPT ![heap[AtCursor].id] = Nil] /\ ~Skipped(AtCursor)
      BY <2>4 DEF ExpireDrop, RemoveLocked
    <3>2. pc = "preExpire"
      BY <1>1, <2>4 DEF ExpireDrop, Expiring
    <3>3. heap[AtCursor].id # id
      BY <3>1, <3>2 DEF Skipped
    <3> QED
      BY <2>1, <2>2, <3>1, <3>3
  <2>5. CASE IngestSpan /\ IngestNew
    BY <1>1, <2>1, <2>2, <2>5 DEF IngestNew
  <2>6. CASE IngestSpan /\ (IngestKnown \/ IngestDropping)
    BY <2>6 DEF IngestKnown, IngestDropping, buffer
  <2>7. CASE IngestSpan /\ IngestEvicting
    BY <1>1, <2>7 DEF IngestEvicting, AtCapacity
  <2>8. CASE DecideTouched \/ DrainDecide
    BY <1>1, <2>8 DEF DecideTouched, DrainDecide
  <2> QED
    BY <1>1, <2>3, <2>4, <2>5, <2>6, <2>7, <2>8, StepKinds
<1>2. EngineInv /\ [Next]_vars
        => ((pc \in {"preExpire", "ingest"} /\ MaxTraces = 0)
              => \A id \in Incoming : index[id] # Nil => index'[id] = index[id])
  BY <1>1
<1> QED
  BY <1>2, EngineInvariant, PTL DEF Spec, LateSpanFindsTrace

\* While Shutdown evaluates without an error, a buffered trace is undecided or
\* still to be evaluated; what it then drops, from the front, is undecided.
ShutdownReachesAll ==
  /\ pc = "drain" /\ ~failed => \A r \in Range(order) : Pending(r) \/ r \in draining
  /\ pc = "force" => cursor = 1 /\ \A r \in Range(order) : Pending(r)

LEMMA ShutdownReachesAllStep ==
  ASSUME EngineInv, ShutdownReachesAll, [Next]_vars
  PROVE  ShutdownReachesAll'
<1>1. CASE QuietStep \/ UNCHANGED vars
  <2>1. UNCHANGED <<heap, index, order>>
    BY <1>1, QuietMoves
  <2>2. CASE UNCHANGED <<gen, rest, pc, now, cursor, draining, failed>>
    BY <2>1, <2>2 DEF ShutdownReachesAll, Pending
  <2>3. CASE DrainBegin
    <3>1. /\ \A r \in Range(order) : r \in Refs /\ index[heap[r].id] = r
          /\ heap \in Seq(Traces)
      BY BufferedInOrder DEF Buffered, EngineInv, WellFormed
    <3>2. \A r \in Range(order) : r # Nil /\ heap[r].id \in TraceIDs
      BY <3>1, HeapElements DEF Refs
    <3>3. pc' = "drain" /\ draining' = {index[id] : id \in TraceIDs} \ {Nil}
      BY <2>3 DEF DrainBegin
    <3>4. \A r \in Range(order) : r \in draining'
      BY <3>1, <3>2, <3>3
    <3> QED
      BY <2>1, <3>3, <3>4 DEF ShutdownReachesAll
  <2>4. CASE DrainForce
    BY <2>1, <2>4 DEF DrainForce, ShutdownReachesAll, Pending
  <2>5. CASE ExpireKeep
    <3>1. pc = "force" => AtCursor \in Range(order) /\ ~Pending(AtCursor)
      BY <2>5, CursorInOrder DEF ExpireKeep, Skipped
    <3>2. pc' = pc /\ pc # "force" /\ pc # "drain"
      BY <2>5, <3>1 DEF ExpireKeep, ShutdownReachesAll, Expiring
    <3> QED
      BY <3>2 DEF ShutdownReachesAll
  <2>6. CASE Moves /\ ~DrainBegin /\ ~DrainForce /\ ~ExpireKeep
    <3>1. pc' \notin {"drain", "force"}
      BY <2>6 DEF Moves, ConsumeBegin, BeginConsume, BeginGeneration, EndIngest, EndDecide,
                  ConsumeEnd, TickBegin, TickEnd, ShutdownFails, ShutdownEnd
    <3> QED
      BY <3>1 DEF ShutdownReachesAll
  <2> QED
    BY <1>1, <2>2, <2>3, <2>4, <2>5, <2>6, QuietMoves
<1>2. CASE ExpireDrop
  <2>1. pc' = pc /\ cursor' = cursor /\ pc # "drain"
    BY <1>2 DEF ExpireDrop, sectionVars, Expiring
  <2>2. \A q \in Range(order') : q \in Range(order) /\ q # AtCursor /\ heap'[q] = heap[q]
    BY <1>2, ExpireDropEffect, BufferedInOrder
  <2> QED
    BY <2>1, <2>2 DEF ShutdownReachesAll, Pending
<1>3. CASE IngestSpan \/ DecideTouched
  <2>1. pc' \notin {"drain", "force"}
    BY <1>3 DEF IngestSpan, sectionVars, DecideTouched
  <2> QED
    BY <2>1 DEF ShutdownReachesAll
<1>4. CASE DrainDecide
  <2>1. pc = "drain" /\ pc' = "drain" /\ draining \subseteq Range(order)
    BY <1>4 DEF DrainDecide, EngineInv, LoopInvariant
  <2>2. PICK r \in draining : DecideLocked(r) /\ draining' = draining \ {r}
    BY <1>4 DEF DrainDecide
  <2>3. r \in Refs /\ (heap[r].decision = "Sampled" => Buffered(r))
    BY <2>1, BufferedInOrder
  <2>4. CASE Forwards(r) /\ Forward(r)
    <3>1. failed' = failed
      BY <2>4 DEF Forward
    <3>2. \A q \in Range(order') : q \in Refs => q # r /\ q \in Range(order) /\ (Pending(q)' <=> Pending(q))
      BY <2>4 DEF Forwards, OthersKeep, Keeps, Pending
    <3>3. Range(order') \subseteq Refs
      <4>1. order' = Unlink(order, r) /\ order \in Seq(Refs) /\ Increasing(order) /\ Refs \in SUBSET Nat
        BY <2>4, BufferedInOrder DEF Forward, RemoveLocked, EngineInv, WellFormed, Refs
      <4> QED
        BY <4>1, BufferedInOrder, UnlinkProperties
    <3> QED
      BY <2>1, <2>2, <3>1, <3>2, <3>3 DEF ShutdownReachesAll
  <2>5. CASE Hold(r)
    BY <2>1, <2>5 DEF Hold, ShutdownReachesAll
  <2>6. CASE LeaveUndecided(r)
    <3>1. UNCHANGED <<heap, order, failed>>
      BY <2>6 DEF LeaveUndecided, buffer
    <3>2. heap[r].decision = "Pending"
      BY <2>1, <2>3, <2>6, DecisionKnown DEF LeaveUndecided, WantsForward, EngineInv, LoopInvariant
    <3> QED
      BY <2>1, <2>2, <3>1, <3>2 DEF ShutdownReachesAll, Pending
  <2> QED
    BY <2>2, <2>3, <2>4, <2>5, <2>6, DecideOutcome
<1> QED
  BY <1>1, <1>2, <1>3, <1>4, StepKinds

\* A Shutdown whose evaluation met no sink error leaves an empty buffer, and the
\* evaluation itself drops nothing (ShutdownDrains).
THEOREM ShutdownLeavesNothing == Spec => ShutdownDrains
<1>1. Init => ShutdownReachesAll
  BY DEF Init, ShutdownReachesAll
<1>2. EngineInv /\ ShutdownReachesAll /\ [Next]_vars => ShutdownReachesAll'
  BY ShutdownReachesAllStep
<1>3. ASSUME EngineInv, ShutdownReachesAll, [Next]_vars, pc = "force", pc' = "free"
      PROVE  order' = <<>>
  <2>1. ShutdownEnd
    BY <1>3, StepKinds DEF QuietStep, ConsumeBegin, BeginConsume, BeginGeneration, EndIngest,
         EndDecide, ConsumeEnd, ExpireKeep, ExpireDrop, IngestSpan, DecideTouched, DrainDecide,
         Start, TickerFires, TickerStops, TickBegin, TickEnd, ShutdownBegin,
         ShutdownTickerDone, ShutdownCancelled, DrainBegin, DrainForce, ShutdownFails,
         ClockAdvances, batchVars, sectionVars, vars
  <2>2. cursor > Len(order) /\ order' = order
    BY <1>3, <2>1 DEF ShutdownEnd, WalkOver, Forced, buffer
  <2>3. order \in Seq(Refs) /\ cursor = 1
    BY <1>3 DEF EngineInv, WellFormed, Refs, ShutdownReachesAll
  <2> QED
    BY <2>2, <2>3, LenProperties, EmptySeq
<1>4. ASSUME EngineInv, [Next]_vars, pc = "drain"
      PROVE  stats'.notSampled = stats.notSampled
  <2>1. CASE QuietStep \/ UNCHANGED vars
    BY <2>1, QuietMoves
  <2>2. CASE ExpireDrop \/ IngestSpan \/ DecideTouched
    BY <1>4, <2>2 DEF ExpireDrop, Expiring, IngestSpan, DecideTouched
  <2>3. CASE DrainDecide
    <3>1. PICK r \in Refs : DecideLocked(r) /\ (heap[r].decision = "Sampled" => Buffered(r))
      BY <1>4, <2>3, DrainedTrace
    <3>2. \E n : Counts(0, n)
      BY <1>4, <3>1, DecideOutcome DEF Forwards, Holds, DecidesNothing
    <3> QED
      BY <1>4, <3>2, CountersAreNat DEF Counts
  <2> QED
    BY <1>4, <2>1, <2>2, <2>3, StepKinds
<1>5. EngineInv /\ ShutdownReachesAll /\ [Next]_vars
        => /\ (pc = "force" /\ pc' = "free") => order' = <<>>
           /\ pc = "drain" => stats'.notSampled = stats.notSampled
  BY <1>3, <1>4
<1> QED
  BY <1>1, <1>2, <1>5, EngineInvariant, PTL DEF Spec, ShutdownDrains

\* While a batch is decided and no sink error was met, what is held of this
\* generation is still to be decided: it waits from an earlier batch.
HeldIsListed ==
  pc \in {"decide", "postExpire"} /\ ~failed =>
    \A r \in Refs : heap[r].touchedGen = gen /\ heap[r].decision = "Sampled" /\ r \in Range(order)
                     => r \in Range(touched)

LEMMA HeldIsListedStep ==
  ASSUME EngineInv, MarksAreListed, HeldIsListed, [Next]_vars
  PROVE  HeldIsListed'
<1>1. CASE QuietStep \/ UNCHANGED vars
  <2>1. UNCHANGED <<heap, order, touched>>
    BY <1>1, QuietMoves
  <2>2. CASE UNCHANGED <<gen, rest, pc, now, cursor, draining, failed>>
    BY <2>1, <2>2 DEF HeldIsListed, Refs
  <2>3. CASE EndIngest
    BY <2>1, <2>3 DEF EndIngest, batchVars, HeldIsListed, MarksAreListed, Refs
  <2>4. CASE EndDecide \/ ExpireKeep
    BY <2>1, <2>4 DEF EndDecide, ExpireKeep, batchVars, HeldIsListed, Refs
  <2>5. CASE Moves /\ ~EndIngest /\ ~EndDecide /\ ~ExpireKeep
    <3>1. pc' \notin {"decide", "postExpire"}
      BY <2>5 DEF Moves, ConsumeBegin, BeginConsume, BeginGeneration, ConsumeEnd, TickBegin,
                  TickEnd, DrainBegin, DrainForce, ShutdownFails, ShutdownEnd
    <3> QED
      BY <3>1 DEF HeldIsListed
  <2> QED
    BY <1>1, <2>2, <2>3, <2>4, <2>5, QuietMoves
<1>2. CASE ExpireDrop
  <2>1. UNCHANGED <<pc, gen, failed, touched>>
    BY <1>2 DEF ExpireDrop, sectionVars, batchVars
  <2>2. \A q \in Refs' : q \in Range(order') =>
           q \in Refs /\ q \in Range(order) /\ heap'[q] = heap[q]
    BY <1>2, ExpireDropEffect
  <2> QED
    BY <2>1, <2>2 DEF HeldIsListed
<1>3. CASE IngestSpan \/ DrainDecide
  <2>1. pc' \notin {"decide", "postExpire"}
    BY <1>3 DEF IngestSpan, sectionVars, DrainDecide
  <2> QED
    BY <2>1 DEF HeldIsListed
<1>4. CASE DecideTouched
  <2> DEFINE r == Head(touched)
  <2>1. /\ r \in Refs /\ DecideLocked(r) /\ (heap[r].decision = "Sampled" => Buffered(r))
        /\ Range(touched') = Range(touched) \ {r}
    BY <1>4, TouchedHead
  <2>2. pc = "decide" /\ pc' = pc /\ gen' = gen
    BY <1>4 DEF DecideTouched
  <2> HIDE DEF r
  <2>3. /\ Refs' = Refs /\ \A q \in Refs : q # r => heap'[q] = heap[q]
    BY <2>1, DecideStep
  <2>4. CASE Forwards(r) /\ Forward(r)
    <3>1. failed' = failed /\ r \notin Range(order')
      BY <2>4 DEF Forward, Forwards
    <3>2. \A q \in Refs : q # r => (q \in Range(order') <=> q \in Range(order))
      BY <2>4 DEF Forwards, OthersKeep, Keeps
    <3> QED
      BY <2>1, <2>2, <2>3, <3>1, <3>2 DEF HeldIsListed
  <2>5. CASE Hold(r)
    BY <2>5 DEF Hold, HeldIsListed
  <2>6. CASE LeaveUndecided(r)
    <3>1. UNCHANGED <<heap, order, failed>> /\ heap[r].decision # "Sampled"
      BY <2>6 DEF LeaveUndecided, WantsForward, buffer
    <3> QED
      BY <2>1, <2>2, <2>3, <3>1 DEF HeldIsListed
  <2> QED
    BY <2>1, <2>4, <2>5, <2>6, DecideOutcome
<1> QED
  BY <1>1, <1>2, <1>3, <1>4, StepKinds

\* The steps that end a batch or a tick are the ones that say so.
LEMMA SectionEnds ==
  ASSUME [Next]_vars, pc \in {"postExpire", "tick"}, pc' = "free"
  PROVE  UNCHANGED <<heap, index, order>> /\ WalkOver
  BY StepKinds DEF QuietStep, ConsumeBegin, BeginConsume, BeginGeneration, EndIngest,
       EndDecide, ConsumeEnd, ExpireKeep, ExpireDrop, IngestSpan, DecideTouched, DrainDecide,
       Start, TickerFires, TickerStops, TickBegin, TickEnd, ShutdownBegin,
       ShutdownTickerDone, ShutdownCancelled, DrainBegin, DrainForce, ShutdownFails,
       ShutdownEnd, ClockAdvances, buffer, batchVars, sectionVars, vars

\* A Consume that returns nil leaves no trace of its batch held for a retry,
\* also not one that an earlier batch had left so (ConsumeReportsHeld).
THEOREM NilMeansNoneHeld == Spec => ConsumeReportsHeld
<1>1. Init => MarksAreListed /\ HeldIsListed
  BY DEF Init, Refs, MarksAreListed, HeldIsListed
<1>2. EngineInv /\ MarksAreListed /\ HeldIsListed /\ [Next]_vars
        => MarksAreListed' /\ HeldIsListed'
  BY MarksStep, HeldIsListedStep
<1>3. ASSUME EngineInv, HeldIsListed, pc = "postExpire", ~failed,
             NEW r \in Refs, heap[r].touchedGen = gen
      PROVE  ~Held(r)
  <2>1. touched = <<>>
    BY <1>3 DEF EngineInv, LoopInvariant
  <2>2. Range(touched) = {}
    BY <2>1 DEF Range
  <2> QED
    BY <1>3, <2>2, BufferedInOrder DEF HeldIsListed, Held
<1>4. EngineInv /\ HeldIsListed
        => ((pc = "postExpire" /\ pc' = "free" /\ ~failed)
              => \A r \in Refs : heap[r].touchedGen = gen => ~Held(r))
  BY <1>3
<1> QED
  BY <1>1, <1>2, <1>4, EngineInvariant, PTL DEF Spec, ConsumeReportsHeld

\* Traces arrive in the order of the list, at a reading of the clock that no
\* section goes back behind.
ArrivalsInOrder ==
  /\ \A q, r \in Refs : q <= r => heap[q].arrived <= heap[r].arrived
  /\ \A r \in Refs : heap[r].arrived <= now

\* Readings of the clock are numbers.
LEMMA TimesAreNat ==
  ASSUME EngineInv
  PROVE  /\ now \in Nat /\ clock \in Nat /\ now <= clock
         /\ \A q \in Refs : heap[q].arrived \in Nat
<1>1. heap \in Seq(Traces) /\ now \in 0..clock /\ clock \in 0..MaxTime
  BY DEF EngineInv, WellFormed, OtherTypes
<1>2. \A q \in Refs : heap[q] \in Traces
  BY <1>1, HeapElements DEF Refs
<1>3. \A t \in Traces : t.arrived \in Nat
  BY DEF Traces
<1> QED
  BY <1>1, <1>2, <1>3, BoundsAssumption

LEMMA ArrivalsInOrderStep ==
  ASSUME EngineInv, ArrivalsInOrder, [Next]_vars
  PROVE  ArrivalsInOrder'
<1>1. /\ Refs = 1..Len(heap) /\ Len(heap) \in Nat /\ now \in Nat
      /\ \A q \in Refs : heap[q].arrived \in Nat
  BY BufferedInOrder, TimesAreNat
<1>2. now' \in Nat /\ now <= now'
  <2>1. now' = now \/ now' = clock
    BY StepKinds DEF QuietStep, ConsumeBegin, BeginConsume, BeginGeneration, EndIngest,
       EndDecide, ConsumeEnd, ExpireKeep, ExpireDrop, IngestSpan, DecideTouched, DrainDecide,
       Start, TickerFires, TickerStops, TickBegin, TickEnd, ShutdownBegin,
       ShutdownTickerDone, ShutdownCancelled, DrainBegin, DrainForce, ShutdownFails,
       ShutdownEnd, ClockAdvances, sectionVars, vars
  <2> QED
    BY <2>1, TimesAreNat
<1>3. ASSUME Refs' = Refs, \A q \in Refs : heap'[q].arrived = heap[q].arrived
      PROVE  ArrivalsInOrder'
  BY <1>1, <1>2, <1>3 DEF ArrivalsInOrder
<1>4. ASSUME NEW r, Joins(r), \A q \in Refs : heap'[q].arrived = heap[q].arrived
      PROVE  ArrivalsInOrder'
  <2>1. r = Len(heap) + 1 /\ Refs' = Refs \cup {r} /\ heap'[r].arrived = now
    BY <1>4 DEF Joins
  <2>2. \A q \in Refs : heap[q].arrived <= now /\ q < r
    BY <1>1, <2>1 DEF ArrivalsInOrder
  <2>3. \A q \in Refs' : heap'[q].arrived \in Nat /\ heap'[q].arrived <= now'
    BY <1>1, <1>2, <1>4, <2>1, <2>2
  <2>4. ASSUME NEW p \in Refs', NEW q \in Refs', p <= q
        PROVE  heap'[p].arrived <= heap'[q].arrived
    <3>1. CASE p \in Refs /\ q \in Refs
      BY <1>4, <2>4, <3>1 DEF ArrivalsInOrder
    <3>2. CASE q = r
      BY <1>1, <1>4, <2>1, <2>2, <3>2
    <3>3. CASE p = r /\ q \in Refs
      BY <1>1, <2>1, <2>2, <2>4, <3>3
    <3> QED
      BY <2>1, <3>1, <3>2, <3>3
  <2> QED
    BY <2>3, <2>4 DEF ArrivalsInOrder
<1>5. ASSUME NEW r \in Refs, Drops(r) \/ Holds(r) \/ Forwards(r)
      PROVE  ArrivalsInOrder'
  BY <1>3, <1>5 DEF Drops, Holds, Forwards, OthersKeep, Keeps
<1>6. CASE DecidesNothing
  BY <1>3, <1>6 DEF DecidesNothing, Keeps
<1>7. ASSUME NEW r \in Refs', Admits(r) \/ \E v \in Refs : Replaces(v, r)
      PROVE  ArrivalsInOrder'
  BY <1>4, <1>7 DEF Admits, Replaces, OthersKeep, Keeps
<1> QED
  BY <1>5, <1>6, <1>7, StepOutcomes DEF StepOutcome

\* The walk leaves nothing undecided behind its cursor.
WalkedPast ==
  pc \in {"postExpire", "tick"} =>
    \A i \in DOMAIN order : i < cursor => ~Pending(order[i])

LEMMA WalkedPastStep ==
  ASSUME EngineInv, WalkedPast, [Next]_vars
  PROVE  WalkedPast'
<1>1. order \in Seq(Refs) /\ Len(order) \in Nat /\ DOMAIN order = 1..Len(order)
  BY LenProperties DEF EngineInv, WellFormed, Refs
<1>2. CASE QuietStep \/ UNCHANGED vars
  <2>1. UNCHANGED <<heap, order>>
    BY <1>2, QuietMoves
  <2>2. CASE UNCHANGED <<gen, rest, pc, now, cursor, draining, failed>>
    BY <2>1, <2>2 DEF WalkedPast, Pending
  <2>3. CASE EndDecide \/ TickBegin
    <3>1. cursor' = 1
      BY <2>3 DEF EndDecide, TickBegin
    <3>2. \A i \in DOMAIN order : ~(i < 1)
      BY <1>1
    <3> QED
      BY <2>1, <3>1, <3>2 DEF WalkedPast
  <2>4. CASE ExpireKeep
    <3>1. /\ cursor' = cursor + 1 /\ pc' = pc /\ cursor \in 1..Len(order)
          /\ pc # "preExpire" => ~Pending(order[cursor])
      BY <2>4, CursorInOrder DEF ExpireKeep, Skipped, AtCursor
    <3>2. \A i \in DOMAIN order : i < cursor + 1 => i < cursor \/ i = cursor
      BY <1>1, <3>1
    <3> QED
      BY <2>1, <3>1, <3>2 DEF WalkedPast, Pending
  <2>5. CASE Moves /\ ~EndDecide /\ ~TickBegin /\ ~ExpireKeep
    <3>1. pc' \notin {"postExpire", "tick"}
      BY <2>5 DEF Moves, ConsumeBegin, BeginConsume, BeginGeneration, EndIngest, ConsumeEnd,
                  TickEnd, DrainBegin, DrainForce, ShutdownFails, ShutdownEnd
    <3> QED
      BY <3>1 DEF WalkedPast
  <2> QED
    BY <1>2, <2>2, <2>3, <2>4, <2>5, QuietMoves
<1>3. CASE ExpireDrop
  <2>1. /\ UNCHANGED <<pc, cursor>> /\ order' = Unlink(order, order[cursor])
        /\ cursor \in 1..Len(order) /\ AtCursor = order[cursor]
    BY <1>3, CursorInOrder DEF ExpireDrop, sectionVars, RemoveLocked, AtCursor
  <2>2. Increasing(order) /\ Refs \in SUBSET Nat
    BY BufferedInOrder DEF EngineInv, WellFormed
  <2>3. /\ order' \in Seq(Nat) /\ Len(order') = Len(order) - 1
        /\ Without(order', order, cursor, Len(order))
    BY <1>1, <2>1, <2>2, UnlinkAt
  <2>4. DOMAIN order' = 1..(Len(order) - 1)
    BY <2>3, LenProperties
  <2>5. \A i \in DOMAIN order' : i < cursor => i \in DOMAIN order /\ order'[i] = order[i]
    BY <1>1, <2>3, <2>4 DEF Without
  <2>6. \A i \in DOMAIN order : order[i] \in Refs
    BY <1>1, ElementOfSeq
  <2>7. \A q \in Refs : Pending(q)' => Pending(q)
    BY <1>3, ExpireDropEffect DEF Pending
  <2> QED
    BY <2>1, <2>5, <2>6, <2>7 DEF WalkedPast, Pending
<1>4. CASE IngestSpan \/ DecideTouched \/ DrainDecide
  <2>1. pc' \notin {"postExpire", "tick"}
    BY <1>4 DEF IngestSpan, sectionVars, DecideTouched, DrainDecide
  <2> QED
    BY <2>1 DEF WalkedPast
<1> QED
  BY <1>2, <1>3, <1>4, StepKinds

\* A pass that stops at the first trace that is not due has missed none: traces
\* wait in the order of their deadlines (ExpiryComplete).
THEOREM PassLeavesNoneOverdue == Spec => ExpiryComplete
<1>1. Init => ArrivalsInOrder /\ WalkedPast
  BY DEF Init, Refs, ArrivalsInOrder, WalkedPast
<1>2. EngineInv /\ ArrivalsInOrder /\ WalkedPast /\ [Next]_vars
        => ArrivalsInOrder' /\ WalkedPast'
  BY ArrivalsInOrderStep, WalkedPastStep
<1>3. ASSUME EngineInv, ArrivalsInOrder, WalkedPast, [Next]_vars,
             pc \in {"postExpire", "tick"}, pc' = "free", DecisionWait > 0,
             NEW r \in Refs, Pending(r)
      PROVE  ~Due(heap[r])
  <2>1. WalkOver /\ ~Forced
    BY <1>3, SectionEnds DEF Forced
  <2>2. /\ order \in Seq(Refs) /\ Len(order) \in Nat /\ DOMAIN order = 1..Len(order)
        /\ Increasing(order) /\ cursor \in 1..(Len(order) + 1)
    BY <1>3, LenProperties DEF EngineInv, WellFormed, OtherTypes, Refs
  <2>3. PICK j \in 1..Len(order) : r = order[j]
    BY <1>3, <2>2, BufferedInOrder DEF Range
  <2>4. cursor <= j
    BY <1>3, <2>2, <2>3 DEF WalkedPast
  <2>5. cursor \in DOMAIN order /\ ~Due(heap[order[cursor]])
    BY <1>3, <2>1, <2>2, <2>3, <2>4, CapsAssumption DEF WalkOver, AtCursor
  <2>6. order[cursor] \in Refs /\ order[cursor] <= r
    <3>1. order[cursor] \in Refs /\ order[cursor] \in Nat /\ r \in Nat
      BY <1>3, <2>2, <2>5, ElementOfSeq, BufferedInOrder
    <3>2. cursor = j \/ order[cursor] < order[j]
      BY <2>2, <2>3, <2>4, <2>5 DEF Increasing
    <3> QED
      BY <2>3, <3>1, <3>2
  <2>7. heap[order[cursor]].arrived <= heap[r].arrived
    BY <1>3, <2>6 DEF ArrivalsInOrder
  <2>8. heap[order[cursor]].arrived \in Nat /\ heap[r].arrived \in Nat /\ now \in Nat
    BY <1>3, <2>6, TimesAreNat
  <2> QED
    BY <2>5, <2>7, <2>8, CapsAssumption DEF Due
<1>4. EngineInv /\ ArrivalsInOrder /\ WalkedPast /\ [Next]_vars
        => ((pc \in {"postExpire", "tick"} /\ pc' = "free" /\ DecisionWait > 0)
              => \A r \in Refs : Pending(r) => ~Due(heap[r]))
  BY <1>3
<1> QED
  BY <1>1, <1>2, <1>4, EngineInvariant, PTL DEF Spec, ExpiryComplete

-----------------------------------------------------------------------------
(* The abstract sampler.                                                   *)

Fates == {"pending", "dropped", "held", "forwarded"}
FateOfAll == [r \in Refs |-> FateOf(r)]

\* A sequence that is another one with an element more.
LEMMA AppendIs ==
  ASSUME NEW S, NEW f \in Seq(S), NEW g \in Seq(S), Len(g) = Len(f) + 1,
         \A i \in 1..Len(f) : g[i] = f[i], NEW x \in S, g[Len(f) + 1] = x
  PROVE  g = Append(f, x)
<1>1. /\ Append(f, x) \in Seq(S) /\ Len(Append(f, x)) = Len(f) + 1
      /\ \A i \in 1..Len(f) : Append(f, x)[i] = f[i]
      /\ Append(f, x)[Len(f) + 1] = x
  BY AppendProperties
<1>2. Len(f) \in Nat
  BY LenProperties
<1>3. \A i \in 1..(Len(f) + 1) : i \in 1..Len(f) \/ i = Len(f) + 1
  BY <1>2
<1>4. \A i \in 1..Len(g) : g[i] = Append(f, x)[i]
  BY <1>1, <1>3
<1> QED
  BY <1>1, <1>4, SeqEqual

\* The fate of a trace, from its decision and the arrival list.
FateIn(d, buffered) ==
  CASE d = "Pending" -> "pending"
    [] d = "NotSampled" -> "dropped"
    [] d = "Sampled" /\ buffered -> "held"
    [] OTHER -> "forwarded"

LEMMA FatesKnown ==
  /\ EngineInv  => \A r \in Refs : FateOf(r) = FateIn(heap[r].decision, r \in Range(order))
  /\ EngineInv' => \A r \in Refs' : FateOf(r)' = FateIn(heap'[r].decision, r \in Range(order'))
<1>1. EngineInv => \A r \in Refs : Buffered(r) <=> r \in Range(order)
  BY DEF EngineInv, WellFormed, Buffered, Refs
<1>2. EngineInv' => \A r \in Refs' : Buffered(r)' <=> r \in Range(order')
  BY DEF EngineInv, WellFormed, Buffered, Refs
<1> QED
  BY <1>1, <1>2 DEF FateOf, FateIn, Pending, Held

\* The fates are a sequence as long as the heap, before and after a step.
LEMMA FatesTyped ==
  ASSUME EngineInv, EngineInv'
  PROVE  /\ FateOfAll \in Seq(Fates) /\ Len(FateOfAll) = Len(heap)
         /\ FateOfAll' \in Seq(Fates) /\ Len(FateOfAll') = Len(heap')
         /\ DOMAIN FateOfAll = Refs /\ DOMAIN FateOfAll' = Refs'
         /\ Refs = 1..Len(heap) /\ Refs' = 1..Len(heap')
         /\ Len(heap) \in Nat /\ Len(heap') \in Nat
<1>1. heap \in Seq(Traces) /\ heap' \in Seq(Traces)
  BY DEF EngineInv, WellFormed
<1>2. /\ Refs = 1..Len(heap) /\ Refs' = 1..Len(heap')
      /\ Len(heap) \in Nat /\ Len(heap') \in Nat
  BY <1>1, HeapElements DEF Refs
<1>3. \A d, b : FateIn(d, b) \in Fates
  BY DEF FateIn, Fates
<1>4. FateOfAll \in [1..Len(heap) -> Fates]
  BY <1>2, <1>3, FatesKnown DEF FateOfAll
<1>5. FateOfAll' \in [1..Len(heap') -> Fates]
  BY <1>2, <1>3, FatesKnown DEF FateOfAll
<1>6. \A n \in Nat : \A f \in [1..n -> Fates] : f \in Seq(Fates) /\ Len(f) = n
  OBVIOUS
<1> QED
  BY <1>2, <1>4, <1>5, <1>6

\* The abstract buffer is the arrival list, so that both count the same.
LEMMA BufferCount ==
  ASSUME EngineInv
  PROVE  /\ {i \in Refs : FateOf(i) \in {"pending", "held"}} = Range(order)
         /\ Cardinality(Range(order)) = Len(order)
<1>1. /\ order \in Seq(Refs) /\ Increasing(order)
      /\ Refs \in SUBSET Nat /\ Range(order) \subseteq Refs
      /\ \A r \in Refs : Pending(r) => r \in Range(order)
      /\ \A r \in Range(order) : heap[r].decision # "NotSampled"
  BY BufferedInOrder DEF EngineInv, WellFormed, Refs
<1>2. \A r \in Refs : heap[r].decision \in Decisions
  BY HeapElements DEF EngineInv, WellFormed, Refs, Traces
<1>3. ASSUME NEW r \in Refs
      PROVE  FateOf(r) \in {"pending", "held"} <=> r \in Range(order)
  <2>1. FateOf(r) = FateIn(heap[r].decision, r \in Range(order))
    BY FatesKnown
  <2> QED
    BY <1>1, <1>2, <2>1 DEF FateIn, Pending, Decisions
<1>4. /\ Len(order) \in Nat /\ DOMAIN order = 1..Len(order)
      /\ order \in [1..Len(order) -> Range(order)]
  BY <1>1, LenProperties DEF Range
<1>5. IsInjective(order)
  <2> SUFFICES ASSUME NEW i \in DOMAIN order, NEW j \in DOMAIN order, order[i] = order[j]
               PROVE  i = j
    BY DEF IsInjective
  <2>1. i \in Int /\ j \in Int /\ order[i] \in Refs
    BY <1>1, <1>4
  <2>2. \A x \in Nat : ~(x < x)
    OBVIOUS
  <2>3. ~(order[i] < order[j]) /\ ~(order[j] < order[i])
    <3>1. order[i] \in Nat
      BY <1>1, <2>1
    <3> QED
      BY <2>2, <3>1
  <2> QED
    BY <1>1, <2>1, <2>3 DEF Increasing
<1>6. order \in Bijection(1..Len(order), Range(order))
  BY <1>4, <1>5 DEF Bijection, Injection, Surjection, Range
<1>7. IsFiniteSet(1..Len(order)) /\ Cardinality(1..Len(order)) = Len(order)
  BY <1>4, FS_Interval
<1>8. Cardinality(Range(order)) = Len(order)
  BY <1>6, <1>7, FS_Bijection DEF ExistsBijection
<1> QED
  BY <1>1, <1>3, <1>8

\* The cap is met in the engine exactly when it is in the abstract sampler.
LEMMA SameCap == EngineInv => (AtCapacity <=> Abstract!Full)
<1> SUFFICES ASSUME EngineInv PROVE AtCapacity <=> Abstract!Full
  OBVIOUS
<1>1. Abstract!InBuffer = {i \in Refs : FateOf(i) \in {"pending", "held"}}
  BY DEF Abstract!InBuffer
<1>2. Cardinality(Abstract!InBuffer) = Len(order)
  BY <1>1, BufferCount
<1>3. Abstract!Cardinality(Abstract!InBuffer) = Cardinality(Abstract!InBuffer)
  BY Zenon DEF Abstract!Cardinality, Cardinality
<1> QED
  BY <1>2, <1>3 DEF AtCapacity, Abstract!Full

\* The head of the pending list is the oldest pending trace.
LEMMA HeadIsOldest ==
  ASSUME EngineInv, OldestPending \in Range(pendingOrder)
  PROVE  /\ OldestPending \in Refs /\ Pending(OldestPending)
         /\ \A q \in Refs : q < OldestPending => ~Pending(q)
<1>1. /\ pendingOrder \in Seq(Refs) /\ Increasing(pendingOrder) /\ Refs \in SUBSET Nat
      /\ Range(pendingOrder) \subseteq Refs
      /\ \A r \in Refs : Pending(r) <=> r \in Range(pendingOrder)
  BY BufferedInOrder DEF EngineInv, WellFormed, Refs
<1>2. /\ DOMAIN pendingOrder = 1..Len(pendingOrder) /\ Len(pendingOrder) \in Nat
      /\ OldestPending = pendingOrder[1]
  BY <1>1, LenProperties DEF OldestPending
<1>3. ASSUME NEW q \in Range(pendingOrder)
      PROVE  ~(q < OldestPending)
  <2>1. PICK i \in 1..Len(pendingOrder) : q = pendingOrder[i]
    BY <1>2 DEF Range
  <2>2. q \in Nat /\ OldestPending \in Nat
    BY <1>1
  <2>3. i = 1 \/ 1 < i
    OBVIOUS
  <2>4. 1 < i => OldestPending < q
    BY <1>1, <1>2, <2>1 DEF Increasing
  <2> QED
    BY <1>2, <2>1, <2>2, <2>3, <2>4
<1> QED
  BY <1>1, <1>3

\* A trace that is kept keeps its fate; a fate is determined by the decision
\* and the place in the arrival list.
LEMMA FatesMove ==
  ASSUME EngineInv, EngineInv'
  PROVE  /\ \A q \in Refs : FateOfAll[q] = FateIn(heap[q].decision, q \in Range(order))
         /\ \A q \in Refs' : FateOfAll'[q] = FateIn(heap'[q].decision, q \in Range(order'))
         /\ \A q \in Refs : q \in Refs' /\ Keeps(q) => FateOfAll'[q] = FateOfAll[q]
<1>1. \A q \in Refs : FateOfAll[q] = FateIn(heap[q].decision, q \in Range(order))
  BY FatesKnown DEF FateOfAll
<1>2. \A q \in Refs' : FateOfAll'[q] = FateIn(heap'[q].decision, q \in Range(order'))
  BY FatesKnown DEF FateOfAll
<1> QED
  BY <1>1, <1>2 DEF Keeps

\* One trace gets another fate.
LEMMA OneFateMoves ==
  ASSUME EngineInv, EngineInv', Refs' = Refs, NEW r \in Refs, OthersKeep(r),
         NEW x, FateOfAll'[r] = x
  PROVE  FateOfAll' = [FateOfAll EXCEPT ![r] = x]
<1>1. \A q \in Refs : q # r => FateOfAll'[q] = FateOfAll[q]
  BY FatesMove DEF OthersKeep
<1>2. FateOfAll = [q \in Refs |-> FateOfAll[q]] /\ FateOfAll' = [q \in Refs |-> FateOfAll'[q]]
  BY DEF FateOfAll
<1> HIDE DEF FateOfAll
<1> QED
  BY <1>1, <1>2

\* The steps of the abstract sampler, over the fates of the engine's traces.
LEMMA AbstractSteps ==
  /\ ~Abstract!Full /\ FateOfAll' = Append(FateOfAll, "pending") => Abstract!Next
  /\ \A r \in Refs :
       /\ FateOfAll[r] = "pending" /\ FateOfAll' = [FateOfAll EXCEPT ![r] = "dropped"]
            => Abstract!Next
       /\ FateOfAll[r] = "pending" /\ FateOfAll' = [FateOfAll EXCEPT ![r] = "held"]
            => Abstract!Next
       /\ FateOfAll[r] \in {"pending", "held"}
            /\ FateOfAll' = [FateOfAll EXCEPT ![r] = "forwarded"] => Abstract!Next
       /\ Abstract!Full /\ FateOfAll[r] = "pending"
            /\ (\A q \in 1..(r - 1) : FateOfAll[q] # "pending")
            /\ FateOfAll' = Append([FateOfAll EXCEPT ![r] = "dropped"], "pending")
            => Abstract!Next
<1>1. DOMAIN FateOfAll = Refs
  BY DEF FateOfAll
<1>2. /\ Abstract!Admit <=> ~Abstract!Full /\ FateOfAll' = Append(FateOfAll, "pending")
      /\ \A r : Abstract!Oldest(r) <=> /\ r \in DOMAIN FateOfAll /\ FateOfAll[r] = "pending"
                                       /\ \A q \in 1..(r - 1) : FateOfAll[q] # "pending"
  BY DEF Abstract!Admit, Abstract!Oldest, FateOfAll
<1>3. Abstract!Replace <=>
        /\ Abstract!Full
        /\ \E r \in DOMAIN FateOfAll :
             /\ Abstract!Oldest(r)
             /\ FateOfAll' = Append([FateOfAll EXCEPT ![r] = "dropped"], "pending")
  BY DEF Abstract!Replace, FateOfAll
<1>4. \A r :
        /\ Abstract!Drop(r) <=> /\ FateOfAll[r] = "pending"
                                /\ FateOfAll' = [FateOfAll EXCEPT ![r] = "dropped"]
        /\ Abstract!Hold(r) <=> /\ FateOfAll[r] = "pending"
                                /\ FateOfAll' = [FateOfAll EXCEPT ![r] = "held"]
        /\ Abstract!Forward(r) <=> /\ FateOfAll[r] \in {"pending", "held"}
                                   /\ FateOfAll' = [FateOfAll EXCEPT ![r] = "forwarded"]
  BY DEF Abstract!Drop, Abstract!Hold, Abstract!Forward, FateOfAll
<1>5. Abstract!Next <=>
        \/ Abstract!Admit \/ Abstract!Replace
        \/ \E r \in DOMAIN FateOfAll : Abstract!Drop(r) \/ Abstract!Hold(r) \/ Abstract!Forward(r)
  BY DEF Abstract!Next, FateOfAll
<1>6. ASSUME NEW r \in Refs, Abstract!Full, FateOfAll[r] = "pending",
             \A q \in 1..(r - 1) : FateOfAll[q] # "pending",
             FateOfAll' = Append([FateOfAll EXCEPT ![r] = "dropped"], "pending")
      PROVE  Abstract!Next
  BY <1>1, <1>2, <1>3, <1>5, <1>6, Zenon
<1>7. ASSUME NEW r \in Refs, Abstract!Drop(r) \/ Abstract!Hold(r) \/ Abstract!Forward(r)
      PROVE  Abstract!Next
  BY <1>1, <1>5, <1>7, Zenon
<1>8. ASSUME NEW r \in Refs, FateOfAll[r] = "pending",
             \/ FateOfAll' = [FateOfAll EXCEPT ![r] = "dropped"]
             \/ FateOfAll' = [FateOfAll EXCEPT ![r] = "held"]
      PROVE  Abstract!Next
  BY <1>4, <1>7, <1>8, Zenon
<1>9. ASSUME NEW r \in Refs, FateOfAll[r] \in {"pending", "held"},
             FateOfAll' = [FateOfAll EXCEPT ![r] = "forwarded"]
      PROVE  Abstract!Next
  BY <1>4, <1>7, <1>9, Zenon
<1>10. ~Abstract!Full /\ FateOfAll' = Append(FateOfAll, "pending") => Abstract!Next
  BY <1>2, <1>5, Zenon
<1> QED
  BY <1>6, <1>8, <1>9, <1>10, Zenon

\* A new trace extends the fates, the others' unchanged.
LEMMA FatesGrow ==
  ASSUME EngineInv, EngineInv', Refs' = Refs \cup {Len(heap) + 1},
         FateOfAll'[Len(heap) + 1] = "pending",
         \A q \in Refs : FateOfAll'[q] = FateOfAll[q]
  PROVE  FateOfAll' = Append(FateOfAll, "pending")
<1>1. /\ FateOfAll \in Seq(Fates) /\ Len(FateOfAll) = Len(heap)
      /\ FateOfAll' \in Seq(Fates) /\ Len(FateOfAll') = Len(heap')
      /\ Refs = 1..Len(heap) /\ Refs' = 1..Len(heap')
      /\ Len(heap) \in Nat /\ Len(heap') \in Nat
  BY FatesTyped
<1>2. Len(heap') = Len(heap) + 1
  BY <1>1, OneLonger
<1> DEFINE f == FateOfAll
           g == FateOfAll'
<1>3. /\ f \in Seq(Fates) /\ g \in Seq(Fates) /\ Len(g) = Len(f) + 1
      /\ g[Len(f) + 1] = "pending" /\ \A i \in 1..Len(f) : g[i] = f[i]
      /\ "pending" \in Fates
  BY <1>1, <1>2 DEF Fates
<1> HIDE DEF f, g
<1>4. g = Append(f, "pending")
  BY <1>3, AppendIs
<1> QED
  BY <1>4 DEF f, g

\* The same when another trace is dropped to make room.
LEMMA FatesGrowReplacing ==
  ASSUME EngineInv, EngineInv', Refs' = Refs \cup {Len(heap) + 1}, NEW v \in Refs,
         FateOfAll'[Len(heap) + 1] = "pending", FateOfAll'[v] = "dropped",
         \A q \in Refs : q # v => FateOfAll'[q] = FateOfAll[q]
  PROVE  FateOfAll' = Append([FateOfAll EXCEPT ![v] = "dropped"], "pending")
<1>1. /\ FateOfAll \in Seq(Fates) /\ Len(FateOfAll) = Len(heap)
      /\ FateOfAll' \in Seq(Fates) /\ Len(FateOfAll') = Len(heap')
      /\ Refs = 1..Len(heap) /\ Refs' = 1..Len(heap')
      /\ Len(heap) \in Nat /\ Len(heap') \in Nat
  BY FatesTyped
<1>2. Len(heap') = Len(heap) + 1
  BY <1>1, OneLonger
<1> DEFINE e == [FateOfAll EXCEPT ![v] = "dropped"]
           g == FateOfAll'
<1>3. /\ e \in Seq(Fates) /\ Len(e) = Len(heap) /\ e[v] = "dropped"
      /\ \A i \in 1..Len(heap) : i # v => e[i] = FateOfAll[i]
  <2>1. v \in 1..Len(FateOfAll) /\ "dropped" \in Fates
    BY <1>1 DEF Fates
  <2> HIDE DEF FateOfAll
  <2> QED
    BY <1>1, <2>1, ExceptSeq
<1>4. /\ g \in Seq(Fates) /\ Len(g) = Len(e) + 1
      /\ g[Len(e) + 1] = "pending" /\ \A i \in 1..Len(e) : g[i] = e[i]
      /\ "pending" \in Fates
  BY <1>1, <1>2, <1>3 DEF Fates
<1> HIDE DEF e, g
<1>5. g = Append(e, "pending")
  BY <1>3, <1>4, AppendIs
<1> QED
  BY <1>5 DEF e, g

\* Each outcome is a step of the abstract sampler or leaves all fates alone.
LEMMA FateStep ==
  ASSUME EngineInv, EngineInv', [Next]_vars
  PROVE  Abstract!Next \/ UNCHANGED FateOfAll
<1> USE DEF FateIn
<1>1. CASE DecidesNothing
  <2>1. \A q \in Refs : FateOfAll'[q] = FateOfAll[q]
    BY <1>1, FatesMove DEF DecidesNothing
  <2>2. FateOfAll' = FateOfAll
    BY <1>1, <2>1 DEF DecidesNothing, FateOfAll
  <2> QED
    BY <2>2
<1>2. ASSUME NEW r \in Refs, Drops(r)
      PROVE  Abstract!Next
  <2>1. FateOfAll[r] = "pending" /\ FateOfAll'[r] = "dropped"
    BY <1>2, FatesMove DEF Drops, Pending
  <2>2. FateOfAll' = [FateOfAll EXCEPT ![r] = "dropped"]
    BY <1>2, <2>1, OneFateMoves DEF Drops
  <2> QED
    BY <2>1, <2>2, AbstractSteps
<1>3. ASSUME NEW r \in Refs, Holds(r)
      PROVE  Abstract!Next \/ UNCHANGED FateOfAll
  <2>1. FateOfAll'[r] = "held" /\ (Pending(r) => FateOfAll[r] = "pending")
    BY <1>3, FatesMove DEF Holds, Pending
  <2>2. FateOfAll' = [FateOfAll EXCEPT ![r] = "held"]
    BY <1>3, <2>1, OneFateMoves DEF Holds
  <2>3. CASE Pending(r)
    BY <2>1, <2>2, <2>3, AbstractSteps
  <2>4. CASE ~Pending(r)
    <3>1. FateOfAll[r] = "held"
      <4>1. heap[r].decision = "Sampled"
        BY <1>3, <2>4, DecisionKnown DEF Holds, Pending
      <4> QED
        BY <1>3, <4>1, FatesMove DEF Holds
    <3>2. FateOfAll = [q \in Refs |-> FateOfAll[q]]
      BY DEF FateOfAll
    <3> HIDE DEF FateOfAll
    <3>3. FateOfAll' = FateOfAll
      BY <2>2, <3>1, <3>2
    <3> QED
      BY <3>3
  <2> QED
    BY <2>3, <2>4
<1>4. ASSUME NEW r \in Refs, Forwards(r)
      PROVE  Abstract!Next
  <2>1. heap[r].decision \in {"Pending", "Sampled"}
    BY <1>4, DecisionKnown DEF Forwards
  <2>2. FateOfAll[r] \in {"pending", "held"} /\ FateOfAll'[r] = "forwarded"
    BY <1>4, <2>1, FatesMove DEF Forwards
  <2>3. FateOfAll' = [FateOfAll EXCEPT ![r] = "forwarded"]
    BY <1>4, <2>2, OneFateMoves DEF Forwards
  <2> QED
    BY <2>2, <2>3, AbstractSteps
<1>5. ASSUME NEW r \in Refs', Admits(r)
      PROVE  Abstract!Next
  <2>1. r = Len(heap) + 1 /\ Refs' = Refs \cup {r} /\ ~Abstract!Full
    BY <1>5, SameCap DEF Admits, Joins
  <2>2. /\ FateOfAll'[r] = "pending"
        /\ \A q \in Refs : FateOfAll'[q] = FateOfAll[q]
    BY <1>5, <2>1, FatesMove DEF Admits, Joins
  <2>3. FateOfAll' = Append(FateOfAll, "pending")
    BY <2>1, <2>2, FatesGrow
  <2> QED
    BY <2>1, <2>3, AbstractSteps
<1>6. ASSUME NEW r \in Refs', NEW v \in Refs, Replaces(v, r)
      PROVE  Abstract!Next
  <2>1. r = Len(heap) + 1 /\ Refs' = Refs \cup {r} /\ Abstract!Full
    BY <1>6, SameCap DEF Replaces, Joins
  <2>2. /\ Pending(v) /\ \A q \in Refs : q < v => ~Pending(q)
    BY <1>6, HeadIsOldest DEF Replaces
  <2>3. /\ FateOfAll'[r] = "pending" /\ FateOfAll'[v] = "dropped"
        /\ FateOfAll[v] = "pending"
        /\ \A q \in Refs : q # v => FateOfAll'[q] = FateOfAll[q]
    BY <1>6, <2>1, <2>2, FatesMove DEF Replaces, Joins, OthersKeep, Pending
  <2>4. \A q \in 1..(v - 1) : FateOfAll[q] # "pending"
    <3>1. \A q \in 1..(v - 1) : q \in Refs /\ q < v
      BY BufferedInOrder
    <3> QED
      BY <2>2, <3>1, FatesMove DEF Pending
  <2>5. FateOfAll' = Append([FateOfAll EXCEPT ![v] = "dropped"], "pending")
    BY <2>1, <2>3, FatesGrowReplacing
  <2> QED
    BY <2>1, <2>3, <2>4, <2>5, AbstractSteps
<1> QED
  BY <1>1, <1>2, <1>3, <1>4, <1>5, <1>6, StepOutcomes DEF StepOutcome

\* The engine implements the abstract sampler: whatever its lists, pointers and
\* goroutines do, a trace is admitted as pending below the cap or in place of
\* the oldest pending one, and is then dropped, forwarded, or held and forwarded
\* (ImplementsTailSampling).
THEOREM EngineImplementsTailSampling == Spec => ImplementsTailSampling
<1>1. Init => Abstract!Init
  <2> SUFFICES ASSUME Init PROVE FateOfAll = <<>>
    BY DEF Abstract!Init, FateOfAll
  <2>1. Refs = {}
    BY DEF Init, Refs
  <2> QED
    BY <2>1 DEF FateOfAll
<1>2. EngineInv /\ EngineInv' /\ [Next]_vars => [Abstract!Next]_FateOfAll
  BY FateStep
<1>3. [Abstract!Next]_FateOfAll <=> [Abstract!Next]_([r \in Refs |-> FateOf(r)])
  BY DEF FateOfAll
<1> QED
  BY <1>1, <1>2, EngineInvariant, PTL DEF Spec, ImplementsTailSampling, Abstract!Spec, FateOfAll
=============================================================================
