------------------------ MODULE SamplingEngineProofs ------------------------
(***************************************************************************)
(* Theorems about SamplingEngine, for every value of its constants.        *)
(*                                                                         *)
(* The buffer is well formed (WellFormed) at every step.  Its four parts   *)
(* change in four ways only: a trace is removed, held, added, or gets a    *)
(* span.  One lemma for each shows that the buffer stays well formed; the  *)
(* steps of the engine are instances of them.                              *)
(*                                                                         *)
(* On that inductive invariant rest the safety theorems of the second      *)
(* half: the caps are hard bounds, no trace that a policy keeps waits      *)
(* outside a batch, and without MaxTraces none is dropped.  They begin     *)
(* with what each step that changes the buffer does to the spans and       *)
(* decisions of its traces.                                                *)
(***************************************************************************)
EXTENDS SamplingEngine, DataProofs

\* The traces h, the id index ix, the arrival list o and the pending list p
\* describe one buffer.
WellFormed(h, ix, o, p) ==
  /\ h \in Seq(Traces)
  /\ ix \in [TraceIDs -> (DOMAIN h) \cup {Nil}]
  /\ o \in Seq(DOMAIN h) /\ p \in Seq(DOMAIN h)
  /\ Increasing(o) /\ Increasing(p)
  /\ \A r \in DOMAIN h : r \in Range(o) <=> ix[h[r].id] = r
  /\ \A id \in TraceIDs : ix[id] # Nil => h[ix[id]].id = id
  /\ \A r \in DOMAIN h : r \in Range(p) <=> h[r].decision = "Pending"
  /\ \A r \in DOMAIN h : r \in Range(p) => r \in Range(o)
  /\ \A r \in DOMAIN h : r \in Range(o) => h[r].decision # "NotSampled"

-----------------------------------------------------------------------------
(* The four ways the buffer changes.                                       *)

\* Pointers are positive, and what they point to is a trace.
LEMMA HeapElements ==
  ASSUME NEW h \in Seq(Traces)
  PROVE  /\ DOMAIN h = 1..Len(h) /\ Len(h) \in Nat
         /\ DOMAIN h \in SUBSET Nat /\ Nil \notin DOMAIN h
         /\ \A q \in DOMAIN h : h[q] \in Traces /\ h[q].id \in TraceIDs
<1>1. DOMAIN h = 1..Len(h) /\ Len(h) \in Nat
  BY LenProperties
<1>2. \A q \in DOMAIN h : h[q] \in Traces
  BY <1>1, ElementOfSeq
<1>3. \A t \in Traces : t.id \in TraceIDs
  BY DEF Traces
<1> QED
  BY <1>1, <1>2, <1>3 DEF Nil

\* Replacing one trace leaves the others alone.
LEMMA HeapUpdate ==
  ASSUME NEW h \in Seq(Traces), NEW r \in DOMAIN h, NEW t \in Traces
  PROVE  /\ [h EXCEPT ![r] = t] \in Seq(Traces)
         /\ DOMAIN [h EXCEPT ![r] = t] = DOMAIN h
         /\ [h EXCEPT ![r] = t][r] = t
         /\ \A q \in DOMAIN h : q # r => [h EXCEPT ![r] = t][q] = h[q]
<1>1. r \in 1..Len(h)
  BY LenProperties
<1> QED
  BY <1>1, ExceptSeq

\* The functions the updates below are about, as operators the provers do
\* not look into unless told to.
Decided(h, r, d) == [h EXCEPT ![r].decision = d]
Unindexed(ix, id) == [ix EXCEPT ![id] = Nil]
Indexed(ix, id, r) == [ix EXCEPT ![id] = r]

\* A decision is one field of one trace.
LEMMA DecisionUpdate ==
  ASSUME NEW h \in Seq(Traces), NEW r \in DOMAIN h, NEW d \in Decisions
  PROVE  LET g == Decided(h, r, d) IN
         /\ g \in Seq(Traces) /\ DOMAIN g = DOMAIN h
         /\ g[r].decision = d
         /\ g[r].spans = h[r].spans /\ g[r].touchedGen = h[r].touchedGen
         /\ g[r].arrived = h[r].arrived
         /\ \A q \in DOMAIN h : q # r => g[q] = h[q]
         /\ \A q \in DOMAIN h : g[q].id = h[q].id
<1> DEFINE t == [h[r] EXCEPT !.decision = d]
           g == Decided(h, r, d)
<1>1. h[r] \in Traces
  BY ElementOfSeq, LenProperties
<1>2. /\ t \in Traces /\ t.decision = d /\ t.id = h[r].id
      /\ t.spans = h[r].spans /\ t.touchedGen = h[r].touchedGen /\ t.arrived = h[r].arrived
  BY <1>1 DEF Traces
<1>3. g = [h EXCEPT ![r] = t]
  BY DEF Decided
<1> HIDE DEF t, g
<1>4. /\ g \in Seq(Traces) /\ DOMAIN g = DOMAIN h /\ g[r] = t
      /\ \A q \in DOMAIN h : q # r => g[q] = h[q]
  BY <1>2, <1>3, HeapUpdate
<1> QED
  BY <1>2, <1>4 DEF g

\* removeLocked, after the trace got its final decision.
LEMMA RemoveWellFormed ==
  ASSUME NEW h, NEW ix, NEW o, NEW p, WellFormed(h, ix, o, p),
         NEW r \in Range(o), NEW d \in {"Sampled", "NotSampled"}
  PROVE  /\ WellFormed(Decided(h, r, d), Unindexed(ix, h[r].id),
                       Unlink(o, r), Unlink(p, r))
         /\ Range(Unlink(o, r)) = Range(o) \ {r}
         /\ Len(Unlink(o, r)) = Len(o) - 1
<1> DEFINE g == Decided(h, r, d)
           jx == Unindexed(ix, h[r].id)
           o2 == Unlink(o, r)
           p2 == Unlink(p, r)
<1>1. /\ h \in Seq(Traces)
      /\ ix \in [TraceIDs -> (DOMAIN h) \cup {Nil}]
      /\ o \in Seq(DOMAIN h) /\ p \in Seq(DOMAIN h)
      /\ Increasing(o) /\ Increasing(p)
  BY DEF WellFormed
<1>2. /\ \A q \in DOMAIN h : q \in Range(o) <=> ix[h[q].id] = q
      /\ \A id \in TraceIDs : ix[id] # Nil => h[ix[id]].id = id
      /\ \A q \in DOMAIN h : q \in Range(p) <=> h[q].decision = "Pending"
      /\ \A q \in DOMAIN h : q \in Range(p) => q \in Range(o)
      /\ \A q \in DOMAIN h : q \in Range(o) => h[q].decision # "NotSampled"
  BY DEF WellFormed
<1>3. r \in DOMAIN h
  BY <1>1, ListElements
<1>4. /\ DOMAIN h \in SUBSET Nat /\ Nil \notin DOMAIN h
      /\ \A q \in DOMAIN h : h[q] \in Traces /\ h[q].id \in TraceIDs
  BY <1>1, HeapElements
<1>5. /\ g \in Seq(Traces) /\ DOMAIN g = DOMAIN h
      /\ g[r].decision = d
      /\ \A q \in DOMAIN h : q # r => g[q] = h[q]
      /\ \A q \in DOMAIN h : g[q].id = h[q].id
  <2>1. d \in Decisions
    BY DEF Decisions
  <2> QED
    BY <1>1, <1>3, <2>1, DecisionUpdate
<1>6. /\ o2 \in Seq(DOMAIN h) /\ Increasing(o2) /\ Range(o2) = Range(o) \ {r}
      /\ p2 \in Seq(DOMAIN h) /\ Increasing(p2) /\ Range(p2) = Range(p) \ {r}
      /\ Len(o2) = Len(o) - 1
  BY <1>1, <1>4, UnlinkProperties, ZenonT(60)
<1>7. /\ jx \in [TraceIDs -> (DOMAIN h) \cup {Nil}]
      /\ jx[h[r].id] = Nil
      /\ \A id \in TraceIDs : id # h[r].id => jx[id] = ix[id]
  BY <1>1, <1>3, <1>4 DEF Unindexed
<1> HIDE DEF g, jx, o2, p2
<1>8. ix[h[r].id] = r
  BY <1>2, <1>3
<1>9. \A q \in DOMAIN h : q \in Range(o2) <=> jx[g[q].id] = q
  <2> SUFFICES ASSUME NEW q \in DOMAIN h
               PROVE  q \in Range(o2) <=> jx[g[q].id] = q
    OBVIOUS
  <2>1. CASE q = r
    BY <2>1, <1>4, <1>5, <1>6, <1>7
  <2>2. CASE q # r /\ h[q].id = h[r].id
    BY <2>2, <1>2, <1>4, <1>5, <1>6, <1>7, <1>8
  <2>3. CASE q # r /\ h[q].id # h[r].id
    <3>1. g[q].id = h[q].id /\ jx[h[q].id] = ix[h[q].id]
      BY <2>3, <1>4, <1>5, <1>7
    <3> QED
      BY <2>3, <3>1, <1>2, <1>6
  <2> QED
    BY <2>1, <2>2, <2>3
<1>10. \A id \in TraceIDs : jx[id] # Nil => g[jx[id]].id = id
  <2> SUFFICES ASSUME NEW id \in TraceIDs, jx[id] # Nil
               PROVE  g[jx[id]].id = id
    OBVIOUS
  <2>1. jx[id] = ix[id] /\ ix[id] \in DOMAIN h
    BY <1>1, <1>7
  <2> QED
    BY <2>1, <1>2, <1>5
<1>11. /\ \A q \in DOMAIN h : q \in Range(p2) <=> g[q].decision = "Pending"
       /\ \A q \in DOMAIN h : q \in Range(p2) => q \in Range(o2)
       /\ \A q \in DOMAIN h : q \in Range(o2) => g[q].decision # "NotSampled"
  BY <1>2, <1>3, <1>5, <1>6
<1>12. WellFormed(g, jx, o2, p2)
  BY <1>5, <1>6, <1>7, <1>9, <1>10, <1>11 DEF WellFormed
<1> QED
  BY <1>6, <1>12 DEF g, jx, o2, p2

\* A sink error: the trace stays, no longer Pending.
LEMMA HoldWellFormed ==
  ASSUME NEW h, NEW ix, NEW o, NEW p, WellFormed(h, ix, o, p), NEW r \in Range(o)
  PROVE  WellFormed(Decided(h, r, "Sampled"), ix, o, Unlink(p, r))
<1> DEFINE g == Decided(h, r, "Sampled")
           p2 == Unlink(p, r)
<1>1. /\ h \in Seq(Traces)
      /\ ix \in [TraceIDs -> (DOMAIN h) \cup {Nil}]
      /\ o \in Seq(DOMAIN h) /\ p \in Seq(DOMAIN h)
      /\ Increasing(o) /\ Increasing(p)
  BY DEF WellFormed
<1>2. /\ \A q \in DOMAIN h : q \in Range(o) <=> ix[h[q].id] = q
      /\ \A id \in TraceIDs : ix[id] # Nil => h[ix[id]].id = id
      /\ \A q \in DOMAIN h : q \in Range(p) <=> h[q].decision = "Pending"
      /\ \A q \in DOMAIN h : q \in Range(p) => q \in Range(o)
      /\ \A q \in DOMAIN h : q \in Range(o) => h[q].decision # "NotSampled"
  BY DEF WellFormed
<1>3. r \in DOMAIN h
  BY <1>1, ListElements
<1>4. /\ g \in Seq(Traces) /\ DOMAIN g = DOMAIN h
      /\ g[r].decision = "Sampled"
      /\ \A q \in DOMAIN h : q # r => g[q] = h[q]
      /\ \A q \in DOMAIN h : g[q].id = h[q].id
  <2>1. "Sampled" \in Decisions
    BY DEF Decisions
  <2> QED
    BY <1>1, <1>3, <2>1, DecisionUpdate
<1>5. p2 \in Seq(DOMAIN h) /\ Increasing(p2) /\ Range(p2) = Range(p) \ {r}
  <2>1. DOMAIN h \in SUBSET Nat
    BY <1>1, HeapElements
  <2> QED
    BY <1>1, <2>1, UnlinkProperties, SMTT(30)
<1> HIDE DEF g, p2
<1>6. /\ \A q \in DOMAIN h : q \in Range(o) <=> ix[g[q].id] = q
      /\ \A id \in TraceIDs : ix[id] # Nil => g[ix[id]].id = id
  <2>1. \A id \in TraceIDs : ix[id] # Nil => ix[id] \in DOMAIN h
    BY <1>1
  <2> QED
    BY <2>1, <1>2, <1>4
<1>7. /\ \A q \in DOMAIN h : q \in Range(p2) <=> g[q].decision = "Pending"
      /\ \A q \in DOMAIN h : q \in Range(p2) => q \in Range(o)
      /\ \A q \in DOMAIN h : q \in Range(o) => g[q].decision # "NotSampled"
  BY <1>2, <1>3, <1>4, <1>5
<1>8. WellFormed(g, ix, o, p2)
  BY <1>1, <1>4, <1>5, <1>6, <1>7 DEF WellFormed
<1> QED
  BY <1>8 DEF g, p2

\* A buffered trace gets a span or a generation mark.
LEMMA SpanWellFormed ==
  ASSUME NEW h, NEW ix, NEW o, NEW p, WellFormed(h, ix, o, p),
         NEW r \in DOMAIN h, NEW t \in Traces, t.id = h[r].id, t.decision = h[r].decision
  PROVE  WellFormed([h EXCEPT ![r] = t], ix, o, p)
<1> DEFINE g == [h EXCEPT ![r] = t]
<1>1. /\ h \in Seq(Traces)
      /\ ix \in [TraceIDs -> (DOMAIN h) \cup {Nil}]
  BY DEF WellFormed
<1>2. /\ g \in Seq(Traces) /\ DOMAIN g = DOMAIN h
      /\ \A q \in DOMAIN h : g[q].id = h[q].id /\ g[q].decision = h[q].decision
  BY <1>1, HeapUpdate
<1> HIDE DEF g
<1>3. \A id \in TraceIDs : ix[id] # Nil => ix[id] \in DOMAIN h
  BY <1>1
<1>4. WellFormed(g, ix, o, p)
  BY <1>2, <1>3 DEF WellFormed
<1> QED
  BY <1>4 DEF g

\* A trace for an id that is not buffered goes to the end of both lists.
LEMMA AddWellFormed ==
  ASSUME NEW h, NEW ix, NEW o, NEW p, WellFormed(h, ix, o, p),
         NEW t \in Traces, ix[t.id] = Nil, t.decision = "Pending",
         NEW r, r = Len(h) + 1
  PROVE  /\ WellFormed(Append(h, t), Indexed(ix, t.id, r), Append(o, r), Append(p, r))
         /\ Range(Append(o, r)) = Range(o) \cup {r}
         /\ Len(Append(o, r)) = Len(o) + 1
<1> DEFINE g == Append(h, t)
           jx == Indexed(ix, t.id, r)
           o2 == Append(o, r)
           p2 == Append(p, r)
<1>1. /\ h \in Seq(Traces)
      /\ ix \in [TraceIDs -> (DOMAIN h) \cup {Nil}]
      /\ o \in Seq(DOMAIN h) /\ p \in Seq(DOMAIN h)
      /\ Increasing(o) /\ Increasing(p)
  BY DEF WellFormed
<1>2. /\ \A q \in DOMAIN h : q \in Range(o) <=> ix[h[q].id] = q
      /\ \A id \in TraceIDs : ix[id] # Nil => h[ix[id]].id = id
      /\ \A q \in DOMAIN h : q \in Range(p) <=> h[q].decision = "Pending"
      /\ \A q \in DOMAIN h : q \in Range(p) => q \in Range(o)
      /\ \A q \in DOMAIN h : q \in Range(o) => h[q].decision # "NotSampled"
  BY DEF WellFormed
<1>3. /\ DOMAIN h = 1..Len(h) /\ Len(h) \in Nat /\ Nil \notin DOMAIN h
      /\ \A q \in DOMAIN h : h[q].id \in TraceIDs
  BY <1>1, HeapElements
<1>4. /\ g \in Seq(Traces) /\ DOMAIN g = 1..(Len(h) + 1) /\ g[r] = t
      /\ \A q \in DOMAIN h : g[q] = h[q]
  <2>1. Len(g) = Len(h) + 1 /\ g \in Seq(Traces)
    BY <1>1, AppendProperties
  <2> QED
    BY <1>1, <1>3, <2>1, AppendProperties, LenProperties
<1>5. /\ DOMAIN g = (DOMAIN h) \cup {r} /\ DOMAIN g \in SUBSET Nat
      /\ r \notin DOMAIN h /\ r # Nil /\ r \in DOMAIN g
      /\ \A q \in DOMAIN h : q < r
  BY <1>3, <1>4 DEF Nil
<1>6. /\ o \in Seq(DOMAIN g) /\ p \in Seq(DOMAIN g)
      /\ Range(o) \subseteq DOMAIN h /\ Range(p) \subseteq DOMAIN h
  BY <1>1, <1>5, SeqMonotonic, ListElements
<1> HIDE DEF g
<1>7. /\ o2 \in Seq(DOMAIN g) /\ Increasing(o2) /\ Range(o2) = Range(o) \cup {r}
      /\ Len(o2) = Len(o) + 1
  <2>1. \A e \in Range(o) : e < r
    BY <1>5, <1>6
  <2> DEFINE S == DOMAIN g
  <2>2. S \in SUBSET Nat /\ o \in Seq(S) /\ r \in S /\ Increasing(o)
    BY <1>1, <1>5, <1>6
  <2> HIDE DEF S
  <2>3. /\ Append(o, r) \in Seq(S) /\ Increasing(Append(o, r))
        /\ Range(Append(o, r)) = Range(o) \cup {r}
        /\ Len(Append(o, r)) = Len(o) + 1
    BY <2>1, <2>2, AppendIncreasing
  <2> QED
    BY <2>3 DEF S
<1>8. /\ p2 \in Seq(DOMAIN g) /\ Increasing(p2) /\ Range(p2) = Range(p) \cup {r}
      /\ Len(p2) = Len(p) + 1
  <2>1. \A e \in Range(p) : e < r
    BY <1>5, <1>6
  <2> DEFINE S == DOMAIN g
  <2>2. S \in SUBSET Nat /\ p \in Seq(S) /\ r \in S /\ Increasing(p)
    BY <1>1, <1>5, <1>6
  <2> HIDE DEF S
  <2>3. /\ Append(p, r) \in Seq(S) /\ Increasing(Append(p, r))
        /\ Range(Append(p, r)) = Range(p) \cup {r}
        /\ Len(Append(p, r)) = Len(p) + 1
    BY <2>1, <2>2, AppendIncreasing
  <2> QED
    BY <2>3 DEF S
<1>9. t.id \in TraceIDs
  BY DEF Traces
<1>10. /\ jx \in [TraceIDs -> (DOMAIN g) \cup {Nil}]
       /\ jx[t.id] = r
       /\ \A id \in TraceIDs : id # t.id => jx[id] = ix[id]
  BY <1>1, <1>5, <1>9 DEF Indexed
<1> HIDE DEF jx, o2, p2
<1>11. \A q \in DOMAIN g : q \in Range(o2) <=> jx[g[q].id] = q
  <2> SUFFICES ASSUME NEW q \in DOMAIN g
               PROVE  q \in Range(o2) <=> jx[g[q].id] = q
    OBVIOUS
  <2>1. CASE q = r
    BY <2>1, <1>4, <1>7, <1>10
  <2>2. CASE q \in DOMAIN h /\ h[q].id = t.id
    <3>1. q \notin Range(o)
      BY <2>2, <1>2, <1>3
    <3>2. jx[g[q].id] = r /\ q # r
      BY <2>2, <1>4, <1>5, <1>10
    <3> QED
      BY <3>1, <3>2, <1>7
  <2>3. CASE q \in DOMAIN h /\ h[q].id # t.id
    <3>1. jx[g[q].id] = ix[h[q].id] /\ q # r
      BY <2>3, <1>3, <1>4, <1>5, <1>10
    <3> QED
      BY <2>3, <3>1, <1>2, <1>7
  <2> QED
    BY <2>1, <2>2, <2>3, <1>5
<1>12. ASSUME NEW id \in TraceIDs, jx[id] # Nil
       PROVE  g[jx[id]].id = id
  <2>1. CASE id = t.id
    BY <2>1, <1>4, <1>10
  <2>2. CASE id # t.id
    <3>1. jx[id] = ix[id] /\ ix[id] \in DOMAIN h
      BY <2>2, <1>1, <1>10, <1>12
    <3> QED
      BY <3>1, <1>2, <1>4, <1>12
  <2> QED
    BY <2>1, <2>2
<1>13. /\ \A q \in DOMAIN g : q \in Range(p2) <=> g[q].decision = "Pending"
       /\ \A q \in DOMAIN g : q \in Range(p2) => q \in Range(o2)
       /\ \A q \in DOMAIN g : q \in Range(o2) => g[q].decision # "NotSampled"
  <2>1. ASSUME NEW q \in DOMAIN h
        PROVE  /\ q \in Range(p2) <=> g[q].decision = "Pending"
               /\ q \in Range(p2) => q \in Range(o2)
               /\ q \in Range(o2) => g[q].decision # "NotSampled"
    <3>1. g[q] = h[q] /\ q # r
      BY <1>4, <1>5
    <3>2. (q \in Range(p2) <=> q \in Range(p)) /\ (q \in Range(o2) <=> q \in Range(o))
      BY <3>1, <1>7, <1>8
    <3> QED
      BY <3>1, <3>2, <1>2
  <2>2. r \in Range(p2) /\ r \in Range(o2) /\ g[r].decision = "Pending"
    BY <1>4, <1>7, <1>8
  <2> QED
    BY <1>5, <2>1, <2>2
<1>14. WellFormed(g, jx, o2, p2)
  BY <1>4, <1>7, <1>8, <1>10, <1>11, <1>12, <1>13 DEF WellFormed
<1> QED
  BY <1>7, <1>14 DEF g, jx, o2, p2

-----------------------------------------------------------------------------
(* The inductive invariant: the buffer is well formed, the other variables *)
(* have their types, and the loops find what they rely on.                 *)

OtherTypes ==
  /\ touched \in Seq(Refs) /\ sinkLog \in Seq(Refs)
  /\ draining \subseteq Refs
  /\ gen \in 0..MaxGen
  /\ stats \in [CounterNames -> Nat]
  /\ clock \in 0..MaxTime /\ now \in 0..clock
  /\ pc \in Sections
  /\ rest \in Seq(Spans)
  /\ cursor \in 1..(Len(order) + 1)
  /\ failed \in BOOLEAN
  /\ stop \in {"nil", "open", "closed"}
  /\ ticker \in {"off", "select", "due"}
  /\ closer \in {"idle", "wait", "lock"}

EngineInv ==
  /\ WellFormed(heap, index, order, pendingOrder)
  /\ OtherTypes
  /\ LoopInvariant

\* The invariant holds in the empty engine.
LEMMA EngineInit == Init => EngineInv
<1> SUFFICES ASSUME Init PROVE EngineInv
  OBVIOUS
<1>1. Range(<<>>) = {} /\ DOMAIN <<>> = {}
  BY DEF Range
<1>2. \A S : <<>> \in Seq(S)
  BY EmptySeq
<1>3. Increasing(<<>>) /\ IsInjective(<<>>)
  BY <1>1 DEF Increasing, IsInjective
<1>4. WellFormed(heap, index, order, pendingOrder)
  BY <1>1, <1>2, <1>3 DEF Init, WellFormed
<1>5. OtherTypes
  <2>1. stats \in [CounterNames -> Nat]
    BY DEF Init
  <2>2. gen \in 0..MaxGen /\ clock \in 0..MaxTime /\ now \in 0..clock
    BY BoundsAssumption DEF Init
  <2>3. cursor \in 1..(Len(order) + 1)
    BY DEF Init
  <2> QED
    BY <1>2, <2>1, <2>2, <2>3 DEF Init, OtherTypes, Sections
<1>6. LoopInvariant
  BY <1>1, <1>2, <1>3 DEF Init, LoopInvariant, Expiring
<1> QED
  BY <1>4, <1>5, <1>6 DEF EngineInv

\* Buffered traces are the members of the arrival list.
LEMMA BufferedInOrder ==
  ASSUME EngineInv
  PROVE  /\ Refs = 1..Len(heap) /\ Len(heap) \in Nat
         /\ Range(order) \subseteq Refs /\ Range(pendingOrder) \subseteq Refs
         /\ \A r \in Refs : Buffered(r) <=> r \in Range(order)
         /\ \A r \in Refs : Pending(r) <=> r \in Range(pendingOrder)
         /\ \A r \in Refs : Pending(r) => r \in Range(order)
<1>1. WellFormed(heap, index, order, pendingOrder)
  BY DEF EngineInv
<1>2. /\ heap \in Seq(Traces) /\ order \in Seq(Refs) /\ pendingOrder \in Seq(Refs)
  BY <1>1 DEF WellFormed, Refs
<1>3. Range(order) \subseteq Refs /\ Range(pendingOrder) \subseteq Refs
  BY <1>2, ListElements
<1>4. Refs = 1..Len(heap) /\ Len(heap) \in Nat
  BY <1>2, HeapElements DEF Refs
<1> QED
  BY <1>1, <1>3, <1>4 DEF WellFormed, Refs, Buffered, Pending

\* The steps that move control and leave the buffer alone.
QuietStep ==
  \/ ConsumeBegin
  \/ BeginGeneration
  \/ EndIngest
  \/ EndDecide
  \/ ConsumeEnd
  \/ ExpireKeep
  \/ Start
  \/ TickerFires
  \/ TickerStops
  \/ TickBegin
  \/ TickEnd
  \/ ShutdownBegin
  \/ ShutdownTickerDone
  \/ ShutdownCancelled
  \/ DrainBegin
  \/ DrainForce
  \/ ShutdownFails
  \/ ShutdownEnd
  \/ ClockAdvances

LEMMA QuietStepInv == ASSUME EngineInv, QuietStep PROVE EngineInv'
<1>1. /\ Len(order) \in Nat /\ cursor \in 1..(Len(order) + 1)
      /\ gen \in Nat /\ gen <= MaxGen /\ MaxGen \in Nat
      /\ clock \in Nat /\ clock <= MaxTime /\ now \in 0..clock /\ MaxTime \in Nat
  BY BoundsAssumption, LenProperties DEF EngineInv, OtherTypes, WellFormed
<1> USE DEF EngineInv, OtherTypes, LoopInvariant, Expiring, Buffered, Refs, Sections,
            buffer, batchVars, sectionVars, lifecycle
<1>2. CASE ConsumeBegin
  <2>1. rest' \in Seq(Spans)
    BY <1>2, BatchesAssumption DEF ConsumeBegin, BeginConsume
  <2>2. now' \in 0..clock'
    BY <1>1, <1>2 DEF ConsumeBegin, BeginConsume
  <2> QED
    BY <1>1, <1>2, <2>1, <2>2 DEF ConsumeBegin, BeginConsume
<1>3. CASE BeginGeneration
  <2>1. touched = <<>> /\ gen' \in 0..MaxGen /\ cursor' \in 1..(Len(order) + 1)
    BY <1>1, <1>3 DEF BeginGeneration
  <2>2. Range(touched) = {} /\ DOMAIN touched = {}
    BY <2>1 DEF Range
  <2> QED
    BY <1>3, <2>1, <2>2 DEF BeginGeneration
<1>4. CASE EndIngest
  BY <1>4 DEF EndIngest
<1>5. CASE EndDecide
  BY <1>5 DEF EndDecide
<1>6. CASE ConsumeEnd
  <2>1. cursor' \in 1..(Len(order') + 1)
    BY <1>1, <1>6 DEF ConsumeEnd
  <2>2. failed' \in BOOLEAN
    BY <1>6 DEF ConsumeEnd
  <2>3. pc' \notin {"ingest", "decide", "drain", "preExpire"} /\ touched' = <<>> /\ draining' = {}
    BY <1>6 DEF ConsumeEnd
  <2> QED
    BY <1>6, <2>1, <2>2, <2>3 DEF ConsumeEnd
<1>7. CASE ExpireKeep
  <2>1. cursor' \in 1..(Len(order) + 1)
    BY <1>1, <1>7 DEF ExpireKeep, WalkOver
  <2> QED
    BY <1>7, <2>1 DEF ExpireKeep
<1>8. CASE Start
  BY <1>8 DEF Start
<1>9. CASE TickerFires
  BY <1>9 DEF TickerFires
<1>10. CASE TickerStops
  BY <1>10 DEF TickerStops
<1>11. CASE TickBegin
  BY <1>11 DEF TickBegin
<1>12. CASE TickEnd
  BY <1>12 DEF TickEnd
<1>13. CASE ShutdownBegin
  BY <1>13 DEF ShutdownBegin
<1>14. CASE ShutdownTickerDone
  BY <1>14 DEF ShutdownTickerDone
<1>15. CASE ShutdownCancelled
  BY <1>15 DEF ShutdownCancelled
<1>16. CASE DrainBegin
  <2>1. ASSUME NEW r \in draining' PROVE r \in Refs /\ r \in Range(order)
    <3>1. PICK id \in TraceIDs : r = index[id] /\ r # Nil
      BY <1>16 DEF DrainBegin
    <3>2. r \in Refs /\ heap[r].id = id
      BY <3>1 DEF WellFormed
    <3> QED
      BY <3>1, <3>2, BufferedInOrder
  <2>2. draining' \subseteq Refs /\ draining' \subseteq Range(order)
    BY <2>1
  <2> QED
    BY <1>16, <2>2 DEF DrainBegin
<1>17. CASE DrainForce
  BY <1>17 DEF DrainForce
<1>18. CASE ShutdownFails
  BY <1>18 DEF ShutdownFails
<1>19. CASE ShutdownEnd
  BY <1>19 DEF ShutdownEnd
<1>20. CASE ClockAdvances
  <2>1. clock' \in 0..MaxTime /\ now' \in 0..clock'
    BY <1>1, <1>20 DEF ClockAdvances
  <2> QED
    BY <1>20, <2>1 DEF ClockAdvances
<1> QED
  BY <1>2, <1>3, <1>4, <1>5, <1>6, <1>7, <1>8, <1>9, <1>10, <1>11, <1>12, <1>13, <1>14, <1>15, <1>16, <1>17, <1>18, <1>19, <1>20 DEF QuietStep

\* One trace is decided: forwarded and removed, held, or left.
LEMMA DecideStep ==
  ASSUME EngineInv, NEW r \in Refs, DecideLocked(r),
         heap[r].decision = "Sampled" => Buffered(r)
  PROVE  /\ WellFormed(heap, index, order, pendingOrder)'
         /\ Refs' = Refs
         /\ \A q \in Refs : q # r => heap'[q] = heap[q] /\ (Buffered(q)' <=> Buffered(q))
         /\ heap'[r].touchedGen = heap[r].touchedGen
         /\ heap'[r].spans = heap[r].spans
         /\ Range(order) \ {r} \subseteq Range(order')
         /\ Len(order') <= Len(order)
         /\ sinkLog' \in Seq(Refs) /\ stats' \in [CounterNames -> Nat] /\ failed' \in BOOLEAN
<1>1. WellFormed(heap, index, order, pendingOrder)
  BY DEF EngineInv
<1>2. /\ heap \in Seq(Traces) /\ Len(order) \in Nat
      /\ index \in [TraceIDs -> Refs \cup {Nil}]
  BY <1>1, LenProperties DEF WellFormed, Refs
<1>3. /\ Nil \notin Refs /\ heap[r].id \in TraceIDs
      /\ \A q \in Refs : heap[q].id \in TraceIDs
  BY <1>2, HeapElements DEF Refs
<1>4. sinkLog \in Seq(Refs) /\ stats \in [CounterNames -> Nat] /\ failed \in BOOLEAN
  BY DEF EngineInv, OtherTypes
<1>5. WantsForward(r) => r \in Range(order)
  BY BufferedInOrder DEF WantsForward
<1>6. "Sampled" \in Decisions
  BY DEF Decisions
<1> DEFINE g == Decided(heap, r, "Sampled")
<1>7. /\ DOMAIN g = Refs
      /\ g[r].touchedGen = heap[r].touchedGen /\ g[r].spans = heap[r].spans
      /\ \A q \in Refs : q # r => g[q] = heap[q]
      /\ \A q \in Refs : g[q].id = heap[q].id
  BY <1>2, <1>6, DecisionUpdate DEF Refs
<1>8. CASE Forward(r)
  <2>1. r \in Range(order)
    BY <1>5, <1>8 DEF Forward
  <2>2. /\ heap' = g /\ index' = Unindexed(index, heap[r].id)
        /\ order' = Unlink(order, r) /\ pendingOrder' = Unlink(pendingOrder, r)
    BY <1>8 DEF Forward, RemoveLocked, Decided, Unindexed
  <2> HIDE DEF g
  <2>3. /\ WellFormed(g, Unindexed(index, heap[r].id),
                      Unlink(order, r), Unlink(pendingOrder, r))
        /\ Range(order') = Range(order) \ {r} /\ Len(order') = Len(order) - 1
    BY <1>1, <2>1, <2>2, RemoveWellFormed DEF g
  <2>4. WellFormed(heap, index, order, pendingOrder)'
    BY <2>2, <2>3
  <2>5. sinkLog' \in Seq(Refs)
    BY <1>4, <1>8, AppendProperties DEF Forward
  <2>6. stats' \in [CounterNames -> Nat]
    <3>1. Len(heap[r].spans) \in Nat
      BY <1>2, HeapElements, LenProperties DEF Traces, Refs
    <3>2. stats.sampledSpans \in Nat
      BY <1>4 DEF CounterNames
    <3> QED
      BY <1>4, <1>8, <3>1, <3>2 DEF Forward
  <2>7. index[heap[r].id] = r
    BY <2>1, BufferedInOrder DEF Buffered
  <2>8. ASSUME NEW q \in Refs, q # r
        PROVE  index'[heap'[q].id] = q <=> index[heap[q].id] = q
    <3>1. heap'[q].id = heap[q].id /\ q # Nil
      BY <1>3, <1>7, <2>2
    <3>2. CASE heap[q].id = heap[r].id
      BY <1>2, <1>3, <2>2, <2>7, <2>8, <3>1, <3>2 DEF Unindexed
    <3>3. CASE heap[q].id # heap[r].id
      BY <1>2, <1>3, <2>2, <3>1, <3>3 DEF Unindexed
    <3> QED
      BY <3>2, <3>3
  <2>9. Refs' = Refs
    BY <1>7, <2>2 DEF Refs
  <2>10. failed' \in BOOLEAN
    BY <1>4, <1>8 DEF Forward
  <2>11. Len(order') <= Len(order) /\ Range(order) \ {r} \subseteq Range(order')
    BY <1>2, <2>3
  <2>12. \A q \in Refs : q # r => heap'[q] = heap[q] /\ (Buffered(q)' <=> Buffered(q))
    BY <1>7, <2>2, <2>8 DEF Buffered
  <2>13. heap'[r].touchedGen = heap[r].touchedGen /\ heap'[r].spans = heap[r].spans
    BY <1>7, <2>2
  <2> QED
    BY <2>4, <2>5, <2>6, <2>9, <2>10, <2>11, <2>12, <2>13
<1>9. CASE Hold(r)
  <2>1. r \in Range(order)
    BY <1>5, <1>9 DEF Hold
  <2>2. heap' = g /\ pendingOrder' = Unlink(pendingOrder, r) /\ index' = index /\ order' = order
    BY <1>9 DEF Hold, Decided
  <2> HIDE DEF g
  <2>3. WellFormed(g, index, order, Unlink(pendingOrder, r))
    BY <1>1, <2>1, HoldWellFormed DEF g
  <2>4. WellFormed(heap, index, order, pendingOrder)'
    BY <2>2, <2>3
  <2>5. Refs' = Refs
    BY <1>7, <2>2 DEF Refs
  <2>6. sinkLog' = sinkLog /\ stats' = stats /\ failed' = TRUE
    BY <1>9 DEF Hold
  <2> QED
    BY <1>2, <1>4, <1>7, <2>2, <2>4, <2>5, <2>6 DEF Buffered
<1>10. CASE LeaveUndecided(r)
  BY <1>1, <1>2, <1>4, <1>10 DEF LeaveUndecided, buffer, Buffered, Refs
<1> QED
  BY <1>8, <1>9, <1>10 DEF DecideLocked

\* DecideTouched: the head of touched is decided and taken off the list.
LEMMA DecideTouchedInv == ASSUME EngineInv, DecideTouched PROVE EngineInv'
<1> DEFINE r == Head(touched)
<1>1. /\ touched \in Seq(Refs) /\ touched # <<>> /\ IsInjective(touched)
      /\ \A q \in Range(touched) : heap[q].touchedGen = gen
      /\ \A q \in Range(touched) : heap[q].decision = "Sampled" => Buffered(q)
      /\ pc = "decide" /\ cursor = 1 /\ draining = {}
  BY DEF EngineInv, OtherTypes, LoopInvariant, DecideTouched, Expiring
<1>2. /\ DecideLocked(r) /\ touched' = Tail(touched)
      /\ gen' = gen /\ rest' = rest /\ pc' = pc /\ now' = now /\ cursor' = cursor
      /\ draining' = draining /\ stop' = stop /\ ticker' = ticker /\ closer' = closer
      /\ clock' = clock
  BY DEF DecideTouched, lifecycle
<1>3. /\ r \in Range(touched) /\ r \in Refs /\ touched' \in Seq(Refs)
      /\ IsInjective(touched') /\ Range(touched') = Range(touched) \ {r}
  BY <1>1, <1>2, TailInjective
<1> HIDE DEF r
<1>4. /\ WellFormed(heap, index, order, pendingOrder)' /\ Refs' = Refs
      /\ \A q \in Refs : q # r => heap'[q] = heap[q] /\ (Buffered(q)' <=> Buffered(q))
      /\ sinkLog' \in Seq(Refs) /\ stats' \in [CounterNames -> Nat] /\ failed' \in BOOLEAN
  BY <1>1, <1>2, <1>3, DecideStep
<1>5. order' \in Seq(Refs') /\ Len(order') \in Nat
  BY <1>4, LenProperties DEF WellFormed, Refs
<1>6. cursor' \in 1..(Len(order') + 1)
  BY <1>1, <1>2, <1>5
<1>7. OtherTypes'
  BY <1>1, <1>2, <1>3, <1>4, <1>6 DEF EngineInv, OtherTypes
<1>8. ASSUME NEW q \in Range(touched')
      PROVE  heap'[q].touchedGen = gen' /\ (heap'[q].decision = "Sampled" => Buffered(q)')
  <2>1. q \in Range(touched) /\ q # r /\ q \in Refs
    BY <1>1, <1>3, <1>8, ListElements
  <2> QED
    BY <2>1, <1>1, <1>2, <1>4
<1>9. \A q \in Range(order') : heap'[q].decision # "NotSampled"
  BY <1>4, <1>5, ListElements DEF WellFormed, Refs
<1>10. LoopInvariant'
  BY <1>1, <1>2, <1>3, <1>8, <1>9 DEF LoopInvariant, Expiring
<1> QED
  BY <1>4, <1>7, <1>10 DEF EngineInv

\* DrainDecide: one of the traces Shutdown saw in the buffer is decided.
LEMMA DrainDecideInv == ASSUME EngineInv, DrainDecide PROVE EngineInv'
<1>1. /\ pc = "drain" /\ cursor = 1 /\ touched = <<>>
      /\ draining \subseteq Refs /\ draining \subseteq Range(order)
      /\ gen' = gen /\ touched' = touched /\ rest' = rest /\ pc' = pc /\ now' = now
      /\ cursor' = cursor /\ stop' = stop /\ ticker' = ticker /\ closer' = closer
      /\ clock' = clock
  BY DEF EngineInv, OtherTypes, LoopInvariant, DrainDecide, Expiring, batchVars, lifecycle
<1>2. PICK r \in draining : DecideLocked(r) /\ draining' = draining \ {r}
  BY DEF DrainDecide
<1>3. r \in Refs /\ Buffered(r)
  BY <1>1, <1>2, BufferedInOrder
<1>4. /\ WellFormed(heap, index, order, pendingOrder)' /\ Refs' = Refs
      /\ Range(order) \ {r} \subseteq Range(order')
      /\ sinkLog' \in Seq(Refs) /\ stats' \in [CounterNames -> Nat] /\ failed' \in BOOLEAN
  BY <1>2, <1>3, DecideStep
<1>5. order' \in Seq(Refs') /\ Len(order') \in Nat
  BY <1>4, LenProperties DEF WellFormed, Refs
<1>6. cursor' \in 1..(Len(order') + 1)
  BY <1>1, <1>5
<1>7. draining' \subseteq Range(order') /\ draining' \subseteq Refs
  BY <1>1, <1>2, <1>4
<1>8. OtherTypes'
  BY <1>1, <1>4, <1>6, <1>7 DEF EngineInv, OtherTypes
<1>9. \A q \in Range(order') : heap'[q].decision # "NotSampled"
  BY <1>4, <1>5, ListElements DEF WellFormed, Refs
<1>10. Range(touched') = {} /\ IsInjective(touched')
  BY <1>1 DEF Range, IsInjective
<1>11. LoopInvariant'
  BY <1>1, <1>7, <1>9, <1>10 DEF LoopInvariant, Expiring
<1> QED
  BY <1>4, <1>8, <1>11 DEF EngineInv

\* ExpireDrop: the trace at the cursor leaves the buffer; the cursor stays.
LEMMA ExpireDropInv == ASSUME EngineInv, ExpireDrop PROVE EngineInv'
<1> DEFINE r == AtCursor
<1>1. /\ WellFormed(heap, index, order, pendingOrder)
      /\ heap \in Seq(Traces) /\ order \in Seq(Refs) /\ Len(order) \in Nat
      /\ cursor \in 1..Len(order)
      /\ pc \notin {"ingest", "decide", "drain"} /\ touched = <<>> /\ draining = {}
      /\ stats \in [CounterNames -> Nat] /\ sinkLog \in Seq(Refs)
  <2>1. order \in Seq(Refs)
    BY DEF EngineInv, WellFormed, Refs
  <2>2. Len(order) \in Nat
    BY <2>1, LenProperties
  <2>3. cursor \in 1..(Len(order) + 1) /\ ~(cursor > Len(order))
    BY DEF EngineInv, OtherTypes, ExpireDrop, WalkOver
  <2>4. cursor \in 1..Len(order)
    BY <2>2, <2>3
  <2> QED
    BY <2>1, <2>2, <2>4 DEF EngineInv, OtherTypes, LoopInvariant, WellFormed, ExpireDrop, Expiring
<1>2. /\ heap' = Decided(heap, r, "NotSampled")
      /\ index' = Unindexed(index, heap[r].id)
      /\ order' = Unlink(order, r) /\ pendingOrder' = Unlink(pendingOrder, r)
      /\ stats' = DropCounted
      /\ gen' = gen /\ touched' = touched /\ rest' = rest
      /\ pc' = pc /\ now' = now /\ cursor' = cursor /\ draining' = draining /\ failed' = failed
      /\ stop' = stop /\ ticker' = ticker /\ closer' = closer
      /\ clock' = clock /\ sinkLog' = sinkLog
  BY DEF ExpireDrop, RemoveLocked, Decided, Unindexed, batchVars, sectionVars, lifecycle
<1>3. r \in Range(order) /\ r \in Refs
  BY <1>1, ListElements, LenProperties DEF AtCursor, Range
<1> HIDE DEF r
<1>4. /\ WellFormed(heap, index, order, pendingOrder)'
      /\ Len(order') = Len(order) - 1
  BY <1>1, <1>2, <1>3, RemoveWellFormed
<1>5. Refs' = Refs
  <2>1. "NotSampled" \in Decisions
    BY DEF Decisions
  <2> QED
    BY <1>1, <1>2, <1>3, <2>1, DecisionUpdate DEF Refs
<1>6. stats' \in [CounterNames -> Nat]
  <2>1. stats.notSampled \in Nat
    BY <1>1 DEF CounterNames
  <2> QED
    BY <1>1, <1>2, <2>1 DEF DropCounted
<1>7. cursor' \in 1..(Len(order') + 1)
  BY <1>1, <1>2, <1>4
<1>8. OtherTypes'
  BY <1>2, <1>5, <1>6, <1>7 DEF EngineInv, OtherTypes
<1>9. order' \in Seq(Refs')
  BY <1>4 DEF WellFormed, Refs
<1>10. \A q \in Range(order') : heap'[q].decision # "NotSampled"
  BY <1>4, <1>9, ListElements DEF WellFormed, Refs
<1>11. Range(touched') = {} /\ IsInjective(touched')
  BY <1>1, <1>2 DEF Range, IsInjective
<1>12. LoopInvariant'
  BY <1>1, <1>2, <1>10, <1>11 DEF EngineInv, LoopInvariant, Expiring
<1> QED
  BY <1>4, <1>8, <1>12 DEF EngineInv

\* What ingestion keeps of touched: no repetition, every trace marked by this
\* generation, and none that was forwarded.
TouchedFits(h, ix, tl, g) ==
  /\ tl \in Seq(DOMAIN h) /\ IsInjective(tl)
  /\ \A q \in Range(tl) : h[q].touchedGen = g /\ (h[q].decision = "Sampled" => ix[h[q].id] = q)

\* A dropped trace may leave its pointer in touched.
LEMMA DropTouched ==
  ASSUME NEW h, NEW ix, NEW o, NEW p, WellFormed(h, ix, o, p), NEW r \in Range(o),
         NEW tl, NEW g, TouchedFits(h, ix, tl, g)
  PROVE  TouchedFits(Decided(h, r, "NotSampled"), Unindexed(ix, h[r].id), tl, g)
<1> DEFINE k == Decided(h, r, "NotSampled")
           jx == Unindexed(ix, h[r].id)
<1>1. /\ h \in Seq(Traces) /\ ix \in [TraceIDs -> (DOMAIN h) \cup {Nil}]
      /\ r \in DOMAIN h /\ ix[h[r].id] = r
      /\ \A q \in DOMAIN h : h[q].id \in TraceIDs
  BY ListElements, HeapElements DEF WellFormed
<1>2. tl \in Seq(DOMAIN h) /\ IsInjective(tl) /\ Range(tl) \subseteq DOMAIN h
  BY ListElements DEF TouchedFits
<1>3. /\ DOMAIN k = DOMAIN h /\ k[r].decision = "NotSampled"
      /\ k[r].touchedGen = h[r].touchedGen
      /\ \A q \in DOMAIN h : q # r => k[q] = h[q]
  <2>1. "NotSampled" \in Decisions
    BY DEF Decisions
  <2> QED
    BY <1>1, <2>1, DecisionUpdate
<1>4. \A id \in TraceIDs : id # h[r].id => jx[id] = ix[id]
  BY <1>1 DEF Unindexed
<1> HIDE DEF k, jx
<1>5. ASSUME NEW q \in Range(tl)
      PROVE  k[q].touchedGen = g /\ (k[q].decision = "Sampled" => jx[k[q].id] = q)
  <2>1. q \in DOMAIN h /\ h[q].touchedGen = g /\ (h[q].decision = "Sampled" => ix[h[q].id] = q)
    BY <1>2 DEF TouchedFits
  <2>2. CASE q = r
    BY <2>1, <2>2, <1>3
  <2>3. CASE q # r
    <3>1. k[q] = h[q]
      BY <1>3, <2>1, <2>3
    <3>2. h[q].decision = "Sampled" => h[q].id # h[r].id
      BY <1>1, <2>1, <2>3
    <3> QED
      BY <1>1, <1>4, <2>1, <3>1, <3>2
  <2> QED
    BY <2>2, <2>3
<1>6. TouchedFits(k, jx, tl, g)
  BY <1>2, <1>3, <1>5 DEF TouchedFits
<1> QED
  BY <1>6 DEF k, jx

\* A new trace is listed as touched when it is added.
LEMMA AddTouched ==
  ASSUME NEW h, NEW ix, NEW o, NEW p, WellFormed(h, ix, o, p),
         NEW tl, NEW g, TouchedFits(h, ix, tl, g),
         NEW t \in Traces, ix[t.id] = Nil, t.decision = "Pending", t.touchedGen = g,
         NEW r, r = Len(h) + 1
  PROVE  TouchedFits(Append(h, t), Indexed(ix, t.id, r), Append(tl, r), g)
<1> DEFINE k == Append(h, t)
           jx == Indexed(ix, t.id, r)
           tl2 == Append(tl, r)
<1>1. /\ h \in Seq(Traces) /\ ix \in [TraceIDs -> (DOMAIN h) \cup {Nil}]
      /\ DOMAIN h = 1..Len(h) /\ Len(h) \in Nat /\ Nil \notin DOMAIN h
      /\ \A q \in DOMAIN h : h[q].id \in TraceIDs
  BY HeapElements DEF WellFormed
<1>2. tl \in Seq(DOMAIN h) /\ IsInjective(tl) /\ Range(tl) \subseteq DOMAIN h
  BY ListElements DEF TouchedFits
<1>3. /\ DOMAIN k = 1..(Len(h) + 1) /\ k[r] = t
      /\ \A q \in DOMAIN h : k[q] = h[q]
  <2>1. Len(k) = Len(h) + 1 /\ k \in Seq(Traces)
    BY <1>1, AppendProperties
  <2> QED
    BY <1>1, <2>1, AppendProperties, LenProperties
<1>4. \A id \in TraceIDs : id # t.id => jx[id] = ix[id]
  BY <1>1 DEF Indexed
<1> HIDE DEF k, jx
<1>5. r \notin DOMAIN h /\ r \in DOMAIN k /\ DOMAIN h \subseteq DOMAIN k
  BY <1>1, <1>3
<1>6. tl2 \in Seq(DOMAIN k) /\ IsInjective(tl2) /\ Range(tl2) = Range(tl) \cup {r}
  <2> DEFINE S == DOMAIN k
  <2>1. tl \in Seq(S)
    BY <1>2, <1>5, SeqMonotonic
  <2>2. r \in S /\ r \notin Range(tl)
    BY <1>2, <1>5
  <2> HIDE DEF S
  <2>3. /\ Append(tl, r) \in Seq(S) /\ IsInjective(Append(tl, r))
        /\ Range(Append(tl, r)) = Range(tl) \cup {r}
    BY <1>2, <2>1, <2>2, AppendInjectiveList
  <2> QED
    BY <2>3 DEF S
<1> HIDE DEF tl2
<1>7. ASSUME NEW q \in Range(tl)
      PROVE  k[q].touchedGen = g /\ (k[q].decision = "Sampled" => jx[k[q].id] = q)
  <2>1. /\ q \in DOMAIN h /\ k[q] = h[q] /\ h[q].id \in TraceIDs
        /\ h[q].touchedGen = g /\ (h[q].decision = "Sampled" => ix[h[q].id] = q)
    BY <1>1, <1>2, <1>3 DEF TouchedFits
  <2>2. h[q].decision = "Sampled" => h[q].id # t.id
    BY <1>1, <2>1
  <2> QED
    BY <1>4, <2>1, <2>2
<1>8. TouchedFits(k, jx, tl2, g)
  BY <1>3, <1>6, <1>7 DEF TouchedFits
<1> QED
  BY <1>8 DEF k, jx, tl2

\* What is left to show once a span found its place.
LEMMA IngestFinish ==
  ASSUME EngineInv, IngestSpan,
         WellFormed(heap, index, order, pendingOrder)', Refs \subseteq Refs',
         TouchedFits(heap', index', touched', gen), stats' \in [CounterNames -> Nat]
  PROVE  EngineInv'
<1>1. /\ pc = "ingest" /\ cursor = 1 /\ draining = {} /\ rest # <<>>
      /\ rest' = Tail(rest) /\ gen' = gen /\ pc' = pc /\ now' = now
      /\ cursor' = cursor /\ draining' = draining /\ failed' = failed
      /\ stop' = stop /\ ticker' = ticker /\ closer' = closer
      /\ clock' = clock /\ sinkLog' = sinkLog
  BY DEF EngineInv, LoopInvariant, IngestSpan, Expiring, sectionVars, lifecycle
<1>2. order' \in Seq(Refs') /\ Len(order') \in Nat
  BY LenProperties DEF WellFormed, Refs
<1>3. touched' \in Seq(Refs') /\ IsInjective(touched') /\ Range(touched') \subseteq Refs'
  BY ListElements DEF TouchedFits, Refs
<1>4. sinkLog' \in Seq(Refs')
  BY <1>1, SeqMonotonic DEF EngineInv, OtherTypes
<1>5. rest' \in Seq(Spans)
  BY <1>1, HeadTailProperties DEF EngineInv, OtherTypes
<1>6. cursor' \in 1..(Len(order') + 1)
  BY <1>1, <1>2
<1>7. OtherTypes'
  BY <1>1, <1>3, <1>4, <1>5, <1>6 DEF EngineInv, OtherTypes
<1>8. \A q \in Range(order') : heap'[q].decision # "NotSampled"
  BY <1>2, ListElements DEF WellFormed, Refs
<1>9. \A q \in Range(touched') :
        heap'[q].touchedGen = gen' /\ (heap'[q].decision = "Sampled" => Buffered(q)')
  BY <1>1 DEF TouchedFits, Buffered
<1>10. draining' \subseteq Range(order')
  BY <1>1
<1>11. LoopInvariant'
  BY <1>1, <1>3, <1>8, <1>9, <1>10 DEF LoopInvariant, Expiring
<1> QED
  BY <1>7, <1>11 DEF EngineInv

\* The buffer a span meets.
LEMMA IngestFacts ==
  ASSUME EngineInv, IngestSpan
  PROVE  /\ WellFormed(heap, index, order, pendingOrder)
         /\ TouchedFits(heap, index, touched, gen)
         /\ Head(rest) \in Spans /\ Head(rest).tid \in TraceIDs
         /\ gen \in Nat /\ now \in Nat
         /\ stats \in [CounterNames -> Nat]
         /\ NewTrace(Head(rest)) \in Traces
<1>1. /\ rest \in Seq(Spans) /\ rest # <<>> /\ stats \in [CounterNames -> Nat]
      /\ touched \in Seq(Refs) /\ IsInjective(touched)
  BY DEF EngineInv, OtherTypes, LoopInvariant, IngestSpan
<1>2. Head(rest) \in Spans
  BY <1>1, HeadTailProperties
<1>3. Head(rest).tid \in TraceIDs
  BY <1>2 DEF Spans
<1>4. gen \in Nat /\ now \in Nat
  BY BoundsAssumption DEF EngineInv, OtherTypes
<1>5. TouchedFits(heap, index, touched, gen)
  BY <1>1 DEF EngineInv, LoopInvariant, TouchedFits, Refs, Buffered
<1>6. <<Head(rest)>> \in Seq(Spans)
  BY <1>2
<1>7. NewTrace(Head(rest)) \in Traces
  BY <1>3, <1>4, <1>6 DEF NewTrace, Traces, Decisions
<1> QED
  BY <1>1, <1>2, <1>3, <1>4, <1>5, <1>7 DEF EngineInv

\* A span for a trace that is buffered.
LEMMA IngestKnownInv == ASSUME EngineInv, IngestSpan, IngestKnown PROVE EngineInv'
<1> DEFINE s == Head(rest)
           r == index[s.tid]
           t == WithSpan(heap[r], s)
<1>1. /\ WellFormed(heap, index, order, pendingOrder)
      /\ TouchedFits(heap, index, touched, gen)
      /\ s \in Spans /\ s.tid \in TraceIDs /\ gen \in Nat
      /\ stats \in [CounterNames -> Nat]
  BY IngestFacts
<1>2. /\ r # Nil /\ heap' = [heap EXCEPT ![r] = t] /\ touched' = MarkTouched(r)
      /\ index' = index /\ order' = order /\ pendingOrder' = pendingOrder
      /\ stats' = IF SpanCapReached(heap[r])
                  THEN [stats EXCEPT !.droppedMaxSpansPerTrace = @ + 1]
                  ELSE stats
  BY DEF IngestKnown
<1>3. /\ heap \in Seq(Traces) /\ r \in Refs /\ heap[r] \in Traces /\ heap[r].id = s.tid
  <2>1. heap \in Seq(Traces) /\ r \in Refs /\ heap[r].id = s.tid
    BY <1>1, <1>2 DEF WellFormed, Refs
  <2> QED
    BY <2>1, HeapElements DEF Refs
<1>4. /\ t \in Traces /\ t.id = heap[r].id /\ t.decision = heap[r].decision
      /\ t.touchedGen = gen
  <2> DEFINE u == IF SpanCapReached(heap[r]) \/ IsDuplicate(heap[r], s)
                  THEN heap[r].spans ELSE Append(heap[r].spans, s)
  <2>1. heap[r].spans \in Seq(Spans)
    BY <1>3 DEF Traces
  <2>2. u \in Seq(Spans)
    BY <1>1, <2>1, AppendProperties
  <2>3. t = [heap[r] EXCEPT !.spans = u, !.touchedGen = gen]
    BY DEF WithSpan
  <2> HIDE DEF u, t
  <2> QED
    BY <1>1, <1>3, <2>2, <2>3 DEF Traces
<1> HIDE DEF s, r, t
<1>5. /\ DOMAIN heap' = Refs /\ heap'[r] = t
      /\ \A q \in Refs : q # r => heap'[q] = heap[q]
  BY <1>2, <1>3, <1>4, HeapUpdate DEF Refs
<1>6. WellFormed(heap, index, order, pendingOrder)'
  BY <1>1, <1>2, <1>3, <1>4, SpanWellFormed DEF Refs
<1>7. touched \in Seq(Refs) /\ IsInjective(touched) /\ Range(touched) \subseteq Refs
  BY <1>1, ListElements DEF TouchedFits, Refs
<1>8. ASSUME NEW q \in Refs, q \in Range(touched) \/ q = r
      PROVE  /\ heap'[q].touchedGen = gen
             /\ heap'[q].decision = "Sampled" => index'[heap'[q].id] = q
  <2>1. CASE q = r
    <3>1. index'[heap'[r].id] = r
      BY <1>2, <1>3, <1>4, <1>5 DEF r
    <3> QED
      BY <2>1, <3>1, <1>4, <1>5
  <2>2. CASE q # r
    BY <1>1, <1>2, <1>5, <1>8, <2>2 DEF TouchedFits
  <2> QED
    BY <2>1, <2>2
<1>9. TouchedFits(heap', index', touched', gen)
  <2>1. CASE heap[r].touchedGen = gen
    <3>1. touched' = touched
      BY <1>2, <2>1 DEF MarkTouched
    <3> QED
      BY <3>1, <1>5, <1>7, <1>8 DEF TouchedFits
  <2>2. CASE heap[r].touchedGen # gen
    <3>1. touched' = Append(touched, r) /\ r \notin Range(touched)
      BY <1>1, <1>2, <2>2 DEF MarkTouched, TouchedFits
    <3>2. /\ touched' \in Seq(Refs) /\ IsInjective(touched')
          /\ Range(touched') = Range(touched) \cup {r}
      BY <1>3, <1>7, <3>1, AppendInjectiveList
    <3>3. \A q \in Range(touched') : q \in Refs /\ (q \in Range(touched) \/ q = r)
      BY <1>3, <1>7, <3>2
    <3> QED
      BY <3>2, <3>3, <1>5, <1>8 DEF TouchedFits
  <2> QED
    BY <2>1, <2>2
<1>10. stats' \in [CounterNames -> Nat]
  <2>1. stats.droppedMaxSpansPerTrace \in Nat
    BY <1>1 DEF CounterNames
  <2> QED
    BY <1>1, <1>2, <2>1
<1>11. Refs \subseteq Refs'
  BY <1>5 DEF Refs
<1> QED
  BY <1>6, <1>9, <1>10, <1>11, IngestFinish

\* A span for a new trace.
LEMMA IngestNewInv == ASSUME EngineInv, IngestSpan, IngestNew PROVE EngineInv'
<1> DEFINE s == Head(rest)
           r == Len(heap) + 1
           t == NewTrace(s)
<1>1. /\ WellFormed(heap, index, order, pendingOrder)
      /\ TouchedFits(heap, index, touched, gen)
      /\ t \in Traces /\ stats \in [CounterNames -> Nat]
  BY IngestFacts
<1>2. /\ index[t.id] = Nil /\ t.decision = "Pending" /\ t.touchedGen = gen
      /\ heap' = Append(heap, t) /\ index' = Indexed(index, t.id, r)
      /\ order' = Append(order, r) /\ pendingOrder' = Append(pendingOrder, r)
      /\ touched' = Append(touched, r) /\ stats' = stats
  BY DEF IngestNew, NewTrace, Indexed
<1> HIDE DEF t
<1>3. WellFormed(heap, index, order, pendingOrder)'
  BY <1>1, <1>2, AddWellFormed
<1>4. TouchedFits(heap', index', touched', gen)
  BY <1>1, <1>2, AddTouched
<1>5. Refs \subseteq Refs'
  <2>1. heap \in Seq(Traces) /\ heap' \in Seq(Traces) /\ Len(heap') = Len(heap) + 1
    BY <1>1, <1>2, AppendProperties DEF WellFormed
  <2> QED
    BY <2>1, LenProperties DEF Refs
<1> QED
  BY <1>1, <1>2, <1>3, <1>4, <1>5, IngestFinish

\* A span for a new trace that takes the place of the oldest pending one.
LEMMA IngestEvictingInv == ASSUME EngineInv, IngestSpan, IngestEvicting PROVE EngineInv'
<1> DEFINE s == Head(rest)
           r == Len(heap) + 1
           t == NewTrace(s)
           v == OldestPending
           h == Decided(heap, v, "NotSampled")
           ix == Unindexed(index, heap[v].id)
           o == Unlink(order, v)
           p == Unlink(pendingOrder, v)
<1>1. /\ WellFormed(heap, index, order, pendingOrder)
      /\ TouchedFits(heap, index, touched, gen)
      /\ s.tid \in TraceIDs /\ t \in Traces /\ stats \in [CounterNames -> Nat]
  BY IngestFacts
<1>2. /\ index[s.tid] = Nil /\ pendingOrder # <<>>
      /\ heap' = Append(h, t) /\ index' = Indexed(ix, s.tid, r)
      /\ order' = Append(o, r) /\ pendingOrder' = Append(p, r)
      /\ touched' = Append(touched, r) /\ stats' = DropCounted
  BY DEF IngestEvicting, Decided, Unindexed, Indexed
<1>3. t.id = s.tid /\ t.decision = "Pending" /\ t.touchedGen = gen
  BY DEF NewTrace
<1> HIDE DEF s, t
<1>4. /\ heap \in Seq(Traces) /\ index \in [TraceIDs -> Refs \cup {Nil}]
      /\ pendingOrder \in Seq(Refs)
  BY <1>1 DEF WellFormed, Refs
<1>5. v \in Range(order) /\ v \in Refs
  <2>1. v \in Range(pendingOrder)
    BY <1>2, <1>4, LenProperties DEF OldestPending, Range
  <2> QED
    BY <2>1, BufferedInOrder
<1> HIDE DEF v
<1>6. /\ WellFormed(h, ix, o, p)
      /\ TouchedFits(h, ix, touched, gen)
  BY <1>1, <1>5, RemoveWellFormed, DropTouched
<1>7. h \in Seq(Traces) /\ DOMAIN h = Refs
  <2>1. "NotSampled" \in Decisions
    BY DEF Decisions
  <2> QED
    BY <1>4, <1>5, <2>1, DecisionUpdate DEF Refs
<1>8. r = Len(h) + 1
  BY <1>4, <1>7, LenProperties DEF Refs
<1>9. ix[s.tid] = Nil
  BY <1>1, <1>2, <1>4 DEF Unindexed
<1> HIDE DEF r, h, ix, o, p
<1>10. WellFormed(heap, index, order, pendingOrder)'
  BY <1>1, <1>2, <1>3, <1>6, <1>8, <1>9, AddWellFormed
<1>11. TouchedFits(heap', index', touched', gen)
  BY <1>1, <1>2, <1>3, <1>6, <1>8, <1>9, AddTouched
<1>12. Refs \subseteq Refs'
  <2>1. heap' \in Seq(Traces) /\ Len(heap') = Len(h) + 1
    BY <1>1, <1>2, <1>7, AppendProperties
  <2> QED
    BY <1>7, <2>1, LenProperties DEF Refs
<1>13. stats' \in [CounterNames -> Nat]
  <2>1. stats.notSampled \in Nat
    BY <1>1 DEF CounterNames
  <2> QED
    BY <1>1, <1>2, <2>1 DEF DropCounted
<1> QED
  BY <1>10, <1>11, <1>12, <1>13, IngestFinish

\* A span that is lost: nothing to evict.
LEMMA IngestDroppingInv == ASSUME EngineInv, IngestSpan, IngestDropping PROVE EngineInv'
<1>1. /\ WellFormed(heap, index, order, pendingOrder)
      /\ TouchedFits(heap, index, touched, gen)
      /\ stats \in [CounterNames -> Nat]
  BY IngestFacts
<1>2. /\ stats' = [stats EXCEPT !.droppedMaxTraces = @ + 1]
      /\ heap' = heap /\ index' = index /\ order' = order
      /\ pendingOrder' = pendingOrder /\ touched' = touched
  BY DEF IngestDropping, buffer
<1>3. stats' \in [CounterNames -> Nat]
  <2>1. stats.droppedMaxTraces \in Nat
    BY <1>1 DEF CounterNames
  <2> QED
    BY <1>1, <1>2, <2>1
<1> QED
  BY <1>1, <1>2, <1>3, IngestFinish DEF Refs

-----------------------------------------------------------------------------
(* The theorems.                                                           *)

\* A step that changes nothing.
LEMMA StutterInv == ASSUME EngineInv, UNCHANGED vars PROVE EngineInv'
  BY DEF EngineInv, WellFormed, OtherTypes, LoopInvariant, Expiring, Buffered, Refs,
         vars, buffer, batchVars, sectionVars, lifecycle

\* Every step of every goroutine keeps the invariant.
LEMMA EngineStepInv == ASSUME EngineInv, [Next]_vars PROVE EngineInv'
<1>1. CASE QuietStep
  BY <1>1, QuietStepInv
<1>2. CASE ExpireDrop
  BY <1>2, ExpireDropInv
<1>3. CASE IngestSpan
  BY <1>3, IngestKnownInv, IngestNewInv, IngestEvictingInv, IngestDroppingInv DEF IngestSpan
<1>4. CASE DecideTouched
  BY <1>4, DecideTouchedInv
<1>5. CASE DrainDecide
  BY <1>5, DrainDecideInv
<1>6. CASE UNCHANGED vars
  BY <1>6, StutterInv
<1> QED
  BY <1>1, <1>2, <1>3, <1>4, <1>5, <1>6
  DEF Next, Consume, Ticker, Shutdown, QuietStep

\* The inductive invariant holds at every step of the engine (EngineInv).
THEOREM EngineInvariant == Spec => []EngineInv
<1>1. EngineInv /\ [Next]_vars => EngineInv'
  BY EngineStepInv
<1> QED
  BY EngineInit, <1>1, PTL DEF Spec

\* Every variable keeps its type (TypeOK).
THEOREM TypeCorrect == Spec => []TypeOK
<1>1. EngineInv => TypeOK
  BY DEF EngineInv, WellFormed, OtherTypes, TypeOK, Refs
<1> QED
  BY <1>1, EngineInvariant, PTL

\* What the loops rely on holds between and inside them (LoopInvariant).
THEOREM LoopsCorrect == Spec => []LoopInvariant
<1>1. EngineInv => LoopInvariant
  BY DEF EngineInv
<1> QED
  BY <1>1, EngineInvariant, PTL

\* The index, the arrival list and the pending list describe one buffer at
\* every step, for any number of traces, batches and caps (BufferConsistent).
THEOREM BufferAlwaysConsistent == Spec => []BufferConsistent
<1>1. ASSUME EngineInv PROVE BufferConsistent
  <2>1. WellFormed(heap, index, order, pendingOrder)
    BY <1>1 DEF EngineInv
  <2>2. /\ Range(order) \subseteq Refs /\ Range(pendingOrder) \subseteq Refs
        /\ \A r \in Refs : Pending(r) <=> r \in Range(pendingOrder)
        /\ \A r \in Refs : Buffered(r) <=> r \in Range(order)
        /\ \A r \in Refs : heap[r].id \in TraceIDs
    BY <1>1, <2>1, BufferedInOrder, HeapElements DEF WellFormed, Refs
  <2>3. Nil \notin Refs
    BY <2>1, HeapElements DEF WellFormed, Refs
  <2>4. \A id \in TraceIDs : index[id] # Nil => index[id] \in Refs /\ heap[index[id]].id = id
    BY <2>1 DEF WellFormed, Refs
  <2>5. Range(order) \subseteq {index[id] : id \in TraceIDs} \ {Nil}
    BY <2>2, <2>3 DEF Buffered
  <2>6. {index[id] : id \in TraceIDs} \ {Nil} \subseteq Range(order)
    BY <2>2, <2>4 DEF Buffered
  <2>7. Range(pendingOrder) = {r \in Refs : Pending(r)}
    BY <2>2
  <2>8. Range(pendingOrder) \subseteq Range(order)
    BY <2>1, <2>2 DEF WellFormed, Refs
  <2> QED
    BY <2>1, <2>4, <2>5, <2>6, <2>7, <2>8 DEF WellFormed, BufferConsistent
<1> QED
  BY <1>1, EngineInvariant, PTL
-----------------------------------------------------------------------------
(* What a step does to the spans and decisions of the traces.              *)

\* Expiry drops one pending trace and changes no spans.
LEMMA ExpireDropEffect ==
  ASSUME EngineInv, ExpireDrop
  PROVE  /\ AtCursor \in Refs /\ Pending(AtCursor) /\ Refs' = Refs
         /\ heap'[AtCursor].spans = heap[AtCursor].spans
         /\ heap'[AtCursor].decision = "NotSampled"
         /\ heap'[AtCursor].touchedGen = heap[AtCursor].touchedGen
         /\ heap'[AtCursor].arrived = heap[AtCursor].arrived
         /\ \A q \in Refs : q # AtCursor => heap'[q] = heap[q]
         /\ Len(order') = Len(order) - 1 /\ Range(order') = Range(order) \ {AtCursor}
<1> DEFINE r == AtCursor
           g == Decided(heap, r, "NotSampled")
<1>1. /\ WellFormed(heap, index, order, pendingOrder)
      /\ heap \in Seq(Traces) /\ order \in Seq(Refs) /\ Len(order) \in Nat
  BY LenProperties DEF EngineInv, WellFormed, Refs
<1>2. cursor \in 1..(Len(order) + 1) /\ ~(cursor > Len(order)) /\ Pending(r)
  BY DEF EngineInv, OtherTypes, ExpireDrop, WalkOver
<1>3. r \in Range(order) /\ r \in Refs
  <2>1. cursor \in 1..Len(order)
    BY <1>1, <1>2
  <2>2. cursor \in DOMAIN order
    BY <1>1, <2>1, LenProperties
  <2>3. r \in Range(order)
    BY <2>2 DEF AtCursor, Range
  <2> QED
    BY <1>1, <2>3, ListElements
<1>4. heap' = g /\ order' = Unlink(order, r)
  BY DEF ExpireDrop, RemoveLocked, Decided
<1> HIDE DEF r
<1>5. "NotSampled" \in Decisions
  BY DEF Decisions
<1>6. /\ DOMAIN g = Refs /\ g[r].decision = "NotSampled" /\ g[r].spans = heap[r].spans
      /\ g[r].touchedGen = heap[r].touchedGen /\ g[r].arrived = heap[r].arrived
      /\ \A q \in Refs : q # r => g[q] = heap[q]
  BY <1>1, <1>3, <1>5, DecisionUpdate DEF Refs
<1> HIDE DEF g
<1>7. Len(order') = Len(order) - 1 /\ Range(order') = Range(order) \ {r}
  BY <1>1, <1>3, <1>4, RemoveWellFormed
<1> QED
  BY <1>2, <1>3, <1>4, <1>6, <1>7 DEF r, Refs

\* A span for a buffered trace is appended below the cap, or ignored.
LEMMA IngestKnownEffect ==
  ASSUME EngineInv, IngestSpan, IngestKnown
  PROVE  LET s == Head(rest)
             r == index[s.tid]
         IN /\ r \in Refs /\ Refs' = Refs /\ order' = order
            /\ heap'[r].decision = heap[r].decision /\ heap'[r].touchedGen = gen
            /\ heap'[r].arrived = heap[r].arrived /\ Buffered(r)
            /\ \/ heap'[r].spans = heap[r].spans
               \/ ~SpanCapReached(heap[r]) /\ heap'[r].spans = Append(heap[r].spans, s)
            /\ \A q \in Refs : q # r => heap'[q] = heap[q]
<1> DEFINE s == Head(rest)
           r == index[s.tid]
           t == WithSpan(heap[r], s)
<1>1. /\ WellFormed(heap, index, order, pendingOrder)
      /\ s \in Spans /\ s.tid \in TraceIDs /\ gen \in Nat
  BY IngestFacts
<1>2. r # Nil /\ heap' = [heap EXCEPT ![r] = t] /\ order' = order
  BY DEF IngestKnown
<1>3. heap \in Seq(Traces) /\ r \in Refs /\ Buffered(r)
  BY <1>1, <1>2 DEF WellFormed, Refs, Buffered
<1>4. heap[r] \in Traces
  BY <1>3, HeapElements DEF Refs
<1> DEFINE u == IF SpanCapReached(heap[r]) \/ IsDuplicate(heap[r], s)
                THEN heap[r].spans ELSE Append(heap[r].spans, s)
<1>5. u \in Seq(Spans)
  BY <1>1, <1>4, AppendProperties DEF Traces
<1>6. t = [heap[r] EXCEPT !.spans = u, !.touchedGen = gen]
  BY DEF WithSpan
<1>7. \/ u = heap[r].spans
      \/ ~SpanCapReached(heap[r]) /\ u = Append(heap[r].spans, s)
  OBVIOUS
<1> HIDE DEF t, u
<1>8. /\ t \in Traces /\ t.decision = heap[r].decision /\ t.spans = u /\ t.touchedGen = gen
      /\ t.arrived = heap[r].arrived
  BY <1>1, <1>4, <1>5, <1>6 DEF Traces
<1>9. /\ DOMAIN heap' = Refs /\ heap'[r] = t
      /\ \A q \in Refs : q # r => heap'[q] = heap[q]
  BY <1>2, <1>3, <1>8, HeapUpdate DEF Refs
<1>10. /\ r \in Refs /\ Refs' = Refs /\ order' = order
       /\ heap'[r].decision = heap[r].decision /\ heap'[r].touchedGen = gen
       /\ heap'[r].arrived = heap[r].arrived /\ Buffered(r)
       /\ \/ heap'[r].spans = heap[r].spans
          \/ ~SpanCapReached(heap[r]) /\ heap'[r].spans = Append(heap[r].spans, s)
       /\ \A q \in Refs : q # r => heap'[q] = heap[q]
  BY <1>2, <1>3, <1>7, <1>8, <1>9 DEF Refs
<1> QED
  BY <1>10

\* The traces of a heap that grew by one.
LEMMA HeapAppend ==
  ASSUME NEW h \in Seq(Traces), NEW t \in Traces, NEW r, r = Len(h) + 1
  PROVE  /\ DOMAIN Append(h, t) = (DOMAIN h) \cup {r} /\ r \notin DOMAIN h
         /\ Append(h, t)[r] = t
         /\ \A q \in DOMAIN h : Append(h, t)[q] = h[q]
<1>1. DOMAIN h = 1..Len(h) /\ Len(h) \in Nat
  BY HeapElements
<1>2. Append(h, t) \in Seq(Traces) /\ Len(Append(h, t)) = Len(h) + 1
  BY AppendProperties
<1>3. DOMAIN Append(h, t) = 1..(Len(h) + 1)
  BY <1>2, LenProperties
<1> QED
  BY <1>1, <1>3, AppendProperties

\* A new trace has the one span, and room was made for it at the cap.
LEMMA IngestNewEffect ==
  ASSUME EngineInv, IngestSpan, IngestNew
  PROVE  LET r == Len(heap) + 1
         IN /\ Refs' = Refs \cup {r} /\ heap'[r].spans = <<Head(rest)>>
            /\ heap'[r].decision = "Pending" /\ heap'[r].touchedGen = gen
            /\ heap'[r].arrived = now
            /\ \A q \in Refs : heap'[q] = heap[q]
            /\ Len(order') = Len(order) + 1 /\ ~AtCapacity
            /\ Range(order') = Range(order) \cup {r}
<1> DEFINE r == Len(heap) + 1
           t == NewTrace(Head(rest))
<1>1. /\ WellFormed(heap, index, order, pendingOrder) /\ t \in Traces
      /\ heap \in Seq(Traces) /\ order \in Seq(Refs)
  BY IngestFacts DEF WellFormed, Refs
<1>2. /\ heap' = Append(heap, t) /\ order' = Append(order, r) /\ ~AtCapacity
      /\ t.spans = <<Head(rest)>> /\ t.decision = "Pending" /\ t.touchedGen = gen
      /\ t.arrived = now
  BY DEF IngestNew, NewTrace
<1> HIDE DEF t
<1>3. /\ DOMAIN heap' = Refs \cup {r} /\ heap'[r] = t
      /\ \A q \in Refs : heap'[q] = heap[q]
  BY <1>1, <1>2, HeapAppend DEF Refs
<1>4. Len(order') = Len(order) + 1 /\ Range(order') = Range(order) \cup {r}
  BY <1>1, <1>2, AppendLength
<1> QED
  BY <1>2, <1>3, <1>4 DEF Refs

\* The victim loses its place, not its spans, and the new trace takes it.
LEMMA IngestEvictingEffect ==
  ASSUME EngineInv, IngestSpan, IngestEvicting
  PROVE  LET r == Len(heap) + 1
         IN /\ Refs' = Refs \cup {r} /\ heap'[r].spans = <<Head(rest)>>
            /\ heap'[r].decision = "Pending" /\ heap'[r].touchedGen = gen
            /\ OldestPending \in Refs
            /\ heap'[OldestPending].spans = heap[OldestPending].spans
            /\ heap'[OldestPending].decision = "NotSampled"
            /\ heap'[OldestPending].touchedGen = heap[OldestPending].touchedGen
            /\ heap'[r].arrived = now
            /\ heap'[OldestPending].arrived = heap[OldestPending].arrived
            /\ \A q \in Refs : q # OldestPending => heap'[q] = heap[q]
            /\ Len(order') = Len(order) /\ AtCapacity
            /\ OldestPending \in Range(pendingOrder)
            /\ Range(order') = (Range(order) \ {OldestPending}) \cup {r}
<1> DEFINE r == Len(heap) + 1
           t == NewTrace(Head(rest))
           v == OldestPending
           h == Decided(heap, v, "NotSampled")
           o == Unlink(order, v)
<1>1. /\ WellFormed(heap, index, order, pendingOrder) /\ t \in Traces
      /\ heap \in Seq(Traces) /\ order \in Seq(Refs) /\ pendingOrder \in Seq(Refs)
      /\ Len(order) \in Nat
  BY IngestFacts, LenProperties DEF WellFormed, Refs
<1>2. /\ heap' = Append(h, t) /\ order' = Append(o, r) /\ AtCapacity
      /\ t.spans = <<Head(rest)>> /\ t.decision = "Pending" /\ t.touchedGen = gen
      /\ t.arrived = now /\ pendingOrder # <<>>
  BY DEF IngestEvicting, NewTrace, Decided
<1>3. v \in Range(order) /\ v \in Refs /\ v \in Range(pendingOrder)
  <2>1. v \in Range(pendingOrder)
    BY <1>1, <1>2, LenProperties DEF OldestPending, Range
  <2> QED
    BY <2>1, BufferedInOrder
<1> HIDE DEF t, v
<1>4. "NotSampled" \in Decisions
  BY DEF Decisions
<1>5. /\ h \in Seq(Traces) /\ DOMAIN h = Refs
      /\ h[v].decision = "NotSampled" /\ h[v].spans = heap[v].spans
      /\ h[v].touchedGen = heap[v].touchedGen /\ h[v].arrived = heap[v].arrived
      /\ \A q \in Refs : q # v => h[q] = heap[q]
  BY <1>1, <1>3, <1>4, DecisionUpdate DEF Refs
<1>6. /\ WellFormed(h, Unindexed(index, heap[v].id), o, Unlink(pendingOrder, v))
      /\ Len(o) = Len(order) - 1 /\ Range(o) = Range(order) \ {v}
  BY <1>1, <1>3, RemoveWellFormed
<1> HIDE DEF h, o
<1>7. r = Len(h) + 1 /\ r \notin Refs
  <2>1. /\ Refs = 1..Len(heap) /\ Len(heap) \in Nat
        /\ Refs = 1..Len(h) /\ Len(h) \in Nat
    BY <1>1, <1>5, HeapElements DEF Refs
  <2> QED
    BY <2>1
<1> HIDE DEF r
<1>8. /\ DOMAIN heap' = Refs \cup {r} /\ heap'[r] = t
      /\ \A q \in Refs : heap'[q] = h[q]
  BY <1>1, <1>2, <1>5, <1>7, HeapAppend
<1>9. o \in Seq(Refs)
  BY <1>5, <1>6 DEF WellFormed
<1>10. Len(order') = Len(o) + 1 /\ Range(order') = Range(o) \cup {r}
  BY <1>2, <1>9, AppendLength
<1>11. Len(order') = Len(order) /\ Range(order') = (Range(order) \ {v}) \cup {r}
  BY <1>1, <1>6, <1>10
<1> QED
  BY <1>2, <1>3, <1>5, <1>8, <1>11 DEF v, r, Refs

\* The generation marks: while a batch is ingested, the traces that carry its
\* generation are those in touched, so that markTouched may rely on the mark.
MarksAreListed ==
  /\ \A r \in Refs : heap[r].touchedGen <= gen
  /\ pc = "ingest" => \A r \in Refs : heap[r].touchedGen = gen => r \in Range(touched)

\* A new trace is listed last.
LEMMA TouchedGains ==
  ASSUME EngineInv, NEW r, touched' = Append(touched, r)
  PROVE  r \in Range(touched') /\ Range(touched) \subseteq Range(touched')
<1> DEFINE T == Refs \cup {r}
<1>1. touched \in Seq(Refs) /\ Refs \subseteq T /\ r \in T
  BY DEF EngineInv, OtherTypes
<1> HIDE DEF T
<1>2. touched \in Seq(T)
  BY <1>1, SeqMonotonic
<1> QED
  BY <1>1, <1>2, AppendProperties, LenProperties DEF Range

\* A span that found its trace leaves it in touched.
LEMMA TouchedGrows ==
  ASSUME EngineInv, MarksAreListed, IngestSpan, IngestKnown
  PROVE  /\ index[Head(rest).tid] \in Range(touched')
         /\ Range(touched) \subseteq Range(touched')
<1> DEFINE r == index[Head(rest).tid]
<1>1. r \in Refs /\ touched' = MarkTouched(r) /\ pc = "ingest"
  BY IngestKnownEffect DEF IngestKnown, IngestSpan
<1> HIDE DEF r
<1>2. CASE heap[r].touchedGen = gen
  BY <1>1, <1>2 DEF MarkTouched, MarksAreListed, r
<1>3. CASE heap[r].touchedGen # gen
  <2>1. touched' = Append(touched, r)
    BY <1>1, <1>3 DEF MarkTouched
  <2> QED
    BY <2>1, TouchedGains DEF r
<1> QED
  BY <1>2, <1>3

\* The trace a span finds was not dropped.
LEMMA KnownIsBuffered ==
  ASSUME EngineInv, IngestSpan, IngestKnown
  PROVE  heap[index[Head(rest).tid]].decision # "NotSampled"
<1> DEFINE r == index[Head(rest).tid]
<1>1. WellFormed(heap, index, order, pendingOrder) /\ Head(rest).tid \in TraceIDs
  BY IngestFacts
<1>2. r # Nil
  BY DEF IngestKnown
<1>3. r \in DOMAIN heap /\ index[heap[r].id] = r
  BY <1>1, <1>2 DEF WellFormed
<1> HIDE DEF r
<1>4. heap[r].decision # "NotSampled"
  BY <1>1, <1>3 DEF WellFormed
<1> QED
  BY <1>4 DEF r

\* A decided trace keeps its spans; left pending, it has none to be kept for.
LEMMA DecideEffect ==
  ASSUME EngineInv, NEW r \in Refs, DecideLocked(r),
         heap[r].decision = "Sampled" => Buffered(r)
  PROVE  /\ Refs' = Refs /\ Len(order') <= Len(order)
         /\ heap'[r].spans = heap[r].spans /\ heap'[r].touchedGen = heap[r].touchedGen
         /\ heap'[r].decision \in {heap[r].decision, "Sampled"}
         /\ heap'[r].decision = "Pending" => ~KeepWorthy(r)
         /\ \A q \in Refs : q # r => heap'[q] = heap[q]
<1>1. heap \in Seq(Traces) /\ "Sampled" \in Decisions
  BY DEF EngineInv, WellFormed, Decisions
<1>2. Decided(heap, r, "Sampled")[r].decision = "Sampled"
  BY <1>1, DecisionUpdate DEF Refs
<1>3. CASE WantsForward(r)
  BY <1>2, <1>3, DecideStep DEF DecideLocked, Forward, Hold, LeaveUndecided, Decided
<1>4. CASE ~WantsForward(r)
  <2>1. heap' = heap
    BY <1>4 DEF DecideLocked, Forward, Hold, LeaveUndecided, buffer
  <2> QED
    BY <1>4, <2>1, DecideStep DEF WantsForward, Pending
<1> QED
  BY <1>3, <1>4

\* What DecideTouched and DrainDecide decide.
LEMMA TouchedHead ==
  ASSUME EngineInv, DecideTouched
  PROVE  LET r == Head(touched)
         IN /\ r \in Refs /\ DecideLocked(r) /\ (heap[r].decision = "Sampled" => Buffered(r))
            /\ Range(touched') = Range(touched) \ {r}
<1>1. /\ touched \in Seq(Refs) /\ touched # <<>> /\ IsInjective(touched)
      /\ \A q \in Range(touched) : heap[q].decision = "Sampled" => Buffered(q)
      /\ DecideLocked(Head(touched)) /\ touched' = Tail(touched)
  BY DEF EngineInv, OtherTypes, LoopInvariant, DecideTouched
<1>2. /\ Head(touched) \in Range(touched) /\ Head(touched) \in Refs
      /\ Range(touched') = Range(touched) \ {Head(touched)}
  BY <1>1, TailInjective
<1> QED
  BY <1>1, <1>2

\* Shutdown decides traces that are still buffered.
LEMMA DrainedTrace ==
  ASSUME EngineInv, DrainDecide
  PROVE  \E r \in Refs : DecideLocked(r) /\ (heap[r].decision = "Sampled" => Buffered(r))
<1>1. PICK r \in draining : DecideLocked(r)
  BY DEF DrainDecide
<1>2. r \in Refs /\ Buffered(r)
  BY BufferedInOrder DEF EngineInv, OtherTypes, LoopInvariant
<1> QED
  BY <1>1, <1>2

\* The quiet steps change neither the traces nor the lists.
LEMMA QuietEffect ==
  ASSUME QuietStep \/ UNCHANGED vars
  PROVE  heap' = heap /\ order' = order /\ touched' = touched
  BY DEF QuietStep, ConsumeBegin, BeginConsume, BeginGeneration, EndIngest, EndDecide, ConsumeEnd,
         ExpireKeep, Start, TickerFires, TickerStops, TickBegin, TickEnd, ShutdownBegin,
         ShutdownTickerDone, ShutdownCancelled, DrainBegin, DrainForce, ShutdownFails,
         ShutdownEnd, ClockAdvances, buffer, batchVars, vars

\* The steps of the engine, as the proofs below split them.
LEMMA StepKinds ==
  ASSUME [Next]_vars
  PROVE  \/ QuietStep \/ UNCHANGED vars \/ ExpireDrop
         \/ IngestSpan /\ (IngestKnown \/ IngestNew \/ IngestEvicting \/ IngestDropping)
         \/ DecideTouched \/ DrainDecide
  BY DEF Next, Consume, Ticker, Shutdown, QuietStep, IngestSpan

-----------------------------------------------------------------------------
(* The caps.                                                               *)

\* A trace starts with one span.
LEMMA SingletonLength == \A x : Len(<<x>>) = 1
  OBVIOUS

\* No step exceeds a cap.
LEMMA CapsStep == ASSUME EngineInv, HardCaps, [Next]_vars PROVE HardCaps'
<1>1. /\ MaxTraces \in Nat /\ MaxSpansPerTrace \in Nat /\ Len(order) \in Nat
      /\ heap \in Seq(Traces)
  BY CapsAssumption, LenProperties DEF EngineInv, WellFormed
<1>2. \A q \in Refs : heap[q].spans \in Seq(Spans) /\ Len(heap[q].spans) \in Nat
  BY <1>1, HeapElements, LenProperties DEF Refs, Traces
<1>3. CASE QuietStep \/ UNCHANGED vars
  BY <1>3, QuietEffect DEF HardCaps, Refs
<1>4. CASE ExpireDrop
  <2>1. \A q \in Refs' : q \in Refs /\ heap'[q].spans = heap[q].spans
    BY <1>4, ExpireDropEffect
  <2>2. Len(order') = Len(order) - 1
    BY <1>4, ExpireDropEffect
  <2>3. MaxTraces > 0 => Len(order') <= MaxTraces
    BY <1>1, <2>2 DEF HardCaps
  <2>4. ASSUME MaxSpansPerTrace > 0, NEW q \in Refs'
        PROVE  Len(heap'[q].spans) <= MaxSpansPerTrace
    <3>1. CASE q \in Refs /\ heap'[q].spans = heap[q].spans
      BY <2>4, <3>1 DEF HardCaps
    <3>2. CASE Len(heap'[q].spans) = 1
      BY CapsAssumption, <2>4, <3>2
    <3> QED
      BY <2>1, <3>1, <3>2
  <2> QED
    BY <2>3, <2>4 DEF HardCaps
<1>5. CASE IngestSpan /\ IngestKnown
  <2> DEFINE r == index[Head(rest).tid]
  <2>1. /\ r \in Refs /\ Refs' = Refs /\ order' = order
        /\ \/ heap'[r].spans = heap[r].spans
           \/ ~SpanCapReached(heap[r]) /\ heap'[r].spans = Append(heap[r].spans, Head(rest))
        /\ \A q \in Refs : q # r => heap'[q] = heap[q]
    BY <1>5, IngestKnownEffect
  <2> HIDE DEF r
  <2>2. Len(Append(heap[r].spans, Head(rest))) = Len(heap[r].spans) + 1
    BY <1>2, <2>1, AppendLength
  <2>3. MaxSpansPerTrace > 0 => Len(heap'[r].spans) <= MaxSpansPerTrace
    BY <1>1, <1>2, <2>1, <2>2 DEF HardCaps, SpanCapReached
  <2> QED
    BY <2>1, <2>3 DEF HardCaps
<1>6. CASE IngestSpan /\ IngestNew
  <2>1. \A q \in Refs' : \/ q \in Refs /\ heap'[q].spans = heap[q].spans
                         \/ Len(heap'[q].spans) = 1
    BY <1>6, IngestNewEffect, SingletonLength
  <2>2. Len(order') = Len(order) + 1 /\ ~AtCapacity
    BY <1>6, IngestNewEffect
  <2>3. MaxTraces > 0 => Len(order') <= MaxTraces
    BY <1>1, <2>2 DEF HardCaps, AtCapacity
  <2>4. ASSUME MaxSpansPerTrace > 0, NEW q \in Refs'
        PROVE  Len(heap'[q].spans) <= MaxSpansPerTrace
    <3>1. CASE q \in Refs /\ heap'[q].spans = heap[q].spans
      BY <2>4, <3>1 DEF HardCaps
    <3>2. CASE Len(heap'[q].spans) = 1
      BY CapsAssumption, <2>4, <3>2
    <3> QED
      BY <2>1, <3>1, <3>2
  <2> QED
    BY <2>3, <2>4 DEF HardCaps
<1>7. CASE IngestSpan /\ IngestEvicting
  <2>1. \A q \in Refs' : \/ q \in Refs /\ heap'[q].spans = heap[q].spans
                         \/ Len(heap'[q].spans) = 1
    BY <1>7, IngestEvictingEffect, SingletonLength, ZenonT(60)
  <2>2. Len(order') = Len(order)
    BY <1>7, IngestEvictingEffect
  <2>3. MaxTraces > 0 => Len(order') <= MaxTraces
    BY <1>1, <2>2 DEF HardCaps
  <2>4. ASSUME MaxSpansPerTrace > 0, NEW q \in Refs'
        PROVE  Len(heap'[q].spans) <= MaxSpansPerTrace
    <3>1. CASE q \in Refs /\ heap'[q].spans = heap[q].spans
      BY <2>4, <3>1 DEF HardCaps
    <3>2. CASE Len(heap'[q].spans) = 1
      BY CapsAssumption, <2>4, <3>2
    <3> QED
      BY <2>1, <3>1, <3>2
  <2> QED
    BY <2>3, <2>4 DEF HardCaps
<1>8. CASE IngestSpan /\ IngestDropping
  BY <1>8 DEF IngestDropping, buffer, HardCaps, Refs
<1>9. ASSUME NEW r \in Refs, DecideLocked(r), heap[r].decision = "Sampled" => Buffered(r)
      PROVE  HardCaps'
  <2>1. \A q \in Refs' : q \in Refs /\ heap'[q].spans = heap[q].spans
    BY <1>9, DecideEffect
  <2>2. Len(order') <= Len(order)
    BY <1>9, DecideEffect
  <2>3. Len(order') \in Nat
    <3>1. WellFormed(heap, index, order, pendingOrder)'
      BY <1>9, DecideStep
    <3> QED
      BY <3>1, LenProperties DEF WellFormed
  <2> QED
    BY <1>1, <2>1, <2>2, <2>3 DEF HardCaps
<1>10. CASE DecideTouched
  BY <1>9, <1>10, TouchedHead
<1>11. CASE DrainDecide
  BY <1>9, <1>11, DrainedTrace
<1> QED
  BY <1>3, <1>4, <1>5, <1>6, <1>7, <1>8, <1>10, <1>11, StepKinds

\* An empty engine exceeds no cap.
LEMMA CapsInit == Init => HardCaps
<1> SUFFICES ASSUME Init PROVE HardCaps
  OBVIOUS
<1>1. Refs = {} /\ Len(order) = 0 /\ MaxTraces \in Nat
  BY CapsAssumption DEF Init, Refs
<1> QED
  BY <1>1 DEF HardCaps

\* MaxTraces and MaxSpansPerTrace are hard bounds through every mix of
\* admissions, evictions, holds and expiries (HardCaps).
THEOREM CapsAreHard == Spec => []HardCaps
<1>1. EngineInv /\ EngineInv' /\ HardCaps /\ [Next]_vars => HardCaps'
  BY CapsStep
<1> QED
  BY <1>1, CapsInit, EngineInvariant, PTL DEF Spec

-----------------------------------------------------------------------------
(* What a policy keeps.                                                    *)

\* The policies look at the spans only.
LEMMA SameSpansSameVerdict ==
  ASSUME NEW q, heap'[q].spans = heap[q].spans
  PROVE  KeepWorthy(q)' <=> KeepWorthy(q)
  BY DEF KeepWorthy

\* The marks are right after every step.
LEMMA MarksStep ==
  ASSUME EngineInv, MarksAreListed, [Next]_vars
  PROVE  MarksAreListed'
<1>1. /\ gen \in Nat /\ gen' \in Nat /\ (pc' = "ingest" => pc = "ingest" \/ BeginGeneration)
      /\ gen' = gen \/ BeginGeneration
  <2>1. gen \in Nat
    BY BoundsAssumption DEF EngineInv, OtherTypes
  <2>2. /\ pc' = "ingest" => pc = "ingest" \/ BeginGeneration
        /\ gen' = gen \/ BeginGeneration
    BY StepKinds DEF QuietStep, ConsumeBegin, BeginConsume, EndIngest, EndDecide, ConsumeEnd,
         ExpireKeep, ExpireDrop, IngestSpan, DecideTouched, DrainDecide,
         Start, TickerFires, TickerStops, TickBegin, TickEnd, ShutdownBegin,
         ShutdownTickerDone, ShutdownCancelled, DrainBegin, DrainForce, ShutdownFails,
         ShutdownEnd, ClockAdvances, batchVars, sectionVars, vars
  <2> QED
    BY <2>1, <2>2 DEF BeginGeneration
<1>2. /\ heap \in Seq(Traces)
      /\ \A q \in Refs : heap[q].touchedGen \in Nat /\ heap[q].touchedGen <= gen
  <2>1. heap \in Seq(Traces)
    BY DEF EngineInv, WellFormed
  <2> QED
    BY <2>1, HeapElements DEF Refs, Traces, MarksAreListed
<1>3. CASE BeginGeneration
  BY <1>1, <1>2, <1>3 DEF BeginGeneration, buffer, MarksAreListed, Refs
<1>4. ASSUME gen' = gen, pc' = "ingest" => pc = "ingest",
             \A q \in Refs' : \/ /\ q \in Refs /\ heap'[q].touchedGen = heap[q].touchedGen
                                 /\ pc' = "ingest" /\ q \in Range(touched) => q \in Range(touched')
                              \/ heap'[q].touchedGen = gen /\ q \in Range(touched')
      PROVE  MarksAreListed'
  BY <1>1, <1>2, <1>4 DEF MarksAreListed
<1>5. CASE (QuietStep \/ UNCHANGED vars) /\ ~BeginGeneration
  <2>1. heap' = heap /\ touched' = touched
    BY <1>5, QuietEffect
  <2> QED
    BY <1>1, <1>4, <1>5, <2>1 DEF Refs
<1>6. CASE ExpireDrop /\ ~BeginGeneration
  <2>1. touched' = touched
    BY <1>6 DEF ExpireDrop, batchVars
  <2>2. \A q \in Refs' : q \in Refs /\ heap'[q].touchedGen = heap[q].touchedGen
    BY <1>6, ExpireDropEffect
  <2> QED
    BY <1>1, <1>4, <1>6, <2>1, <2>2
<1>7. CASE (IngestSpan /\ IngestKnown) /\ ~BeginGeneration
  <2> DEFINE r == index[Head(rest).tid]
  <2>1. /\ Refs' = Refs /\ heap'[r].touchedGen = gen
        /\ \A p \in Refs : p # r => heap'[p] = heap[p]
    BY <1>7, IngestKnownEffect
  <2>2. r \in Range(touched') /\ Range(touched) \subseteq Range(touched')
    BY <1>7, TouchedGrows
  <2> HIDE DEF r
  <2> QED
    BY <1>1, <1>4, <1>7, <2>1, <2>2
<1>8. CASE (IngestSpan /\ IngestNew) /\ ~BeginGeneration
  <2> DEFINE r == Len(heap) + 1
  <2>1. /\ Refs' = Refs \cup {r} /\ heap'[r].touchedGen = gen
        /\ \A p \in Refs : heap'[p] = heap[p]
    BY <1>8, IngestNewEffect
  <2>2. r \in Range(touched') /\ Range(touched) \subseteq Range(touched')
    BY <1>8, TouchedGains DEF IngestNew
  <2> HIDE DEF r
  <2> QED
    BY <1>1, <1>4, <1>8, <2>1, <2>2
<1>9. CASE (IngestSpan /\ IngestEvicting) /\ ~BeginGeneration
  <2> DEFINE r == Len(heap) + 1
  <2>1. /\ Refs' = Refs \cup {r} /\ heap'[r].touchedGen = gen
        /\ \A p \in Refs : heap'[p].touchedGen = heap[p].touchedGen
    BY <1>9, IngestEvictingEffect
  <2>2. r \in Range(touched') /\ Range(touched) \subseteq Range(touched')
    BY <1>9, TouchedGains DEF IngestEvicting
  <2> HIDE DEF r
  <2> QED
    BY <1>1, <1>4, <1>9, <2>1, <2>2
<1>10. CASE (IngestSpan /\ IngestDropping) /\ ~BeginGeneration
  <2>1. heap' = heap /\ touched' = touched
    BY <1>10 DEF IngestDropping, buffer
  <2> QED
    BY <1>1, <1>4, <1>10, <2>1 DEF Refs
<1>11. ASSUME ~BeginGeneration, pc' # "ingest", NEW r \in Refs, DecideLocked(r),
              heap[r].decision = "Sampled" => Buffered(r)
       PROVE  MarksAreListed'
  <2>1. \A q \in Refs' : q \in Refs /\ heap'[q].touchedGen = heap[q].touchedGen
    BY <1>11, DecideEffect
  <2> QED
    BY <1>1, <1>4, <1>11, <2>1
<1>12. CASE DecideTouched /\ ~BeginGeneration
  <2>1. pc' # "ingest"
    BY <1>12 DEF DecideTouched
  <2> QED
    BY <1>11, <1>12, <2>1, TouchedHead
<1>13. CASE DrainDecide /\ ~BeginGeneration
  <2>1. pc' # "ingest"
    BY <1>13 DEF DrainDecide
  <2> QED
    BY <1>11, <1>13, <2>1, DrainedTrace
<1> QED
  BY <1>3, <1>5, <1>6, <1>7, <1>8, <1>9, <1>10, <1>12, <1>13, StepKinds

\* A span that no pending trace waits with can only arrive by ingestion, which
\* lists the trace in touched, and the decision loop empties touched by
\* deciding: HotPendingIsTouched is inductive.
LEMMA HotStep ==
  ASSUME EngineInv, MarksAreListed, HotPendingIsTouched, [Next]_vars
  PROVE  HotPendingIsTouched'
<1> SUFFICES ASSUME NEW q \in Refs', Pending(q)', KeepWorthy(q)'
             PROVE  q \in Range(touched')
  BY DEF HotPendingIsTouched
<1>1. ASSUME q \in Refs, heap'[q].spans = heap[q].spans,
             heap'[q].decision = heap[q].decision
      PROVE  q \in Range(touched)
  BY <1>1, SameSpansSameVerdict DEF HotPendingIsTouched, Pending
<1>2. CASE QuietStep \/ UNCHANGED vars
  <2>1. q \in Refs /\ heap' = heap /\ touched' = touched
    BY <1>2, QuietEffect DEF Refs
  <2> QED
    BY <1>1, <2>1
<1>3. CASE ExpireDrop
  <2>1. touched' = touched
    BY <1>3 DEF ExpireDrop, batchVars
  <2>2. q \in Refs /\ q # AtCursor /\ heap'[q] = heap[q]
    BY <1>3, ExpireDropEffect DEF Pending
  <2> QED
    BY <1>1, <2>1, <2>2
<1>4. CASE IngestSpan /\ IngestKnown
  <2> DEFINE r == index[Head(rest).tid]
  <2>1. /\ r \in Refs /\ Refs' = Refs /\ heap'[r].decision = heap[r].decision
        /\ \A p \in Refs : p # r => heap'[p] = heap[p]
    BY <1>4, IngestKnownEffect
  <2>2. r \in Range(touched') /\ Range(touched) \subseteq Range(touched')
    BY <1>4, TouchedGrows
  <2> HIDE DEF r
  <2> QED
    BY <1>1, <2>1, <2>2
<1>5. CASE IngestSpan /\ IngestNew
  <2> DEFINE r == Len(heap) + 1
  <2>1. Refs' = Refs \cup {r} /\ \A p \in Refs : heap'[p] = heap[p]
    BY <1>5, IngestNewEffect
  <2>2. r \in Range(touched') /\ Range(touched) \subseteq Range(touched')
    BY <1>5, TouchedGains DEF IngestNew
  <2> HIDE DEF r
  <2> QED
    BY <1>1, <2>1, <2>2
<1>6. CASE IngestSpan /\ IngestEvicting
  <2> DEFINE r == Len(heap) + 1
  <2>1. /\ Refs' = Refs \cup {r} /\ heap'[OldestPending].decision = "NotSampled"
        /\ \A p \in Refs : p # OldestPending => heap'[p] = heap[p]
    BY <1>6, IngestEvictingEffect
  <2>2. r \in Range(touched') /\ Range(touched) \subseteq Range(touched')
    BY <1>6, TouchedGains DEF IngestEvicting
  <2> HIDE DEF r
  <2> QED
    BY <1>1, <2>1, <2>2 DEF Pending
<1>7. CASE IngestSpan /\ IngestDropping
  <2>1. heap' = heap /\ touched' = touched
    BY <1>7 DEF IngestDropping, buffer
  <2> QED
    BY <1>1, <2>1 DEF Refs
<1>8. CASE DecideTouched
  <2> DEFINE r == Head(touched)
  <2>1. /\ r \in Refs /\ DecideLocked(r) /\ (heap[r].decision = "Sampled" => Buffered(r))
        /\ Range(touched') = Range(touched) \ {r}
    BY <1>8, TouchedHead
  <2> HIDE DEF r
  <2>2. q \in Refs /\ q # r /\ heap'[q] = heap[q]
    BY <2>1, DecideEffect, SameSpansSameVerdict DEF Pending
  <2> QED
    BY <1>1, <2>1, <2>2
<1>9. CASE DrainDecide
  <2>1. PICK r \in Refs : DecideLocked(r) /\ (heap[r].decision = "Sampled" => Buffered(r))
    BY <1>9, DrainedTrace
  <2>2. q \in Refs /\ q # r /\ heap'[q] = heap[q]
    BY <2>1, DecideEffect, SameSpansSameVerdict DEF Pending
  <2>3. touched' = touched
    BY <1>9 DEF DrainDecide, batchVars
  <2> QED
    BY <1>1, <2>2, <2>3
<1> QED
  BY <1>2, <1>3, <1>4, <1>5, <1>6, <1>7, <1>8, <1>9, StepKinds

\* A trace that waits with a span to be kept is listed in touched.
THEOREM HotTracesTouched == Spec => []HotPendingIsTouched
<1>1. Init => MarksAreListed /\ HotPendingIsTouched
  BY DEF Init, Refs, MarksAreListed, HotPendingIsTouched
<1>2. EngineInv /\ MarksAreListed /\ HotPendingIsTouched /\ [Next]_vars
        => MarksAreListed' /\ HotPendingIsTouched'
  BY MarksStep, HotStep
<1> QED
  BY <1>1, <1>2, EngineInvariant, PTL DEF Spec

\* Outside the two loops of a batch, touched is empty: nobody waits there.
LEMMA ColdOutsideLoops ==
  ASSUME EngineInv, HotPendingIsTouched, pc \notin {"ingest", "decide"}
  PROVE  \A r \in Refs : Pending(r) => ~KeepWorthy(r)
<1>1. touched = <<>>
  BY DEF EngineInv, LoopInvariant
<1>2. Range(touched) = {}
  BY <1>1 DEF Range
<1> QED
  BY <1>2 DEF HotPendingIsTouched

\* Between critical sections no trace waits with a span that a policy keeps,
\* whatever the sink did (PendingIsCold).
THEOREM PendingAlwaysCold == Spec => []PendingIsCold
<1>1. EngineInv /\ HotPendingIsTouched => PendingIsCold
  BY ColdOutsideLoops DEF PendingIsCold
<1> QED
  BY <1>1, EngineInvariant, HotTracesTouched, PTL

\* Without MaxTraces only expiry drops traces, and it never meets a hot one.
LEMMA NeverDroppedStep ==
  ASSUME MaxTraces = 0, EngineInv, HotPendingIsTouched, KeepWorthyNeverDropped, [Next]_vars
  PROVE  KeepWorthyNeverDropped'
<1> SUFFICES ASSUME NEW q \in Refs', heap'[q].decision = "NotSampled"
             PROVE  ~KeepWorthy(q)'
  BY DEF KeepWorthyNeverDropped
<1>1. ASSUME q \in Refs, heap'[q].spans = heap[q].spans, heap[q].decision = "NotSampled"
      PROVE  ~KeepWorthy(q)'
  BY <1>1, SameSpansSameVerdict DEF KeepWorthyNeverDropped
<1>2. CASE QuietStep \/ UNCHANGED vars
  <2>1. q \in Refs /\ heap' = heap
    BY <1>2, QuietEffect DEF Refs
  <2> QED
    BY <1>1, <2>1
<1>3. CASE ExpireDrop
  <2>1. pc \notin {"ingest", "decide"}
    BY <1>3 DEF ExpireDrop, Expiring
  <2>2. /\ q \in Refs /\ heap'[q].spans = heap[q].spans
        /\ q = AtCursor \/ heap'[q] = heap[q]
        /\ AtCursor \in Refs /\ Pending(AtCursor)
    BY <1>3, ExpireDropEffect
  <2>3. CASE q = AtCursor
    BY <2>1, <2>2, <2>3, ColdOutsideLoops, SameSpansSameVerdict
  <2>4. CASE q # AtCursor
    BY <1>1, <2>2, <2>4
  <2> QED
    BY <2>3, <2>4
<1>4. CASE IngestSpan /\ IngestKnown
  <2> DEFINE r == index[Head(rest).tid]
  <2>1. /\ r \in Refs /\ Refs' = Refs /\ heap'[r].decision = heap[r].decision
        /\ \A p \in Refs : p # r => heap'[p] = heap[p]
    BY <1>4, IngestKnownEffect
  <2>2. heap[r].decision # "NotSampled"
    BY <1>4, KnownIsBuffered
  <2> HIDE DEF r
  <2> QED
    BY <1>1, <2>1, <2>2
<1>5. CASE IngestSpan /\ IngestNew
  <2> DEFINE r == Len(heap) + 1
  <2>1. /\ Refs' = Refs \cup {r} /\ heap'[r].decision = "Pending"
        /\ \A p \in Refs : heap'[p] = heap[p]
    BY <1>5, IngestNewEffect
  <2> HIDE DEF r
  <2> QED
    BY <1>1, <2>1
<1>6. CASE IngestSpan /\ IngestEvicting
  BY <1>6 DEF IngestEvicting, AtCapacity
<1>7. CASE IngestSpan /\ IngestDropping
  BY <1>1, <1>7 DEF IngestDropping, buffer, Refs
<1>8. ASSUME NEW r \in Refs, DecideLocked(r), heap[r].decision = "Sampled" => Buffered(r)
      PROVE  ~KeepWorthy(q)'
  <2>1. /\ q \in Refs /\ heap'[q].spans = heap[q].spans
        /\ heap'[q].decision \in {heap[q].decision, "Sampled"}
    BY <1>8, DecideEffect
  <2> QED
    BY <1>1, <2>1
<1>9. CASE DecideTouched
  BY <1>8, <1>9, TouchedHead
<1>10. CASE DrainDecide
  BY <1>8, <1>10, DrainedTrace
<1> QED
  BY <1>2, <1>3, <1>4, <1>5, <1>6, <1>7, <1>9, <1>10, StepKinds

\* Without MaxTraces, no trace that a policy keeps is ever dropped, whatever the
\* sink, the ticker and Shutdown do (KeepWorthyNeverDropped).
THEOREM KeepWorthyKept ==
  ASSUME MaxTraces = 0
  PROVE  Spec => []KeepWorthyNeverDropped
<1>1. Init => KeepWorthyNeverDropped
  BY DEF Init, Refs, KeepWorthyNeverDropped
<1>2. EngineInv /\ HotPendingIsTouched /\ KeepWorthyNeverDropped /\ [Next]_vars
        => KeepWorthyNeverDropped'
  BY NeverDroppedStep
<1> QED
  BY <1>1, <1>2, EngineInvariant, HotTracesTouched, PTL DEF Spec
=============================================================================
