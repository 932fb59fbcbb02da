------------------------- MODULE MCSamplerProcessor -------------------------
(***************************************************************************)
(* Small instances of SamplerProcessor for TLC: two trace ids, the default *)
(* policies (errors, and spans of at least 2 units), spans of different    *)
(* resources and scopes.                                                   *)
(***************************************************************************)
EXTENDS SamplerProcessor, TLC

CONSTANTS a, b, c1, c2, c3

LowerCase(s) == CASE s = "ERROR" -> "error" [] OTHER -> s

Policies ==
  <<[type |-> "status_code", keep |-> "ERROR", thresholdMS |-> 0],
    [type |-> "latency", keep |-> "", thresholdMS |-> 2]>>

PolicyKinds == {k \in Kinds : KeptBy(Policies, k)}

Source(id, sid, ri, si, status, lasts) ==
  [tid |-> id, sid |-> sid, ri |-> ri, si |-> si, status |-> status, start |-> 1, end |-> 1 + lasts]

HeldCounts == [TraceIDs -> 0..MaxSpansPerTrace]

AllKinds == [status : {"", "OK", "ERROR"}, duration : 0..2]

\* All that toEngineSpans can make of the deliveries.
Conversions ==
  {ToEngineSpans(td, MaxSpansPerTrace, h) : td \in Deliveries, h \in HeldCounts}

SnapshotRaws == {s.raw : s \in UNION {Range(spans) : spans \in Conversions}}

\* Two traces in two resources, a slow and a failed span that come later, and
\* one more of the same trace. A repeated delivery is a retry.
DistinctDeliveries ==
  { <<Source(a, 1, 1, 1, "Ok", 0), Source(a, 2, 1, 2, "Unset", 1), Source(b, 1, 2, 1, "Unset", 2)>>,
    <<Source(a, 3, 1, 1, "Error", 1), Source(b, 2, 1, 1, "Ok", 0), Source(a, 4, 1, 1, "Ok", 0)>> }

\* A trace that reaches the cap with a kept span and one span more.
RunawayDeliveries ==
  { <<Source(a, 1, 1, 1, "Ok", 0)>>,
    <<Source(a, 2, 1, 1, "Error", 0), Source(b, 1, 1, 1, "Ok", 0), Source(a, 3, 1, 1, "Ok", 0)>>,
    <<Source(b, 2, 1, 1, "Error", 0)>> }

\* One span of a trace, and more of its spans than the cap of 2.
CrowdedDeliveries ==
  { <<Source(a, 1, 1, 1, "Ok", 0)>>,
    <<Source(a, 2, 1, 1, "Error", 0), Source(a, 3, 1, 1, "Ok", 0), Source(a, 4, 1, 1, "Ok", 0)>> }

\* A span that comes alone, then again with the error that followed it.
OverlappingDeliveries ==
  { <<Source(a, 1, 1, 1, "Ok", 0)>>,
    <<Source(a, 1, 1, 1, "Ok", 0), Source(a, 2, 1, 1, "Error", 0)>> }

\* The hypothesis of the theorems tells them apart: a retry repeats the spans
\* of its traces, the overlapping deliveries do not.
ASSUME RepeatedDeliveries ==
  /\ RepeatedWhole(DistinctDeliveries) /\ RepeatedWhole(RunawayDeliveries)
  /\ RepeatedWhole(CrowdedDeliveries)
  /\ ~RepeatedWhole(OverlappingDeliveries)

AnyCall == Permutations(Calls)
=============================================================================
