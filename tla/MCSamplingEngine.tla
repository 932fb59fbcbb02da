-------------------------- MODULE MCSamplingEngine --------------------------
(***************************************************************************)
(* Small instances of SamplingEngine for TLC: three trace ids, the zero    *)
(* span id and two others, error spans that a policy keeps and ok spans    *)
(* that none does.                                                         *)
(***************************************************************************)
EXTENDS SamplingEngine

CONSTANTS a, b, c, s0, s1, s2

Span(id, s, k) == [tid |-> id, sid |-> s, kind |-> k, raw |-> "payload"]

\* For the caps: new ids while others are buffered, an error for an id that may
\* be pending, held or gone, a batch of two new ids, and one trace that meets
\* a duplicate, then the span cap.
CapBatches ==
  { <<Span(a, s1, "ok")>>,
    <<Span(b, s1, "ok"), Span(a, s2, "error")>>,
    <<Span(b, s1, "error"), Span(c, s1, "ok")>>,
    <<Span(a, s1, "ok"), Span(a, s0, "ok"), Span(a, s2, "error")>> }

\* A late error for the oldest pending trace, in one batch with a new id.
LateErrorBatches ==
  { <<Span(a, s1, "ok")>>, <<Span(b, s1, "ok")>>,
    <<Span(a, s2, "error"), Span(c, s1, "ok")>> }

\* For liveness: one batch that waits, one that is kept.
QuietBatches ==
  { <<Span(a, s1, "ok")>>,
    <<Span(b, s1, "error"), Span(a, s1, "ok")>> }
=============================================================================
