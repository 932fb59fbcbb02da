--------------------------- MODULE MCTranslation ---------------------------
(***************************************************************************)
(* Two studies of Translation for TLC.                                     *)
(***************************************************************************)
EXTENDS Translation, TLC

LowerCase(s) == CASE s = "ERROR" -> "error" [] s = "OK" -> "ok" [] OTHER -> s

\* One payload: only the placement of spans matters.
OnePayload == {[status |-> "Ok", start |-> 0, end |-> 1, attrs |-> <<>>]}

\* Every pair of timestamps, and attributes of which one repeats a key.
EveryPayload ==
  [status : {"Unset", "Ok", "Error"}, start : Words, end : Words,
   attrs : {<<>>, <<<<"k", 1>>, <<"l", 2>>, <<"k", 3>>>>}]

Entry(type, keep, ms) == [type |-> type, keep |-> keep, thresholdMS |-> ms]

NoPolicies == {<<>>}

\* Valid entries, an unknown and a missing type, a missing threshold, one whose
\* nanoseconds overflow, an empty keep and a keep in another case.
SomePolicies ==
  { <<Entry("status_code", "error", 0), Entry("latency", "", 5)>>,
    <<Entry("status_code", "OK", 0)>>,
    <<Entry("status_code", "", 0)>>,
    <<Entry("latency", "", 2)>>,
    <<Entry("latency", "", 0)>>,
    <<Entry("latency", "", 7)>>,
    <<Entry("", "ERROR", 1)>>,
    <<Entry("probabilistic", "", 1), Entry("latency", "", 1)>> }
Placements ==
  [ids |-> {"a", "b"}, payloads |-> OnePayload, configs |-> NoPolicies, caps |-> 0..3, bound |-> 5]

Numbers ==
  [ids |-> {"a"}, payloads |-> EveryPayload, configs |-> SomePolicies, caps |-> {0}, bound |-> 1]

BothStudies == [placements |-> Placements, numbers |-> Numbers]
=============================================================================
