----------------------------- MODULE SchemaStore -----------------------------
(***************************************************************************)
(* What a table with a schema that grows by itself owes its readers: once  *)
(* an attribute key can be searched by it stays so, and a batch of rows is *)
(* stored only when every key of its rows can be searched by.              *)
(***************************************************************************)
CONSTANT Keys
VARIABLES searchable, stored

Init == searchable = {} /\ stored = {}

\* One column may serve several keys.
Materialize == \E K \in SUBSET Keys : searchable' = searchable \cup K /\ UNCHANGED stored

Store ==
  /\ \E S \in SUBSET searchable : stored' = stored \cup {S}
  /\ UNCHANGED searchable

Next == Materialize \/ Store

Spec == Init /\ [][Next]_<<searchable, stored>>
=============================================================================
