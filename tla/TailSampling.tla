---------------------------- MODULE TailSampling ----------------------------
(***************************************************************************)
(* What a bounded tail sampler promises, whatever its data structures are. *)
(* Every admitted trace has a fate: it is pending, then either dropped, or *)
(* forwarded, or held until a failing sink takes it.  Dropped and          *)
(* forwarded are final and a held trace can only be forwarded.  At most    *)
(* Capacity traces are buffered, and the one that makes room for another   *)
(* is always the oldest pending one.                                       *)
(***************************************************************************)
EXTENDS Integers, Sequences, FiniteSets

CONSTANT Capacity   \* a natural number, 0: unbounded

VARIABLE fate       \* the fates of all traces, in the order of admission

InBuffer == {i \in DOMAIN fate : fate[i] \in {"pending", "held"}}
Full == Capacity > 0 /\ Cardinality(InBuffer) >= Capacity

Oldest(i) ==
  /\ i \in DOMAIN fate /\ fate[i] = "pending"
  /\ \A j \in 1..(i - 1) : fate[j] # "pending"

Init == fate = <<>>

Admit == ~Full /\ fate' = Append(fate, "pending")

Replace ==
  /\ Full
  /\ \E i \in DOMAIN fate :
       /\ Oldest(i)
       /\ fate' = Append([fate EXCEPT ![i] = "dropped"], "pending")

Drop(i) == fate[i] = "pending" /\ fate' = [fate EXCEPT ![i] = "dropped"]

Hold(i) == fate[i] = "pending" /\ fate' = [fate EXCEPT ![i] = "held"]

Forward(i) == fate[i] \in {"pending", "held"} /\ fate' = [fate EXCEPT ![i] = "forwarded"]

Next ==
  \/ Admit \/ Replace
  \/ \E i \in DOMAIN fate : Drop(i) \/ Hold(i) \/ Forward(i)

Spec == Init /\ [][Next]_fate
=============================================================================
