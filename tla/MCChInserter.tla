---------------------------- MODULE MCChInserter ----------------------------
(***************************************************************************)
(* Two exporters and up to three keys for TLC.  The name of a column is a  *)
(* base and a hash: k1 and k2 have the same base and, since a hash has 32  *)
(* bits, may have the same hash too.                                       *)
(***************************************************************************)
EXTENDS ChInserter, TLC

CONSTANTS e1, e2, k1, k2, k3

CollidingNames == [k \in Keys |-> IF k = k3 THEN <<"attr_c", 3>> ELSE <<"attr_a_b", 1>>]

KeySets == {{}, {k1}, {k2, k3}}
BothKeys == {{k1, k2}}

AnyExporter == Permutations(Exporters)
=============================================================================
