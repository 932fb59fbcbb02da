------------------------- MODULE MCClickHouseWriter -------------------------
(***************************************************************************)
(* Small instances of ClickHouseWriter for TLC.  With BatchSize = 2 the    *)
(* cap is eight rows: call a of BigAndSmall brings eight, so its failed    *)
(* batch fills the buffer, and one row of b or c is below the batch size.  *)
(* EightAndOne is its first two calls; FourAndOnes and Fours bring the cap *)
(* of a batch size of 1.  In Pairs no call is near the cap.  The three     *)
(* rows of a and b in PairAndOnes make a batch of size 3.                  *)
(***************************************************************************)
EXTENDS ClickHouseWriter, TLC

CONSTANTS a, b, c, d, k1, k2

BigAndSmall == a :> <<1, 2, 3, 4, 5, 6, 7, 8>> @@ b :> <<9>> @@ c :> <<10>>

FourAndOnes == a :> <<1, 2, 3, 4>> @@ b :> <<5>> @@ c :> <<6>>

EightAndOne == a :> <<1, 2, 3, 4, 5, 6, 7, 8>> @@ b :> <<9>>

Fours == a :> <<1, 2, 3, 4>> @@ b :> <<5, 6, 7, 8>>

Pairs == a :> <<1, 2>> @@ b :> <<3>> @@ c :> <<4, 5>>

PairAndOnes == a :> <<1, 2>> @@ b :> <<3>> @@ c :> <<4>> @@ d :> <<5>>

\* Some rows have no attributes, some share a key, one has two.
KeysOfRows ==
  [r \in Rows |-> (IF r \in {1} \cup 4..9 THEN {k1} ELSE {})
                    \cup (IF r \in {1, 10} THEN {k2} ELSE {})]
=============================================================================
