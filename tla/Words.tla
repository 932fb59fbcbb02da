------------------------------- MODULE Words -------------------------------
(***************************************************************************)
(* Fixed-width integers: the bits of a uint64 read as an int64, and the    *)
(* wrap-around of the arithmetic on them.  The width is a parameter.       *)
(***************************************************************************)
EXTENDS Integers

CONSTANT SignBit   \* what the sign bit of a word weighs, 2^63 in the code

ASSUME SignBitAssumption == SignBit \in Nat \ {0}

Modulus == 2 * SignBit
Words == 0..(Modulus - 1)
MaxSigned == SignBit - 1

\* int64(x), and every signed operation whose exact result is x.
ToSigned(x) ==
  LET w == x % Modulus IN IF w > MaxSigned THEN w - Modulus ELSE w
=============================================================================
