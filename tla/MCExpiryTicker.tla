--------------------------- MODULE MCExpiryTicker ---------------------------
(***************************************************************************)
(* Small instances of ExpiryTicker for TLC.                                *)
(***************************************************************************)
EXTENDS ExpiryTicker, TLC

CONSTANTS s1, s2, s3

AnyCloser == Permutations(Closers)
=============================================================================
