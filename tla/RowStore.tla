------------------------------ MODULE RowStore ------------------------------
(***************************************************************************)
(* What a buffering writer owes its callers: rows it accepted are held     *)
(* until they are stored, and no other way out exists.  A held row may be  *)
(* stored without being given up, and stored again later: the promise is   *)
(* at least once.                                                          *)
(***************************************************************************)
CONSTANT Rows
VARIABLES held, stored

Init == held = {} /\ stored = {}

\* Rows that are new.
Accept(S) == held' = held \cup S /\ UNCHANGED stored

Store(S, kept) ==
  /\ stored' = stored \cup S
  /\ held' = (held \ S) \cup kept

Next ==
  \/ \E S \in SUBSET (Rows \ (held \cup stored)) : Accept(S)
  \/ \E S \in SUBSET held : \E kept \in SUBSET S : Store(S, kept)

Spec == Init /\ [][Next]_<<held, stored>>
=============================================================================
