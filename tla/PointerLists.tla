---------------------------- MODULE PointerLists ----------------------------
(***************************************************************************)
(* The engine's doubly linked lists (container/list) as sequences of       *)
(* pointers.  Pointers are numbered in order of allocation and pushed at   *)
(* the back when allocated, so a list that is kept right is increasing.    *)
(***************************************************************************)
EXTENDS Integers, SequencesExt

Increasing(s) == \A i, j \in DOMAIN s : i < j => s[i] < s[j]

\* Remove through the element the trace holds; nothing if it was removed.
Unlink(s, r) == RemoveFirst(s, r)
=============================================================================
