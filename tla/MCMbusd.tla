------------------------------- MODULE MCMbusd ------------------------------
(***************************************************************************)
(* The bus daemon on small instances.                                      *)
(***************************************************************************)
EXTENDS Mbusd

CONSTANTS ann, bob, cat, bobLong

(* Every name fits its field. *)
AllFit == [n \in Names |-> n]

(* bobLong is a name of 128 characters or more whose first 127 are bob. *)
LongCut == [n \in Names |-> IF n = bobLong THEN bob ELSE n]

Interchangeable == Permutations(Slot) \cup Permutations(Cell)

InterchangeableUsers == Interchangeable \cup Permutations(UserName)
=============================================================================
