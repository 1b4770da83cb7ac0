---------------------------- MODULE MCRecycleBin ----------------------------
EXTENDS RecycleBin, TLC, FiniteSets

CONSTANT FromProps   \* the name that is only for landings

(* The two parts share no row, so a behaviour is of one or of the other: to  *)
(* interleave them would only multiply the states.                           *)
VARIABLE half

HalfInit == BinInit /\ half \in {"library", "board"}

LibraryHalf == half = "library" /\ LibraryStep /\ UNCHANGED half

BoardHalf == half = "board" /\ BoardStep /\ UNCHANGED half

HalfSpec == HalfInit /\ [][LibraryHalf \/ BoardHalf]_<<vars, ties, half>>

(* Explored up to the first overlap of two changes of the tree's shape, with *)
(* one category of the name that is only for landings, one link between      *)
(* cards and two things in the bin.                                          *)
Explored ==
  /\ ~crossed
  /\ Cardinality({c \in Category : lib.name[c] = FromProps}) <= 1
  /\ Cardinality(board.links) <= 2
  /\ Cardinality(binned) <= 2

(* The same three model values are categories in one half and cards in the  *)
(* other, so that one symmetry serves both.                                 *)
BinSymmetry == Permutations(Category)
=============================================================================
