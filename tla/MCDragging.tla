----------------------------- MODULE MCDragging -----------------------------
EXTENDS Dragging, TLC

(* One set is arranged by anybody, or watched on one screen: the second     *)
(* needs fewer rows and moves than the first.                               *)
VARIABLE half

NoScreen ==
  /\ screen = CHOOSE x \in Screens : WayOf(x) = way
  /\ unseen = {} /\ data = <<>> /\ kept = <<>> /\ carried = Nobody /\ before = <<>>
  /\ sent = {} /\ drops = 0 /\ fetch = Idle
  /\ told = FALSE /\ overtaken = TRUE

(* The rows are numbers in this run, for no reason but their order at the   *)
(* start.                                                                   *)
NamedInOrder ==
  \E n \in 0 .. Cardinality(Row) : position = [r \in Row |-> IF r <= n THEN r * Step ELSE Null]

HalfInit ==
  /\ NamedInOrder
  /\ \/ half = "set" /\ OrderInit /\ NoScreen
     \/ half = "screen" /\ DragInit

SetHalf == half = "set" /\ OrderNext /\ UNCHANGED <<tab, half>>

ScreenHalf == half = "screen" /\ DragStep /\ UNCHANGED half

HalfSpec == HalfInit /\ [][SetHalf \/ ScreenHalf]_<<orderVars, tab, half>>

(* A second drag on the screens that show a move before it is made, one of  *)
(* each kind, where no row is hidden, comes or goes.                        *)
Explored ==
  half = "screen" /\ (drops = 2 \/ (drops = 1 /\ carried # Nobody))
    => screen \in {"cards", "lists", "pictures"} /\ unseen = {} /\ {ToSet(data), Here} = {Watched}
=============================================================================
