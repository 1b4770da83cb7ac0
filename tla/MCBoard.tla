------------------------------- MODULE MCBoard -------------------------------
(* Two people, and two lists with a third that may be added.                *)
EXTENDS Board, TLC

CONSTANTS backlog, done, doing

MCFirstLists == <<backlog, done>>

(* Everything, one command at a time; and cards dragged at the same moment. *)
Alone == [alone |-> TRUE, restructured |-> TRUE, bornFinished |-> TRUE]
Dragging == [alone |-> FALSE, restructured |-> FALSE, bornFinished |-> FALSE]

EitherUse == {Alone, Dragging}

BoardSymmetry == Permutations(Card) \union Permutations(User)
=============================================================================
