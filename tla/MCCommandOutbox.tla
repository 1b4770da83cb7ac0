--------------------------- MODULE MCCommandOutbox ---------------------------
(* Two sendings of one command beside another command, each with an event   *)
(* for two consumers; two workers that may overlap, one drain lost.         *)
EXTENDS CommandOutbox, TLC

CONSTANTS c1, c2, a1, a2, a3, e1, e2

MCCommandOf == a1 :> c1 @@ a2 :> c1 @@ a3 :> c2
MCOwnerOf == e1 :> c1 @@ e2 :> c2
=============================================================================
