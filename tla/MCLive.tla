------------------------------- MODULE MCLive -------------------------------
(* A card, an asset and somebody's own picture, and a tab on the project.    *)
EXTENDS Live

CONSTANTS here, card, face

MCAt == [p \in Place |-> IF p = face THEN NoProject ELSE here]
MCKind == [p \in Place |-> IF p = face THEN "person" ELSE IF p = card THEN "card" ELSE "asset"]
MCOn == [t \in Tab |-> here]
=============================================================================
