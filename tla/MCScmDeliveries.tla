--------------------------- MODULE MCScmDeliveries ---------------------------
(* Two deliveries about one pull request, one about another, and one nobody *)
(* can read.                                                                *)
EXTENDS ScmDeliveries, TLC

CONSTANTS d1, d2, d3, bad, pull, other

MCLinkOf == d1 :> pull @@ d2 :> pull @@ d3 :> other @@ bad :> other
=============================================================================
