------------------------------ MODULE CardTies ------------------------------
(***************************************************************************)
(* What ties a card to other things: the legend it is under, the milestone *)
(* it is promised for and its links to other cards; and what the recycle   *)
(* bin keeps of them when a card or a milestone is deleted.  A command is  *)
(* one transaction and one step.                                           *)
(***************************************************************************)
CONSTANTS Card, Milestone,
          Kind   \* the kinds of link people ask for

VARIABLES board,  \* the rows: cards, milestones, and what ties them
          bin     \* deleted_thing

vars == <<board, bin>>

(* getReciprocalLinkKind.                                                   *)
Reciprocal(kind) ==
  IF kind = "blocks" THEN "blocked_by" ELSE IF kind = "blocked_by" THEN "blocks" ELSE kind

OtherHalf(x) == [from |-> x.to, to |-> x.from, kind |-> Reciprocal(x.kind)]

(* A column that may be null is a set of at most one.                       *)
Null == {}

AtMostOne(S) == {Null} \union {{x} : x \in S}

Of(b, c) == {x \in b.links : x.from = c \/ x.to = c}

Gathered(b, c) == {k \in b.here : b.under[k] = {c}}

Promised(b, m) == {k \in b.here : b.milestone[k] = {m}}

(* The keys of the tables, and card_legend_is_not_itself.                   *)
Standing(b) ==
  /\ \A k \in b.here : /\ b.under[k] \subseteq b.here \ {k}
                       /\ b.milestone[k] \subseteq b.milestones
  /\ \A x \in b.links : x.from \in b.here /\ x.to \in b.here

-----------------------------------------------------------------------------
(* A delete, with what the database does to what pointed there, and the     *)
(* copy made just before.                                                   *)

WithoutCard(b, c) ==
  [b EXCEPT
     !.here = b.here \ {c}, !.legends = b.legends \ {c},
     !.under = [k \in Card |-> IF k = c THEN Null ELSE b.under[k] \ {c}],
     !.milestone[c] = Null,
     !.links = b.links \ Of(b, c)]

(* Mutant: the cards under a legend are not written down.                   *)
BinnedCardAlone(b, c) ==
  [what |-> "card", id |-> c, legend |-> c \in b.legends, under |-> b.under[c],
   milestone |-> b.milestone[c], links |-> Of(b, c), gathered |-> {}]

(* Mutant: the links are those from the card, not those to it.              *)
BinnedCardWithLinksFromIt(b, c) ==
  [what |-> "card", id |-> c, legend |-> c \in b.legends, under |-> b.under[c],
   milestone |-> b.milestone[c], links |-> {x \in b.links : x.from = c},
   gathered |-> IF c \in b.legends THEN Gathered(b, c) ELSE {}]

(* The card's recipe, and its repairs.                                      *)
BinnedCard(b, c) ==
  [what |-> "card", id |-> c, legend |-> c \in b.legends, under |-> b.under[c],
   milestone |-> b.milestone[c], links |-> Of(b, c),
   gathered |-> IF c \in b.legends THEN Gathered(b, c) ELSE {}]

WithoutMilestone(b, m) ==
  [b EXCEPT
     !.milestones = b.milestones \ {m},
     !.milestone = [k \in Card |-> b.milestone[k] \ {m}]]

BinnedMilestone(b, m) == [what |-> "milestone", id |-> m, promised |-> Promised(b, m)]

-----------------------------------------------------------------------------
(* A restore: insertPart, and applyRepair where the column is still null.   *)

(* Links with both ends there.                                              *)
ComingBack(b, e) ==
  {x \in e.links : x.from \in b.here \union {e.id} /\ x.to \in b.here \union {e.id}}

(* Mutant: the milestone is put back whether or not it is there.            *)
WithCardAsItWas(b, e) ==
  [b EXCEPT
     !.here = b.here \union {e.id},
     !.legends = IF e.legend THEN b.legends \union {e.id} ELSE b.legends,
     !.under = [k \in Card |->
                  IF k = e.id THEN e.under \intersect b.here
                  ELSE IF k \in e.gathered \intersect b.here /\ b.under[k] = Null
                       THEN {e.id} ELSE b.under[k]],
     !.milestone[e.id] = e.milestone,
     !.links = b.links \union ComingBack(b, e)]

(* forgetWhatIsGone empties the two columns that may point nowhere by now.  *)
WithCard(b, e) ==
  [b EXCEPT
     !.here = b.here \union {e.id},
     !.legends = IF e.legend THEN b.legends \union {e.id} ELSE b.legends,
     !.under = [k \in Card |->
                  IF k = e.id THEN e.under \intersect b.here
                  ELSE IF k \in e.gathered \intersect b.here /\ b.under[k] = Null
                       THEN {e.id} ELSE b.under[k]],
     !.milestone[e.id] = e.milestone \intersect b.milestones,
     !.links = b.links \union ComingBack(b, e)]

WithMilestone(b, e) ==
  [b EXCEPT
     !.milestones = b.milestones \union {e.id},
     !.milestone = [k \in Card |->
                      IF k \in e.promised \intersect b.here /\ b.milestone[k] = Null
                      THEN {e.id} ELSE b.milestone[k]]]

Restored(b, e) == IF e.what = "card" THEN WithCard(b, e) ELSE WithMilestone(b, e)

(* What the database would refuse: an id or a link that is there already,   *)
(* a key that meets no row.                                                 *)
Fits(b, e) ==
  /\ e.what = "card" => e.id \notin b.here /\ ComingBack(b, e) \intersect b.links = {}
  /\ e.what = "milestone" => e.id \notin b.milestones
  /\ Standing(Restored(b, e))

-----------------------------------------------------------------------------
(* Commands.                                                                *)

Init ==
  /\ board = [here |-> {}, spent |-> {}, legends |-> {},
              under |-> [k \in Card |-> Null], milestone |-> [k \in Card |-> Null],
              milestones |-> {}, added |-> {}, links |-> {}]
  /\ bin = {}

Write(b) == board' = b /\ UNCHANGED bin

CreateCard(c, m) ==
  /\ c \notin board.spent
  /\ m \subseteq board.milestones
  /\ Write([board EXCEPT !.here = @ \union {c}, !.spent = @ \union {c}, !.milestone[c] = m])

(* updateCard, of which only the promise is kept here.                      *)
UpdateCard(c, m) ==
  /\ c \in board.here
  /\ m \subseteq board.milestones
  /\ Write([board EXCEPT !.milestone[c] = m])

CreateMilestone(m) ==
  /\ m \notin board.added
  /\ Write([board EXCEPT !.milestones = @ \union {m}, !.added = @ \union {m}])

MakeLegend(c) ==
  /\ c \in board.here
  /\ board.under[c] = Null
  /\ Write([board EXCEPT !.legends = @ \union {c}])

(* "Unmaking one lets everything go rather than refusing" (setLegend).      *)
UnmakeLegend(c) ==
  /\ c \in board.here
  /\ Write([board EXCEPT !.legends = @ \ {c},
                         !.under = [k \in Card |-> board.under[k] \ {c}]])

PutUnderLegend(c, l) ==
  /\ c \in board.here /\ l \in board.legends \ {c}
  /\ c \notin board.legends
  /\ Write([board EXCEPT !.under[c] = {l}])

TakeFromLegend(c) ==
  /\ c \in board.here
  /\ Write([board EXCEPT !.under[c] = Null])

LinkCard(c, d, kind) ==
  /\ {c, d} \subseteq board.here /\ c # d
  /\ LET x == [from |-> c, to |-> d, kind |-> kind]
     IN Write([board EXCEPT !.links = @ \union {x, OtherHalf(x)}])

UnlinkCard(x) ==
  /\ x \in board.links
  /\ Write([board EXCEPT !.links = @ \ {x, OtherHalf(x)}])

DeleteCard(c) ==
  /\ c \in board.here
  /\ bin' = bin \union {BinnedCard(board, c)}
  /\ board' = WithoutCard(board, c)

DeleteMilestone(m) ==
  /\ m \in board.milestones
  /\ bin' = bin \union {BinnedMilestone(board, m)}
  /\ board' = WithoutMilestone(board, m)

(* take, and restoreFrom in the same transaction.                           *)
Restore(e) ==
  /\ Fits(board, e)
  /\ bin' = bin \ {e}
  /\ board' = Restored(board, e)

(* By hand, or past its date.                                               *)
Purge(e) == bin' = bin \ {e} /\ UNCHANGED board

Next ==
  \/ \E c \in Card, m \in AtMostOne(Milestone) : CreateCard(c, m) \/ UpdateCard(c, m)
  \/ \E m \in Milestone : CreateMilestone(m) \/ DeleteMilestone(m)
  \/ \E c \in Card : MakeLegend(c) \/ UnmakeLegend(c) \/ TakeFromLegend(c) \/ DeleteCard(c)
  \/ \E c, l \in Card : PutUnderLegend(c, l)
  \/ \E c, d \in Card, kind \in Kind : LinkCard(c, d, kind)
  \/ \E x \in board.links : UnlinkCard(x)
  \/ \E e \in bin : Restore(e) \/ Purge(e)

Spec == Init /\ [][Next]_vars

-----------------------------------------------------------------------------
(* Properties.                                                              *)

AnyKind == Kind \union {Reciprocal(kind) : kind \in Kind}

Link == [from : Card, to : Card, kind : AnyKind]

Board ==
  [here : SUBSET Card, spent : SUBSET Card, legends : SUBSET Card,
   under : [Card -> AtMostOne(Card)], milestone : [Card -> AtMostOne(Milestone)],
   milestones : SUBSET Milestone, added : SUBSET Milestone, links : SUBSET Link]

BinRow(e) ==
  \/ e \in [what : {"card"}, id : Card, legend : BOOLEAN, under : AtMostOne(Card),
           milestone : AtMostOne(Milestone), links : SUBSET Link, gathered : SUBSET Card]
  \/ e \in [what : {"milestone"}, id : Milestone, promised : SUBSET Card]

TypeOK == board \in Board /\ \A e \in bin : BinRow(e)

(* "Otherwise a card could be blocked by something that does not know it is  *)
(* blocking" (linkCard): each link has its other half on the board, however *)
(* the cards at its ends went and came back.                                *)
LinksGoBothWays == \A x \in board.links : OtherHalf(x) \in board.links

(* "The card is still entirely itself without it, so it comes back and      *)
(* forgets the date it was promised for rather than refusing to come back   *)
(* at all" (Part.forgets): whatever was deleted, unmade, linked and put     *)
(* back since, the database takes back any card and milestone of the bin.   *)
NothingIsRefused == \A e \in bin : Fits(board, e)

(* "A restore brings back the card as it stood" (deleteCard): a card or a   *)
(* milestone deleted and restored at once leaves every tie as it was.  One  *)
(* that gathers cards without being a legend, as a restore may leave it,    *)
(* lets them go.                                                            *)
TiesComeBack ==
  /\ \A c \in board.here :
       (Gathered(board, c) # {} => c \in board.legends) =>
         Restored(WithoutCard(board, c), BinnedCard(board, c)) = board
  /\ \A m \in board.milestones :
       Restored(WithoutMilestone(board, m), BinnedMilestone(board, m)) = board

(* "One level is the whole model: two makes 'which legend closes this' a    *)
(* question with two answers" (setLegend): what a card is under is a        *)
(* legend, and is under nothing.                                            *)
LegendsAreOneLevelDeep ==
  \A c \in board.here : \A l \in board.under[c] :
    l \in board.legends /\ board.under[l] = Null
=============================================================================
