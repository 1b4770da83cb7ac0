------------------------------ MODULE Dragging ------------------------------
(***************************************************************************)
(* A drag in one person's browser, over the set of Ordering.  The screen   *)
(* is a cached answer; a drag rewrites it, or draws an order of its own,   *)
(* or waits; the drop becomes a request that names neighbours; and while   *)
(* all that goes on others move rows and the answers to earlier questions  *)
(* come in.  Every change at the server is told to the screen: what a lost *)
(* frame does is in Live.                                                  *)
(***************************************************************************)
EXTENDS Ordering

CONSTANTS Screens,     \* the screens behaviours are about
          Watched,     \* the rows there are on such a screen, or come to it
          MostDrops,   \* bound on the drops of this person
          MostChanges  \* bound on the changes made to the set, with those on their way

ASSUME DraggingAssumption ==
  /\ Screens \subseteq {"cards", "assets", "headings", "lists", "documents", "pictures"}
  /\ Watched \subseteq Row
  /\ MostDrops \in Nat /\ MostChanges \in 0 .. MaxMoves

VARIABLES screen,    \* what is being dragged in this behaviour
          unseen,    \* rows the screen does not show: closed cards, assets filtered out
          data,      \* the cached answer: the rows, in their order
          kept,      \* the order the strip of pictures shows instead, or none
          carried,   \* the row in the hand
          before,    \* the cached answer when it was picked up
          sent,      \* the moves that were sent and are not settled
          drops,     \* how many were sent
          fetch,     \* the question under way, and the answer on its way back
          told,      \* a frame that says the order changed is on its way
          overtaken  \* something kept on this screen is older than an answer that came

tab == <<screen, unseen, data, kept, carried, before, sent, drops, fetch, told, overtaken>>

-----------------------------------------------------------------------------
(* Where a drop goes, worked out on the screen.                             *)

Lacking(s, r) == IF Where(s, r) = 0 THEN s ELSE RemoveAt(s, Where(s, r))

Stays(r) == [row |-> r, here |-> FALSE, after |-> Nobody, before |-> Nobody]

Between2(s, r, i) == [row |-> r, here |-> TRUE, after |-> NameAt(s, i), before |-> NameAt(s, i + 1)]

(* Mutant: the row it stands on is taken for the row behind it.             *)
PlacementOffByOne(s, r) ==
  IF Where(s, r) = 0 THEN Stays(r)
  ELSE [row |-> r, here |-> TRUE, after |-> NameAt(s, Where(s, r) - 2),
        before |-> NameAt(s, Where(s, r) + 1)]

(* describePlacement: where a row sits, as the move that would put it there. *)
Placement(s, r) ==
  IF Where(s, r) = 0 THEN Stays(r)
  ELSE [row |-> r, here |-> TRUE, after |-> NameAt(s, Where(s, r) - 1),
        before |-> NameAt(s, Where(s, r) + 1)]

(* dropOnCard: dragging down past a card lands below it, up above it.       *)
DropOnCard(s, r, over) ==
  LET rest == Lacking(s, r)
      down == Where(s, r) # 0 /\ Where(s, r) < Where(s, over)
  IN Between2(rest, r, Where(rest, over) - (IF down THEN 0 ELSE 1))

(* resolveDrop: it lands where the one it was dropped on is now.            *)
DropOnRow(s, r, over) == Between2(Lacking(s, r), r, Where(s, over) - 1)

(* dropOnList, intoAnotherCategory: the end.                                *)
DropAtEnd(s, r) == Between2(Lacking(s, r), r, Len(Lacking(s, r)))

(* withinOneCategory: the open space of an asset's own category stands for  *)
(* the last of the others.                                                  *)
DropOnOwnSpace(s, r) ==
  LET rest == Lacking(s, r)
  IN IF rest = <<>> THEN Placement(s, r) ELSE DropOnRow(s, r, rest[Len(rest)])

(* besideIt: above or below a heading, among the others.                    *)
DropBeside(s, r, over) ==
  LET rest == Lacking(s, r)
  IN {Between2(rest, r, Where(rest, over) - 1), Between2(rest, r, Where(rest, over))}

(* neighboursAfterMove: read off the order the move would make.             *)
DropAmongDocuments(s, r, over) ==
  Placement(InsertAt(Lacking(s, r), Where(s, over), r), r)

(* applyCardMove, indexForMove: the row in front of which it lands decides. *)
Applied(s, m) ==
  LET rest == Lacking(s, m.row)
      i == CASE Where(rest, m.before) # 0 -> Where(rest, m.before)
             [] Where(rest, m.before) = 0 /\ Where(rest, m.after) # 0 -> Where(rest, m.after) + 1
             [] OTHER -> Len(rest) + 1
  IN IF m.here THEN InsertAt(rest, i, m.row) ELSE rest

-----------------------------------------------------------------------------
(* The screens.                                                             *)

Travels == screen \in {"cards", "assets"}            \* redrawn as the pointer travels
PutsBack == Travels \/ screen \in {"lists", "headings"}  \* keeps the answer from before the drag
Elsewhere == Travels \/ screen = "headings"          \* rows may come from and go to other sets

WayOf(x) ==
  CASE x \in {"cards", "assets", "headings"} -> "asked"
    [] x \in {"lists", "documents"} -> "whole"
    [] x = "pictures" -> "named"

(* inDroppedOrder: what was gained since goes on the end.                   *)
ShownAt(r) == IF Where(kept, r) # 0 THEN Where(kept, r) ELSE Len(kept) + Where(data, r)

Shown ==
  IF kept = <<>> THEN data
  ELSE CHOOSE s \in SetToSeqs(ToSet(data)) : \A i \in 1 .. Len(s) - 1 : ShownAt(s[i]) < ShownAt(s[i + 1])

(* isDroppedOrder: an order of one's own is let go when the answer says it. *)
KeptBeside(rows, order) == IF rows = order THEN <<>> ELSE order

(* What the server would answer now.                                        *)
Answers == InOrder(Here \ unseen)

Idle == [at |-> "idle", rows |-> <<>>]
Asking == [at |-> "asked", rows |-> <<>>]

OnScreen == IF Elsewhere THEN Watched \ unseen ELSE ToSet(Shown)

Unsettled == moves + Cardinality({m \in sent : m.at = "going"})

DragInit ==
  /\ OrderInit /\ Here \subseteq Watched
  /\ screen \in Screens
  /\ way = WayOf(screen) /\ ~upToDate
  /\ unseen \in (IF Travels THEN {{}} \union {{r} : r \in Watched} ELSE {{}})
  /\ data \in Answers
  /\ kept = <<>> /\ carried = Nobody /\ before = <<>>
  /\ sent = {} /\ drops = 0
  /\ fetch = Idle
  /\ told = FALSE /\ overtaken = FALSE

-----------------------------------------------------------------------------
(* The person.                                                              *)

PickUp(r) ==
  /\ carried = Nobody /\ drops < MostDrops
  /\ r \in OnScreen
  /\ carried' = r
  /\ before' = data
  /\ UNCHANGED <<orderVars, screen, unseen, data, kept, sent, drops, fetch, told, overtaken>>

(* What the pointer can be over, as a move.                                 *)
Hovered(r) ==
  LET others == ToSet(data) \ {r} IN
  {Stays(r)}
    \union (IF screen = "cards"
              THEN {DropOnCard(data, r, over) : over \in others} \union {DropAtEnd(data, r)}
              ELSE {DropOnRow(data, r, over) : over \in others}
                     \union {IF Where(data, r) = 0 THEN DropAtEnd(data, r) ELSE DropOnOwnSpace(data, r)})

(* stepCardAcross, stepAcross: the cached answer itself is rewritten.       *)
StepAcross ==
  /\ carried # Nobody /\ Travels
  /\ \E m \in Hovered(carried) : data' = Applied(data, m)
  /\ UNCHANGED <<orderVars, screen, unseen, kept, carried, before, sent, drops, fetch, told, overtaken>>

(* What letting go may ask for.                                             *)
Releases(r) ==
  CASE Travels -> {Placement(data, r)}
    [] screen = "headings" ->
         UNION {DropBeside(data, r, over) : over \in ToSet(data) \ {r}} \union {DropAtEnd(data, r), Stays(r)}
    [] screen = "documents" -> {DropAmongDocuments(data, r, over) : over \in ToSet(data) \ {r}}
    [] OTHER -> {DropOnRow(Shown, r, over) : over \in ToSet(Shown) \ {r}}

(* isWhereItStarted, where a screen asks.                                   *)
IsWhereItStarted(m) == Elsewhere /\ m = Placement(before, m.row)

(* finishDrag: the move is sent, and where there is an answer to put back,  *)
(* a question under way is cancelled first.                                 *)
LetGo ==
  /\ carried # Nobody /\ Unsettled < MostChanges
  /\ Elsewhere \/ carried \in ToSet(Shown)
  /\ \E m \in Releases(carried) :
       /\ ~IsWhereItStarted(m)
       /\ sent' = sent \union {[move |-> m, at |-> "going", no |-> drops + 1,
                               order |-> IF Travels THEN data ELSE Applied(Shown, m),
                               revert |-> IF PutsBack THEN before ELSE <<>>]}
       /\ data' = IF screen = "lists" THEN Applied(data, m) ELSE data
       /\ kept' = IF screen = "pictures" THEN KeptBeside(data, Applied(Shown, m)) ELSE kept
  /\ drops' = drops + 1
  /\ carried' = Nobody /\ before' = <<>>
  /\ fetch' = IF PutsBack THEN Idle ELSE fetch
  /\ overtaken' = (overtaken \/ (screen = "pictures" /\ (sent # {} \/ Answers # {Shown})))
  /\ UNCHANGED <<orderVars, screen, unseen, told>>

(* Let go where nothing changes: back where it was, or over nothing.        *)
LetGoForNothing ==
  /\ carried # Nobody
  /\ Travels => IsWhereItStarted(Placement(data, carried))
  /\ carried' = Nobody /\ before' = <<>>
  /\ UNCHANGED <<orderVars, screen, unseen, data, kept, sent, drops, fetch, told, overtaken>>

(* onDragCancel                                                             *)
Cancel ==
  /\ carried # Nobody
  /\ data' = IF PutsBack THEN before ELSE data
  /\ carried' = Nobody /\ before' = <<>>
  /\ UNCHANGED <<orderVars, screen, unseen, kept, sent, drops, fetch, told, overtaken>>

-----------------------------------------------------------------------------
(* The server, and others.                                                  *)

(* The whole command; whether its answer comes through is another matter.   *)
Serve(m) ==
  /\ m.at = "going"
  /\ Elsewhere \/ m.move.row \in Here
  /\ \/ m.move.here /\ DropBetween(m.move.row, m.move.after, m.move.before)
     \/ ~m.move.here /\ Leave(m.move.row)
     \/ ~m.move.here /\ m.move.row \notin Here /\ UNCHANGED orderVars
  /\ \E at \in {"done", "failed"} : sent' = (sent \ {m}) \union {[m EXCEPT !.at = at]}
  /\ told' = TRUE
  /\ UNCHANGED <<screen, unseen, data, kept, carried, before, drops, fetch, overtaken>>

(* A list at its limit, a neighbour that is gone, a request that never came. *)
Refuse(m) ==
  /\ m.at = "going"
  /\ sent' = (sent \ {m}) \union {[m EXCEPT !.at = "failed"]}
  /\ UNCHANGED <<orderVars, screen, unseen, data, kept, carried, before, drops, fetch, told, overtaken>>

OtherActs ==
  /\ Unsettled < MostChanges
  /\ \E r \in Watched :
       \/ \E p \in Adjacent(r) : (Elsewhere \/ r \in Here) /\ DropBetween(r, p[1], p[2])
       \/ Add(r)
       \/ Leave(r)
  /\ told' = TRUE
  /\ overtaken' = (overtaken \/ (screen = "pictures" /\ (sent # {} \/ kept # <<>>)))
  /\ UNCHANGED <<screen, unseen, data, kept, carried, before, sent, drops, fetch>>

-----------------------------------------------------------------------------
(* What comes back.                                                         *)

(* Mutant: only a move that worked is followed by a question.               *)
SettleAskingOnSuccess(m) ==
  /\ m.at \in {"done", "failed"}
  /\ sent' = sent \ {m}
  /\ data' = IF m.at = "failed" /\ PutsBack THEN m.revert ELSE data
  /\ kept' = IF m.at = "failed" /\ screen = "pictures" /\ m.no = drops THEN <<>> ELSE kept
  /\ fetch' = IF m.at = "done" THEN Asking ELSE fetch
  /\ UNCHANGED <<orderVars, screen, unseen, carried, before, drops, told, overtaken>>

(* onError, onSettled: the answer from before the drag is put back and the  *)
(* server asked; the strip hears only of its latest move.                   *)
Settle(m) ==
  /\ m.at \in {"done", "failed"}
  /\ sent' = sent \ {m}
  /\ data' = IF m.at = "failed" /\ PutsBack THEN m.revert ELSE data
  /\ kept' = IF m.at = "failed" /\ screen = "pictures" /\ m.no = drops THEN <<>> ELSE kept
  /\ fetch' = IF m.at = "done" \/ PutsBack THEN Asking ELSE fetch
  /\ UNCHANGED <<orderVars, screen, unseen, carried, before, drops, told, overtaken>>

(* A frame: a question under way is asked anew.                             *)
HearFrame ==
  /\ told
  /\ told' = FALSE
  /\ fetch' = Asking
  /\ UNCHANGED <<orderVars, screen, unseen, data, kept, carried, before, sent, drops, overtaken>>

Answer ==
  /\ fetch.at = "asked"
  /\ \E rows \in Answers : fetch' = [at |-> "read", rows |-> rows]
  /\ UNCHANGED <<orderVars, screen, unseen, data, kept, carried, before, sent, drops, told, overtaken>>

(* It takes the place of what is on the screen, whatever is being carried.  *)
Arrive ==
  /\ fetch.at = "read"
  /\ data' = fetch.rows
  /\ kept' = KeptBeside(fetch.rows, kept)
  /\ fetch' = Idle
  /\ overtaken' = (carried # Nobody \/ (overtaken /\ (sent # {} \/ kept' # <<>>)))
  /\ UNCHANGED <<orderVars, screen, unseen, carried, before, sent, drops, told>>

DragStep ==
  \/ \E r \in Watched : PickUp(r)
  \/ StepAcross \/ LetGo \/ LetGoForNothing \/ Cancel
  \/ \E m \in sent : Serve(m) \/ Refuse(m) \/ Settle(m)
  \/ OtherActs
  \/ HearFrame \/ Answer \/ Arrive

DragSpec == DragInit /\ [][DragStep]_<<orderVars, tab>>

-----------------------------------------------------------------------------

(* "The server is the authority on where the card ended up" (use-cards.ts): *)
(* when nothing is carried, sent or asked, the screen shows the order there *)
(* is, whatever was refused, lost or done by others on the way, unless an   *)
(* answer came while a row was in the hand, or a strip of pictures was      *)
(* dropped on an order that was not the server's only one.                  *)
ScreensSettle ==
  carried = Nobody /\ sent = {} /\ fetch = Idle /\ ~told /\ ~overtaken
    => kept = <<>> /\ data \in Answers

(* "A drag is a promise about where the thing will be" (use-board-dragging. *)
(* ts): on a set nobody else has touched, the move that is made gives the   *)
(* order that was on the screen when the row was let go, though the rows it *)
(* names are found again one by one and the set may be spread.              *)
LandsWhereShown ==
  [][\A m \in sent :
       /\ m \notin sent' /\ position' # position
       /\ [m EXCEPT !.at = "done"] \in sent' \/ [m EXCEPT !.at = "failed"] \in sent'
       /\ Lacking(m.order, m.move.row) \in {Lacking(s, m.move.row) : s \in Answers}
       /\ \A r, s \in Others(m.move.row) : position[r] = position[s] => r = s
       => m.order \in Answers']_<<orderVars, tab>>
=============================================================================
