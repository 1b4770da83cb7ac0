-------------------------------- MODULE Board --------------------------------
(***************************************************************************)
(* One project's board: its lists in order, the cards on them, the limit   *)
(* on work in progress and the stamp that says a card is finished.  A      *)
(* command is a transaction under READ COMMITTED with no row locks: what   *)
(* its handler read when it began is what it acts on when it writes, and   *)
(* other commands may commit in between.                                   *)
(***************************************************************************)
EXTENDS Naturals, Sequences, FiniteSets, SequencesExt

CONSTANTS Card,            \* cards there may be
          List,            \* lists there may be
          User,            \* people with a command in flight
          FirstLists,      \* the lists the board starts with, in order
          WipLimits,       \* limits a list may be given
          NoLimit,         \* wip_limit is null
          Nowhere,         \* a card that does not exist
          NotStarted,      \* a user with no transaction open
          Uses             \* the ways a board may be used

ASSUME BoardAssumption ==
  /\ FirstLists \in Seq(List)
  /\ \A i, j \in DOMAIN FirstLists : FirstLists[i] = FirstLists[j] => i = j
  /\ WipLimits \subseteq Nat \ {0}
  /\ NoLimit \notin WipLimits
  /\ Nowhere \notin List

(* Whether its commands come one at a time, its lists are added, moved and  *)
(* archived, and cards are created on the list it finishes on.              *)
Use == [alone : BOOLEAN, restructured : BOOLEAN, bornFinished : BOOLEAN]

ASSUME UseAssumption == Uses \subseteq Use

VARIABLES order,     \* the lists still on the board, by position
          archived,  \* the lists taken off it
          wipLimit,  \* what each list will hold
          advisory,  \* project.wip_is_advisory, which no command sets
          on,        \* card.list_id
          closed,    \* whether card.closed_at is set
          use,       \* how this board is used, from beginning to end
          tx         \* what each user's open transaction read and is about to write

listVars == <<order, archived, wipLimit, advisory, use>>
vars == <<order, archived, wipLimit, advisory, use, on, closed, tx>>

Live == ToSet(order)

(* The board is read left to right and finishes on the last list.           *)
Finishing == Last(order)

(* The board without one of its lists, the others as they were.             *)
Without(l) == RemoveAt(order, CHOOSE i \in DOMAIN order : order[i] = l)

CardsOn(l) == {c \in Card : on[c] = l}

(* countOpenCards: only cards with no stamp fill a list.                    *)
OpenOn(l) == {c \in CardsOn(l) : ~closed[c]}

HasRoom(l) ==
  ~advisory /\ wipLimit[l] # NoLimit => Cardinality(OpenOn(l)) < wipLimit[l]

Init ==
  /\ order = FirstLists
  /\ archived = {}
  /\ wipLimit \in [List -> WipLimits \union {NoLimit}]
  /\ advisory \in BOOLEAN
  /\ use \in Uses
  /\ on = [c \in Card |-> Nowhere]
  /\ closed = [c \in Card |-> FALSE]
  /\ tx = [u \in User |-> NotStarted]

-----------------------------------------------------------------------------
(* Beginning a transaction: everything the handler reads and refuses on.    *)

Begin(u, work) ==
  /\ tx[u] = NotStarted
  /\ use.alone => \A v \in User : tx[v] = NotStarted
  /\ tx' = [tx EXCEPT ![u] = work]
  /\ UNCHANGED <<listVars, on, closed>>

(* board.createCard: the list is on the board and has room.                 *)
BeginCreate(u, c, l) ==
  /\ on[c] = Nowhere
  /\ \A v \in User : tx[v] # NotStarted => c \notin tx[v].cards
  /\ l \in Live
  /\ ~use.bornFinished => l # Finishing
  /\ HasRoom(l)
  /\ Begin(u, [does |-> "create", cards |-> {c}, to |-> l, closing |-> FALSE])

(* Mutant: the limit is asked only of new cards.                            *)
BeginMoveUnasked(u, c, l) ==
  /\ on[c] # Nowhere
  /\ l \in Live
  /\ Begin(u, [does |-> "move", cards |-> {c}, to |-> l, closing |-> (l = Finishing)])

(* board.moveCard: the limit is asked only of a card that changes list, and *)
(* the stamp is settled by where the board finishes.                        *)
BeginMove(u, c, l) ==
  /\ on[c] # Nowhere
  /\ l \in Live
  /\ on[c] # l => HasRoom(l)
  /\ Begin(u, [does |-> "move", cards |-> {c}, to |-> l, closing |-> (l = Finishing)])

(* Mutant: the list being archived is accepted as the place to go.          *)
BeginArchiveOntoItself(u, l) ==
  /\ l \in Live
  /\ \E d \in Live :
       Begin(u, [does |-> "archive", list |-> l, cards |-> CardsOn(l), to |-> d])

(* board.archiveList: open cards must have somewhere to go.  The limit of   *)
(* that list is deliberately not asked.                                     *)
BeginArchive(u, l) ==
  /\ l \in Live
  /\ \/ /\ OpenOn(l) = {}
        /\ Begin(u, [does |-> "archive", list |-> l, cards |-> {}, to |-> l])
     \/ /\ OpenOn(l) # {}
        /\ \E d \in Live \ {l} :
             Begin(u, [does |-> "archive", list |-> l, cards |-> CardsOn(l), to |-> d])

-----------------------------------------------------------------------------
(* Writing and committing.                                                  *)

Done(u) == tx' = [tx EXCEPT ![u] = NotStarted]

(* An update by id: a card deleted meanwhile is not written.                *)
Put(cards, l) == on' = [c \in Card |-> IF c \in cards /\ on[c] # Nowhere THEN l ELSE on[c]]

CommitCreate(u) ==
  /\ tx[u] # NotStarted
  /\ tx[u].does = "create"
  /\ on' = [c \in Card |-> IF c \in tx[u].cards THEN tx[u].to ELSE on[c]]
  /\ Done(u)
  /\ UNCHANGED <<listVars, closed>>

(* Mutant: the stamp is set by arriving and never cleared by leaving.       *)
CommitMoveKeepingTheStamp(u) ==
  /\ tx[u] # NotStarted
  /\ tx[u].does = "move"
  /\ Put(tx[u].cards, tx[u].to)
  /\ closed' = [c \in Card |->
                  closed[c] \/ (c \in tx[u].cards /\ on[c] # Nowhere /\ tx[u].closing)]
  /\ Done(u)
  /\ UNCHANGED listVars

CommitMove(u) ==
  /\ tx[u] # NotStarted
  /\ tx[u].does = "move"
  /\ Put(tx[u].cards, tx[u].to)
  /\ closed' = [c \in Card |->
                  IF c \in tx[u].cards /\ on[c] # Nowhere THEN tx[u].closing ELSE closed[c]]
  /\ Done(u)
  /\ UNCHANGED listVars

(* The cards go to the end of the other list with the stamps they have.     *)
CommitArchive(u) ==
  /\ tx[u] # NotStarted
  /\ tx[u].does = "archive"
  /\ Put(tx[u].cards, tx[u].to)
  /\ order' = IF tx[u].list \in Live THEN Without(tx[u].list) ELSE order
  /\ archived' = archived \union {tx[u].list}
  /\ Done(u)
  /\ UNCHANGED <<wipLimit, advisory, use, closed>>

(* A handler that throws, or a connection that drops.                       *)
Rollback(u) ==
  /\ tx[u] # NotStarted
  /\ Done(u)
  /\ UNCHANGED <<listVars, on, closed>>

-----------------------------------------------------------------------------
(* Commands whose reads and write are one step here.                        *)

Quiet == use.alone => \A u \in User : tx[u] = NotStarted

DeleteCard(c) ==
  /\ Quiet
  /\ on[c] # Nowhere
  /\ on' = [on EXCEPT ![c] = Nowhere]
  /\ closed' = [closed EXCEPT ![c] = FALSE]
  /\ UNCHANGED <<listVars, tx>>

(* board.createList puts a list on the end, after every other.              *)
CreateList(l, limit) ==
  /\ Quiet
  /\ l \notin Live \union archived
  /\ order' = Append(order, l)
  /\ wipLimit' = [wipLimit EXCEPT ![l] = limit]
  /\ UNCHANGED <<archived, advisory, use, on, closed, tx>>

MoveList(l, i) ==
  /\ Quiet
  /\ l \in Live
  /\ i \in DOMAIN order
  /\ order' = InsertAt(Without(l), i, l)
  /\ UNCHANGED <<archived, wipLimit, advisory, use, on, closed, tx>>

(* board.updateList, the part a card feels.                                 *)
UpdateList(l, limit) ==
  /\ Quiet
  /\ l \in Live
  /\ wipLimit' = [wipLimit EXCEPT ![l] = limit]
  /\ UNCHANGED <<order, archived, advisory, use, on, closed, tx>>

-----------------------------------------------------------------------------

Structure ==
  \/ \E u \in User, l \in List : BeginArchive(u, l)
  \/ \E u \in User : CommitArchive(u)
  \/ \E l \in List, limit \in WipLimits \union {NoLimit} : CreateList(l, limit)
  \/ \E l \in List, i \in DOMAIN order : MoveList(l, i)

Next ==
  \/ \E u \in User, c \in Card, l \in List : BeginCreate(u, c, l) \/ BeginMove(u, c, l)
  \/ \E u \in User : CommitCreate(u) \/ CommitMove(u) \/ Rollback(u)
  \/ \E c \in Card : DeleteCard(c)
  \/ \E l \in List, limit \in WipLimits \union {NoLimit} : UpdateList(l, limit)
  \/ use.restructured /\ Structure

Spec == Init /\ [][Next]_vars

-----------------------------------------------------------------------------
(* Properties.                                                              *)

Work ==
  [does : {"create", "move"}, cards : SUBSET Card, to : List, closing : BOOLEAN]
    \union [does : {"archive"}, list : List, cards : SUBSET Card, to : List]

TypeOK ==
  /\ order \in Seq(List)
  /\ archived \subseteq List
  /\ wipLimit \in [List -> WipLimits \union {NoLimit}]
  /\ advisory \in BOOLEAN
  /\ use \in Uses
  /\ on \in [Card -> List \union {Nowhere}]
  /\ closed \in [Card -> BOOLEAN]
  /\ tx \in [User -> Work \union {NotStarted}]

(* "A card on the list the board finishes on is closed; a card anywhere     *)
(* else is open" (domain/cards/closing.ts): so it is while the lists stay   *)
(* as they are and no card is created on the last one, whatever moves race. *)
ClosedMeansFinished ==
  ~use.restructured /\ ~use.bornFinished =>
    \A c \in Card : on[c] # Nowhere => (closed[c] <=> on[c] = Finishing)

(* Archiving a list never leaves open work behind on it (archiveList),      *)
(* while commands come one at a time.                                       *)
OpenCardsAreOnTheBoard ==
  use.alone => \A c \in Card : on[c] # Nowhere /\ ~closed[c] => on[c] \in Live

(* "Rather than stranding them where nobody would find them again"          *)
(* (archiveList): no card, open or finished, is left on a list that is off  *)
(* the board.                                                               *)
NothingIsStranded == \A c \in Card : on[c] # Nowhere => on[c] \in Live

(* A card that comes onto a list, from another or new, finds room there.    *)
(* The cards of a list being archived are let in.                           *)
ArrivalsFindRoom(cards) ==
  \A l \in Live \intersect Live' :
    Live' = Live /\ (\E c \in cards : on[c] # l /\ on'[c] = l) => HasRoom(l)

(* "The whole point of a work-in-progress limit is that it says no"         *)
(* (assertListHasRoom): it does, to commands that come one at a time.       *)
ArrivalsRespectTheLimit == [][use.alone => ArrivalsFindRoom(Card)]_vars

(* "Two people dragging into the same full list would both be told it was   *)
(* fine" by a browser, which is why the limit is checked where it is        *)
(* (moveCard): a card dragged onto a list finds room there, whoever else is *)
(* dragging.                                                                *)
DragsRespectTheLimit == [][ArrivalsFindRoom({c \in Card : on[c] # Nowhere})]_vars
=============================================================================
